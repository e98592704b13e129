----------------------------- MODULE TablesPage ------------------------------
(***************************************************************************)
(* The page of tables with active orders (src/frontend/src/pages/TablesPage*)
(* .tsx), as its handlers and a payment dialog it mounts change it. Orders *)
(* are numbered in the order they are made, so a list of orders, newest    *)
(* first, is a set. An amount is the set of orders it is the total of.     *)
(*                                                                         *)
(* Left out: what the dialog does inside (module PaymentDialog; a payment  *)
(* is for the amount the back end reads from the order it is created for), *)
(* what is ordered, and orders without a table, which the page never gets. *)
(***************************************************************************)
EXTENDS Naturals, FiniteSets

CONSTANTS
  Table,
  TableOf,  \* the table of an order: orders are 1, 2, ... in its domain
  Job,      \* invocations of the handlers that complete orders, used in their order
  NoTable

Order == DOMAIN TableOf

ASSUME TableAssumption ==
  /\ IsFiniteSet(Order) /\ Order = 1 .. Cardinality(Order)
  /\ Job \subseteq Nat /\ NoTable \notin Table
ASSUME TableOfAssumption == TableOf \in [Order -> Table]

VARIABLES
  active, ended,  \* the orders of the back end
  shown,          \* the orders in the page's state
  reading,        \* the request for them, none when nothing loads; the page
  answer,         \* hides while it loads. What it will return
  table, order,   \* what is selected; order 0: none
  split,          \* the tables whose orders are shown one by one
  paying,         \* showPayment
  charged,        \* orders the dialog's payment covers, empty before there is one
  bill,           \* history: the orders in the total the dialog opened with
  job,            \* the handlers' invocations
  unpaid,         \* history: orders completed on a payment that did not cover them
  unbilled        \* history: orders completed on one whose dialog's total had not them

backend  == <<active, ended>>
selected == <<table, order, split, paying>>
billing  == <<unpaid, unbilled>>
tablesVars == <<backend, shown, reading, answer, selected, charged, bill, job, billing>>

NoJob == [kind |-> "none", orders |-> {}, left |-> {}]

TablesTypeOK ==
  /\ active \in SUBSET Order /\ ended \in SUBSET Order /\ active \cap ended = {}
  /\ shown \in SUBSET (active \cup ended) /\ answer \in SUBSET (active \cup ended)
  /\ reading \in {"off", "none", "sent", "read"}
  /\ table \in Table \cup {NoTable} /\ order \in Order \cup {0}
  /\ split \in SUBSET Table /\ paying \in BOOLEAN
  /\ charged \in SUBSET Order /\ bill \in SUBSET Order
  /\ job \in [Job -> [kind : {"none", "table", "order", "over"},
                      orders : SUBSET Order, left : SUBSET Order]]
  /\ unpaid \in SUBSET Order /\ unbilled \in SUBSET Order

\* The page is mounted and loads; or it is not in use ("off").
TablesInit(first) ==
  /\ active \in (IF first = "off" THEN {{}} ELSE {{o \in Order : o <= n} : n \in Order \cup {0}})
  /\ ended = {} /\ shown = {}
  /\ reading = first /\ answer = {}
  /\ table = NoTable /\ order = 0 /\ split = {} /\ paying = FALSE
  /\ charged = {} /\ bill = {}
  /\ job = [j \in Job |-> NoJob]
  /\ unpaid = {} /\ unbilled = {}

-----------------------------------------------------------------------------
(***************************************************************************)
(* What the page derives from its state                                    *)
(***************************************************************************)

Group   == {o \in shown : TableOf[o] = table}
IsSplit == table \in split

SelectedOrder == IF order \in Group THEN {order} ELSE {}

\* The newest order comes first.
First(s) == {o \in s : \A p \in s : p <= o}

PayOrder == IF IsSplit THEN {order} \ {0} ELSE First(Group)
PayTotal == IF IsSplit THEN SelectedOrder ELSE Group

Visible == reading = "none"
Mounted == Visible /\ paying /\ PayOrder # {}   \* the dialog, which covers the page
Panel   == Visible /\ Group # {} /\ ~paying

\* Mounting the dialog starts it anew, with the total of now; so does hiding it.
Remount ==
  /\ bill' = IF ~Mounted' THEN {} ELSE IF Mounted THEN bill ELSE PayTotal'
  /\ charged' = IF Mounted /\ Mounted' THEN charged ELSE {}

-----------------------------------------------------------------------------
(***************************************************************************)
(* Loading and selecting                                                   *)
(***************************************************************************)

SelectOnPage == UNCHANGED <<backend, shown, reading, answer, job, billing>> /\ Remount

\* Variant: the page does not hide while it loads.
RefreshInPlace ==
  /\ Visible
  /\ shown' = active
  /\ UNCHANGED <<backend, reading, answer, selected, job, billing>> /\ Remount

Refresh ==
  /\ Visible /\ ~Mounted
  /\ reading' = "sent" /\ answer' = {}
  /\ UNCHANGED <<backend, shown, selected, job, billing>> /\ Remount

ServeLoad ==
  /\ reading = "sent"
  /\ reading' = "read" /\ answer' = active
  /\ UNCHANGED <<backend, shown, selected, job, billing>> /\ Remount

\* What was read is shown, whatever happened since; or there was an error.
Loaded ==
  /\ \/ reading = "read" /\ shown' = answer
     \/ reading \in {"sent", "read"} /\ UNCHANGED shown
  /\ reading' = "none" /\ answer' = {}
  /\ UNCHANGED <<backend, selected, job, billing>> /\ Remount

SelectTable(t) ==
  /\ Visible /\ ~Mounted /\ \E o \in shown : TableOf[o] = t
  /\ table' = t /\ order' = 0
  /\ UNCHANGED <<split, paying>> /\ SelectOnPage

CloseGroup ==
  /\ Panel
  /\ table' = NoTable /\ order' = 0
  /\ UNCHANGED <<split, paying>> /\ SelectOnPage

ToggleSplit ==
  /\ Panel
  /\ split' = IF IsSplit THEN split \ {table} ELSE split \cup {table}
  /\ order' = 0
  /\ UNCHANGED <<table, paying>> /\ SelectOnPage

SelectOrder(o) ==
  /\ Panel /\ IsSplit /\ o \in Group
  /\ order' = o
  /\ UNCHANGED <<table, split, paying>> /\ SelectOnPage

-----------------------------------------------------------------------------
(***************************************************************************)
(* Completing orders                                                       *)
(***************************************************************************)

\* Every order of s is patched at the same time.
Complete(j, kind, s) ==
  /\ \A i \in Job : (job[i].kind = "none") <=> (j <= i)
  /\ job' = [job EXCEPT ![j] = [kind |-> kind, orders |-> s, left |-> s]]

CompleteTable(j) ==
  /\ Panel /\ ~IsSplit
  /\ Complete(j, "table", Group)
  /\ UNCHANGED <<backend, shown, reading, answer, selected, billing>> /\ Remount

CompleteOrder(j) ==
  /\ Panel /\ IsSplit /\ SelectedOrder # {}
  /\ Complete(j, "order", SelectedOrder)
  /\ UNCHANGED <<backend, shown, reading, answer, selected, billing>> /\ Remount

ServeComplete(j) ==
  \E o \in job[j].left :
    /\ active' = active \ {o} /\ ended' = ended \cup {o}
    /\ job' = [job EXCEPT ![j].left = @ \ {o}]
    /\ UNCHANGED <<shown, reading, answer, selected, billing>> /\ Remount

\* All were answered: what is selected now is not selected any more.
Completed(j) ==
  /\ job[j].kind \in {"table", "order"} /\ job[j].left = {}
  /\ shown' = shown \ job[j].orders
  /\ table' = IF job[j].kind = "table" THEN NoTable ELSE table
  /\ order' = IF job[j].kind = "order" THEN 0 ELSE order
  /\ job' = [job EXCEPT ![j] = [NoJob EXCEPT !.kind = "over"]]
  /\ UNCHANGED <<backend, reading, answer, split, paying, billing>> /\ Remount

\* One fails, or its answer is lost. The others are served all the same.
CompleteFails(j) ==
  /\ job[j].kind \in {"table", "order"}
  /\ \E o \in job[j].orders :
       job' = [job EXCEPT ![j].kind = "over", ![j].orders = {}, ![j].left = @ \ {o}]
  /\ UNCHANGED <<backend, shown, reading, answer, selected, billing>> /\ Remount

-----------------------------------------------------------------------------
(***************************************************************************)
(* Paying                                                                  *)
(***************************************************************************)

Pay ==
  /\ Panel /\ (IsSplit => SelectedOrder # {})
  /\ paying' = TRUE
  /\ UNCHANGED <<table, order, split>> /\ SelectOnPage

\* In the dialog: a transfer is for one order, cash for the total shown.
Charge(s) ==
  /\ Mounted /\ charged = {}
  /\ charged' = s
  /\ UNCHANGED <<backend, shown, reading, answer, selected, job, billing, bill>>

ClosePayment ==
  /\ Mounted
  /\ paying' = FALSE
  /\ UNCHANGED <<table, order, split>> /\ SelectOnPage

\* onSuccess: the selected order of a split table, or else all of the table.
PaymentSuccess(j) ==
  LET one == IsSplit /\ SelectedOrder # {}
      s   == IF one THEN SelectedOrder ELSE Group
  IN  /\ Mounted /\ charged # {}
      /\ IF s = {} THEN UNCHANGED job ELSE Complete(j, IF one THEN "order" ELSE "table", s)
      /\ paying' = FALSE
      /\ unpaid' = unpaid \cup (s \ charged)
      /\ unbilled' = unbilled \cup (s \ bill)
      /\ UNCHANGED <<backend, shown, reading, answer, table, order, split>> /\ Remount

\* Other staff makes an order, or ends one.
Elsewhere ==
  LET next == Cardinality(active \cup ended) + 1
  IN  /\ reading # "off"
      /\ \/ next \in Order /\ active' = active \cup {next} /\ UNCHANGED ended
         \/ \E o \in active : active' = active \ {o} /\ ended' = ended \cup {o}
      /\ UNCHANGED <<shown, reading, answer, selected, job, billing>> /\ Remount

-----------------------------------------------------------------------------

Selecting ==
  \/ Refresh \/ CloseGroup \/ ToggleSplit \/ Pay \/ ClosePayment
  \/ Charge(PayOrder) \/ Charge(PayTotal)
  \/ \E t \in Table : SelectTable(t)
  \/ \E o \in Order : SelectOrder(o)

Completing(j) ==
  \/ CompleteTable(j) \/ CompleteOrder(j) \/ PaymentSuccess(j)
  \/ ServeComplete(j) \/ Completed(j) \/ CompleteFails(j)

TablesNext == Selecting \/ ServeLoad \/ Loaded \/ Elsewhere \/ \E j \in Job : Completing(j)

TablesSpec == TablesInit("sent") /\ [][TablesNext]_tablesVars

-----------------------------------------------------------------------------
(***************************************************************************)
(* Properties                                                              *)
(***************************************************************************)

\* A payment completes no order that was not in the total its dialog opened with,
\* whatever is loaded, selected or completed meanwhile (TablesPage.tsx:134-141).
CompletedWereBilled == unbilled = {}

\* It completes only orders it was for. This fails: a table's dialog creates the
\* payment for its newest order alone (TablesPage.tsx:153).
CompletedWerePaid == unpaid = {}
=============================================================================
