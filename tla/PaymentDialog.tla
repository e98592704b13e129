--------------------------- MODULE PaymentDialog ----------------------------
(***************************************************************************)
(* The payment dialog of the front end (components/payment/PaymentModal)   *)
(* and the two pages that use it.                                          *)
(*                                                                         *)
(* The POS page keeps one dialog mounted and opens and closes it; choosing *)
(* a method first creates the order of the cart.  The tables page mounts a *)
(* dialog for the order selected on it and unmounts it to close it.  Which *)
(* order that is the page computes anew whenever it is rendered, and the   *)
(* dialog has no key: when an order leaves the list because its completion *)
(* is answered, the same dialog goes on with the next order of the table.  *)
(*                                                                         *)
(* A call is a handler's invocation with the requests it awaits one after  *)
(* the other; it is used once.  Its answer arrives at any later time, also *)
(* when the dialog shows something else, is closed, or is unmounted: React *)
(* then drops what the handler sets, but the handler goes on.              *)
(*                                                                         *)
(* Left out: amounts, error texts, the poll counter.  The back end never   *)
(* stores FAILED or EXPIRED (module Payments), so a poll does not see them.*)
(***************************************************************************)
EXTENDS Naturals, FiniteSets

CONSTANTS
  Sale,       \* carts of the POS page, orders of the tables page
  Payment,    \* payments the back end may issue
  Mount,      \* instances of the dialog
  Call,       \* invocations of its asynchronous handlers
  None        \* no sale, no payment, no instance

ASSUME NoneAssumption == None \notin Sale \cup Payment \cup Mount

VARIABLES
  page,       \* the page in use: "pos" or "tables"
  sale,       \* the cart, or the order the tables page would have paid (payOrderId)
  open,       \* whether the dialog is open (showPayment)
  mount,      \* the mounted instance
  fresh,      \* instances not used so far
  step,       \* what the mounted dialog shows
  payment,    \* the payment in its state
  resetting,  \* whether the timer that resets a closed dialog runs
  poller,     \* the payment an instance's interval and timeout are for
  at,         \* the request a call awaits
  about,      \* the instance, the sale and the payment of a call
  answer,     \* what has come back
  orders,     \* how often a sale was ordered by the dialog (2: more than once)
  issuedFor,  \* the sale a payment was issued for
  paid,       \* payments the customer has paid
  settled,    \* payments the back end has stored as COMPLETED
  cash,       \* orders for which the staff chose cash
  confirmed,  \* payments the staff confirmed
  done,       \* carts finished with Done, orders whose completion was asked for
  left,       \* history: orders that left the list under the mounted dialog
  gaveUp      \* carts for which the staff closed the dialog or tried again

dialogVars  == <<open, mount, fresh, step, payment, resetting, poller, left>>
callVars    == <<at, about, answer>>
backendVars == <<orders, issuedFor, settled>>
staffVars   == <<cash, confirmed, done, gaveUp>>
vars == <<page, sale, dialogVars, callVars, backendVars, paid, staffVars>>

Step == {"select-method", "creating-order", "show-qr", "confirm-mark-paid",
         "success", "error"}
Asking == {"cash", "order", "pay", "verify", "mark"}

Nobody == [mount |-> None, sale |-> None, payment |-> None]

TypeOK ==
  /\ page \in {"pos", "tables"}
  /\ sale \in Sale \cup {None}
  /\ open \in BOOLEAN /\ resetting \in BOOLEAN
  /\ mount \in Mount \cup {None} /\ fresh \in SUBSET Mount
  /\ step \in Step
  /\ payment \in Payment \cup {None}
  /\ poller \in [Mount -> Payment \cup {None}]
  /\ at \in [Call -> Asking \cup {"new", "over"}]
  /\ about \in [Call -> [mount : Mount \cup {None}, sale : Sale \cup {None},
                         payment : Payment \cup {None}]]
  /\ answer \in [Call -> {"none", "ok", "pending", "failed"}]
  /\ orders \in [Sale -> 0..2]
  /\ issuedFor \in [Payment -> Sale \cup {None}]
  /\ paid \in SUBSET Payment /\ settled \in SUBSET Payment
  /\ confirmed \in SUBSET Payment
  /\ cash \in SUBSET Sale /\ done \in SUBSET Sale /\ gaveUp \in SUBSET Sale
  /\ left \in SUBSET Sale

\* The dialog of the POS page is mounted closed, which starts its reset timer.
Init ==
  /\ page \in {"pos", "tables"}
  /\ sale = None /\ open = FALSE
  /\ IF page = "pos"
       THEN mount \in Mount /\ fresh = {} /\ resetting = TRUE
       ELSE mount = None /\ fresh = Mount /\ resetting = FALSE
  /\ step = "select-method" /\ payment = None
  /\ poller = [m \in Mount |-> None]
  /\ at = [c \in Call |-> "new"]
  /\ about = [c \in Call |-> Nobody]
  /\ answer = [c \in Call |-> "none"]
  /\ orders = [s \in Sale |-> 0]
  /\ issuedFor = [p \in Payment |-> None]
  /\ paid = {} /\ settled = {}
  /\ cash = {} /\ confirmed = {} /\ done = {} /\ gaveUp = {}
  /\ left = {}

-----------------------------------------------------------------------------
(***************************************************************************)
(* Parts of handlers.                                                      *)
(***************************************************************************)
\* On the tables page the dialog may be open with no order: it is not there then.
Visible    == open /\ mount # None
Showing(s) == Visible /\ step = s

\* The orders the mounted dialog has been for.
Stood == {sale} \cup left

\* stopPolling: clears the interval and the timeout of an instance.
StopPolling(m) == poller' = [poller EXCEPT ![m] = None]

\* The first await of a handler of the mounted dialog.
Send(c, request, p) ==
  /\ at[c] = "new"
  /\ at' = [at EXCEPT ![c] = request]
  /\ about' = [about EXCEPT ![c] = [mount |-> mount, sale |-> sale, payment |-> p]]
  /\ UNCHANGED answer

\* A handler continues with an answer and ends.
Receive(c, request, result) ==
  /\ at[c] = request /\ answer[c] = result
  /\ at' = [at EXCEPT ![c] = "over"]
  /\ about' = [about EXCEPT ![c] = Nobody] /\ answer' = [answer EXCEPT ![c] = "none"]

\* setStep and setPayment of instance m; React ignores an unmounted one.
Show(m, s, p) ==
  IF m = mount THEN step' = s /\ payment' = p ELSE UNCHANGED <<step, payment>>

\* A dialog appears on the tables page, or goes.
Appear ==
  /\ \E m \in fresh : mount' = m /\ fresh' = fresh \ {m}
  /\ step' = "select-method" /\ payment' = None /\ left' = {}

Disappear ==
  /\ StopPolling(mount)
  /\ mount' = None /\ left' = {}

\* The effect of open = false on the POS page; unmounting on the tables page.
CloseDialog ==
  /\ open' = FALSE
  /\ \/ page = "pos" /\ StopPolling(mount) /\ resetting' = TRUE /\ UNCHANGED <<mount, left>>
     \/ page = "tables" /\ Disappear /\ UNCHANGED resetting
  /\ UNCHANGED <<fresh, step, payment>>

-----------------------------------------------------------------------------
(***************************************************************************)
(* The staff.                                                              *)
(***************************************************************************)
\* Another cart is filled, or another order is selected, if it was completed, too:
\* the completion may have failed. Where the dialog is open without an order it
\* appears at once.
ChooseSale(s) ==
  /\ ~Visible /\ s # sale
  /\ page = "pos" => s \notin done
  /\ sale' = s
  /\ IF open THEN Appear /\ UNCHANGED <<open, resetting, poller>> ELSE UNCHANGED dialogVars
  /\ UNCHANGED <<page, callVars, backendVars, paid, staffVars>>

\* Reopening on the POS page cancels the reset timer; it does not reset.
OpenDialog ==
  /\ ~open /\ sale # None
  /\ open' = TRUE /\ resetting' = FALSE
  /\ \/ page = "pos" /\ UNCHANGED <<mount, fresh, step, payment, left>>
     \/ page = "tables" /\ Appear
  /\ UNCHANGED <<page, sale, poller, callVars, backendVars, paid, staffVars>>

\* Escape, the backdrop, the close button, or Cancel after an error.
Close ==
  /\ Visible
  /\ CloseDialog
  /\ gaveUp' = IF page = "pos" THEN gaveUp \cup {sale} ELSE gaveUp
  /\ UNCHANGED <<page, sale, callVars, backendVars, paid, cash, confirmed, done>>

\* Variant: the buttons stay while the order is created.
ChooseTransferAgain(c) ==
  /\ Showing("select-method")
  /\ Send(c, IF page = "pos" THEN "order" ELSE "pay", None)
  /\ UNCHANGED <<page, sale, dialogVars, backendVars, paid, staffVars>>

\* handleBankTransfer up to its first await.
ChooseTransfer(c) ==
  /\ Showing("select-method")
  /\ step' = "creating-order"
  /\ Send(c, IF page = "pos" THEN "order" ELSE "pay", None)
  /\ UNCHANGED <<page, sale, open, mount, fresh, payment, resetting, poller,
                 backendVars, paid, staffVars, left>>

\* handleCashPayment; with an order that exists it awaits nothing.
ChooseCash(c) ==
  /\ Showing("select-method")
  /\ \/ /\ page = "pos" /\ step' = "creating-order"
        /\ Send(c, "cash", None) /\ UNCHANGED cash
     \/ /\ page = "tables" /\ step' = "success"
        /\ cash' = cash \cup {sale} /\ UNCHANGED callVars
  /\ UNCHANGED <<page, sale, open, mount, fresh, payment, resetting, poller,
                 backendVars, paid, confirmed, done, gaveUp, left>>

AskConfirm ==
  /\ Showing("show-qr")
  /\ step' = "confirm-mark-paid"
  /\ UNCHANGED <<page, sale, open, mount, fresh, payment, resetting, poller,
                 callVars, backendVars, paid, staffVars, left>>

CancelConfirm ==
  /\ Showing("confirm-mark-paid")
  /\ step' = "show-qr"
  /\ UNCHANGED <<page, sale, open, mount, fresh, payment, resetting, poller,
                 callVars, backendVars, paid, staffVars, left>>

\* confirmMarkAsPaid; the buttons stay while it waits.
Confirm(c) ==
  /\ Showing("confirm-mark-paid") /\ payment # None
  /\ Send(c, "mark", payment)
  /\ confirmed' = confirmed \cup {payment}
  /\ UNCHANGED <<page, sale, dialogVars, backendVars, paid, cash, done, gaveUp>>

Retry ==
  /\ Showing("error")
  /\ step' = "select-method" /\ payment' = None
  /\ StopPolling(mount)
  /\ gaveUp' = IF page = "pos" THEN gaveUp \cup {sale} ELSE gaveUp
  /\ UNCHANGED <<page, sale, open, mount, fresh, resetting, callVars, backendVars,
                 paid, cash, confirmed, done, left>>

\* handleCloseSuccess: the POS page clears the cart; the tables page asks for the
\* completion of the order, or of all orders of its table, and keeps it selected.
Done(S) ==
  /\ Showing("success")
  /\ CloseDialog
  /\ sale \in S /\ done' = done \cup S
  /\ IF page = "pos" THEN S = {sale} /\ sale' = None ELSE UNCHANGED sale
  /\ UNCHANGED <<page, callVars, backendVars, paid, cash, confirmed, gaveUp>>

\* "Mark as Completed" in the split view, or "Mark All as Completed".
MarkCompleted(S) ==
  /\ page = "tables" /\ ~open /\ sale \in S
  /\ done' = done \cup S
  /\ UNCHANGED <<page, sale, dialogVars, callVars, backendVars, paid, cash, confirmed,
                 gaveUp>>

\* A completed order leaves the list; of a table's orders, one after the other.
\* With it goes the selection, whatever it is by now, of the table or in the split
\* view. Else the next order takes its place; the dialog stays while there is one.
\* A completion that fails changes nothing: the order can be paid or sent again.
CompleteAnswer(s) ==
  /\ page = "tables" /\ s \in done
  /\ sale' \in {None} \cup IF sale = s THEN Sale \ (left \cup {s}) ELSE {sale}
  /\ IF Visible /\ sale' = None
       THEN Disappear /\ UNCHANGED <<open, fresh, step, payment, resetting>>
       ELSE /\ left' = IF Visible THEN left \cup ({sale} \ {sale'}) ELSE left
            /\ UNCHANGED <<open, mount, fresh, step, payment, resetting, poller>>
  /\ UNCHANGED <<page, callVars, backendVars, paid, staffVars>>

-----------------------------------------------------------------------------
(***************************************************************************)
(* Timers.                                                                 *)
(***************************************************************************)
\* 300 ms after closing.
Reset ==
  /\ resetting
  /\ resetting' = FALSE
  /\ step' = "select-method" /\ payment' = None
  /\ UNCHANGED <<page, sale, open, mount, fresh, poller, callVars, backendVars, paid,
                 staffVars, left>>

\* Every 3 s, whether or not the last poll was answered.
Tick(m, c) ==
  /\ poller[m] # None /\ at[c] = "new"
  /\ at' = [at EXCEPT ![c] = "verify"]
  /\ about' = [about EXCEPT ![c] = [mount |-> m, sale |-> issuedFor[poller[m]],
                                    payment |-> poller[m]]]
  /\ UNCHANGED <<page, sale, dialogVars, answer, backendVars, paid, staffVars>>

\* Variant: the timeout shows a step that has no view.
TimeoutUnknownStep(m) ==
  /\ poller[m] # None
  /\ StopPolling(m)
  /\ Show(m, "timeout", payment)
  /\ UNCHANGED <<page, sale, open, mount, fresh, resetting, callVars, backendVars,
                 paid, staffVars, left>>

\* Variant: the timeout does not clear the interval.
TimeoutKeepsPolling(m) ==
  /\ poller[m] # None
  /\ Show(m, "error", payment)
  /\ UNCHANGED <<page, sale, open, mount, fresh, resetting, poller, callVars,
                 backendVars, paid, staffVars, left>>

\* 5 minutes after startPolling.
Timeout(m) ==
  /\ poller[m] # None
  /\ StopPolling(m)
  /\ Show(m, "error", payment)
  /\ UNCHANGED <<page, sale, open, mount, fresh, resetting, callVars, backendVars,
                 paid, staffVars, left>>

-----------------------------------------------------------------------------
(***************************************************************************)
(* Answers.                                                                *)
(***************************************************************************)
\* The order is created; the handler goes on to the payment.
OrderAnswer(c) ==
  /\ at[c] = "order" /\ answer[c] = "ok"
  /\ at' = [at EXCEPT ![c] = "pay"] /\ answer' = [answer EXCEPT ![c] = "none"]
  /\ UNCHANGED <<page, sale, dialogVars, about, backendVars, paid, staffVars>>

\* Variant: polling starts before the dialog has its payment and is then stopped.
PayAnswerUnpolled(c) ==
  /\ Receive(c, "pay", "ok")
  /\ Show(about[c].mount, "show-qr", about[c].payment)
  /\ StopPolling(about[c].mount)
  /\ UNCHANGED <<page, sale, open, mount, fresh, resetting, backendVars, paid,
                 staffVars, left>>

\* setPayment, setStep and startPolling.
PayAnswer(c) ==
  LET m == about[c].mount  p == about[c].payment IN
  /\ Receive(c, "pay", "ok")
  /\ Show(m, "show-qr", p)
  /\ poller' = [poller EXCEPT ![m] = p]
  /\ UNCHANGED <<page, sale, open, mount, fresh, resetting, backendVars, paid,
                 staffVars, left>>

CashAnswer(c) ==
  /\ Receive(c, "cash", "ok")
  /\ Show(about[c].mount, "success", payment)
  /\ UNCHANGED <<page, sale, open, mount, fresh, resetting, poller, backendVars,
                 paid, staffVars, left>>

\* Variant: the error is stored without the step that shows it.
CreatingFailedSilently(c) ==
  /\ \E request \in {"cash", "order", "pay"} : Receive(c, request, "failed")
  /\ UNCHANGED <<page, sale, dialogVars, backendVars, paid, staffVars>>

CreatingFailed(c) ==
  /\ \E request \in {"cash", "order", "pay"} : Receive(c, request, "failed")
  /\ Show(about[c].mount, "error", payment)
  /\ UNCHANGED <<page, sale, open, mount, fresh, resetting, poller, backendVars,
                 paid, staffVars, left>>

\* A poll reads COMPLETED: it ends the instance's polling, of whatever payment.
PollCompleted(c) ==
  /\ Receive(c, "verify", "ok")
  /\ StopPolling(about[c].mount)
  /\ Show(about[c].mount, "success", about[c].payment)
  /\ UNCHANGED <<page, sale, open, mount, fresh, resetting, backendVars, paid,
                 staffVars, left>>

\* Variant: any answer to a poll counts as success.
PollAgainAsSuccess(c) ==
  /\ Receive(c, "verify", "pending")
  /\ StopPolling(about[c].mount)
  /\ Show(about[c].mount, "success", about[c].payment)
  /\ UNCHANGED <<page, sale, open, mount, fresh, resetting, backendVars, paid,
                 staffVars, left>>

\* A poll reads PENDING or fails: polling goes on.
PollAgain(c) ==
  /\ Receive(c, "verify", "pending") \/ Receive(c, "verify", "failed")
  /\ UNCHANGED <<page, sale, dialogVars, backendVars, paid, staffVars>>

\* A failure of mark-manual is ignored.
MarkAnswer(c) ==
  /\ Receive(c, "mark", "ok") \/ Receive(c, "mark", "failed")
  /\ StopPolling(about[c].mount)
  /\ Show(about[c].mount, "success", payment)
  /\ UNCHANGED <<page, sale, open, mount, fresh, resetting, backendVars, paid,
                 staffVars, left>>

-----------------------------------------------------------------------------
(***************************************************************************)
(* The back end, as the dialog sees it, and the customer.                  *)
(***************************************************************************)
Answer(c, result) ==
  /\ at[c] \in Asking /\ answer[c] = "none"
  /\ answer' = [answer EXCEPT ![c] = result]
  /\ UNCHANGED <<page, sale, dialogVars, at, paid, staffVars>>

\* createOrder.
ServeOrder(c) ==
  LET s == about[c].sale IN
  /\ at[c] \in {"cash", "order"}
  /\ Answer(c, "ok")
  /\ orders' = [orders EXCEPT ![s] = IF @ = 0 THEN 1 ELSE 2]
  /\ UNCHANGED <<about, issuedFor, settled>>

\* createPayment.
ServePay(c, p) ==
  /\ at[c] = "pay" /\ issuedFor[p] = None
  /\ Answer(c, "ok")
  /\ issuedFor' = [issuedFor EXCEPT ![p] = about[c].sale]
  /\ about' = [about EXCEPT ![c].payment = p]
  /\ UNCHANGED <<orders, settled>>

\* verifyPayment.
ServeVerify(c) ==
  LET p == about[c].payment IN
  /\ at[c] = "verify"
  /\ \/ p \in paid \cup settled /\ Answer(c, "ok") /\ settled' = settled \cup {p}
     \/ p \notin paid \cup settled /\ Answer(c, "pending") /\ UNCHANGED settled
  /\ UNCHANGED <<about, orders, issuedFor>>

\* markManualPayment.
ServeMark(c) ==
  /\ at[c] = "mark"
  /\ Answer(c, "ok")
  /\ settled' = settled \cup {about[c].payment}
  /\ UNCHANGED <<about, orders, issuedFor>>

\* The request is refused or lost, or its answer is.
Lose(c) ==
  /\ at[c] \in Asking /\ answer[c] # "failed"
  /\ answer' = [answer EXCEPT ![c] = "failed"]
  /\ UNCHANGED <<page, sale, dialogVars, at, about, backendVars, paid, staffVars>>

\* The customer pays a QR code that was issued.
Pay(p) ==
  /\ issuedFor[p] # None /\ p \notin paid
  /\ paid' = paid \cup {p}
  /\ UNCHANGED <<page, sale, dialogVars, callVars, backendVars, staffVars>>

-----------------------------------------------------------------------------
Staff ==
  \/ \E s \in Sale : ChooseSale(s)
  \/ OpenDialog \/ Close \/ AskConfirm \/ CancelConfirm \/ Retry
  \/ \E S \in SUBSET Sale : Done(S) \/ MarkCompleted(S)
  \/ \E c \in Call : ChooseTransfer(c) \/ ChooseCash(c) \/ Confirm(c)

Timers ==
  \/ Reset
  \/ \E m \in Mount : Timeout(m) \/ \E c \in Call : Tick(m, c)

Receiving(c) ==
  \/ OrderAnswer(c) \/ PayAnswer(c) \/ CashAnswer(c) \/ CreatingFailed(c)
  \/ PollCompleted(c) \/ PollAgain(c) \/ MarkAnswer(c)

Serving(c) ==
  ServeOrder(c) \/ ServeVerify(c) \/ ServeMark(c) \/ \E p \in Payment : ServePay(c, p)

Next ==
  \/ Staff \/ Timers
  \/ \E s \in Sale : CompleteAnswer(s)
  \/ \E c \in Call : Receiving(c) \/ Serving(c) \/ Lose(c)
  \/ \E p \in Payment : Pay(p)

\* Timers fire, and a request is answered or fails.  People are never fair.
Fairness ==
  /\ \A m \in Mount : WF_vars(Timeout(m))
  /\ \A c \in Call : WF_vars(Receiving(c)) /\ WF_vars(Serving(c) \/ Lose(c))

Spec == Init /\ [][Next]_vars

FairSpec == Spec /\ Fairness

-----------------------------------------------------------------------------
(***************************************************************************)
(* Properties                                                              *)
(***************************************************************************)

\* On the tables page success is only shown where the staff took cash, the back end
\* settled a payment or the staff confirmed one, and for the order that was selected
\* then: no late answer shows the success of another order in a dialog that was
\* opened for this one. Unless that order left the list meanwhile, because its
\* completion was answered, and this one took its place in the same dialog
\* (TablesPage.tsx:115-117,127,153), where Done will complete it unpaid.
SuccessIsEarned ==
  page = "tables" /\ Showing("success") =>
    \E s \in Stood : s \in cash \/ \E p \in settled \cup confirmed : issuedFor[p] = s

\* On the tables page a QR code that is shown, or about to be confirmed, is the
\* one being polled, and belongs to the selected order or, again, to one that left
\* the list under the dialog.
ShownQrIsPolled ==
  page = "tables" /\ (Showing("show-qr") \/ Showing("confirm-mark-paid")) =>
    payment # None /\ poller[mount] = payment /\ issuedFor[payment] \in Stood

\* The dialog orders a cart twice only if the staff closed it or tried again.
OrderedTwiceOnRequest ==
  \A s \in Sale : orders[s] > 1 => s \in gaveUp

\* An instance that was unmounted while its payment was being created starts
\* polling all the same; every polling ends.
PollersStop ==
  \A m \in Mount : poller[m] # None ~> poller[m] = None

\* The spinner goes away.
CreatingEnds ==
  Showing("creating-order") ~> ~Showing("creating-order")

=============================================================================
