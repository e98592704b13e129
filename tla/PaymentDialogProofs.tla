------------------------- MODULE PaymentDialogProofs ------------------------
(***************************************************************************)
(* What the dialog shows is earned, polled and about the sales it has been *)
(* for, for any numbers of sales, payments, instances and calls.           *)
(***************************************************************************)
EXTENDS PaymentDialog, TLAPS

-----------------------------------------------------------------------------
(***************************************************************************)
(* The inductive invariant                                                 *)
(***************************************************************************)

\* On the POS page the dialog is always mounted and an open one has a cart, which is
\* cleared when it is done; on the tables page it is mounted while it is open and has
\* an order. The reset timer runs only for a closed one that is mounted. Every
\* instance in use has left fresh.
MountOK ==
  /\ page = "pos" => mount \in Mount /\ (open => sale \in Sale) /\ sale \notin done
  /\ page = "tables" => (mount \in Mount <=> open /\ sale \in Sale)
  /\ resetting => page = "pos" /\ ~open
  /\ mount \notin fresh
  /\ \A m \in Mount : poller[m] # None => m \notin fresh

\* A call that was not sent has no answer; one that was knows its instance, its
\* sale and, once it has one, a payment of it.
CallOK ==
  \A c \in Call :
    /\ at[c] = "new" => answer[c] = "none"
    /\ at[c] \in Asking =>
         /\ about[c].mount \in Mount \ fresh /\ about[c].sale \in Sale
         /\ at[c] \in {"cash", "order"} => page = "pos"
         /\ at[c] \in {"verify", "mark"} \/ (at[c] = "pay" /\ answer[c] = "ok") =>
              /\ about[c].payment \in Payment
              /\ issuedFor[about[c].payment] # None
              /\ page = "tables" /\ at[c] # "mark" =>
                   issuedFor[about[c].payment] = about[c].sale
         /\ at[c] = "verify" /\ answer[c] = "ok" => about[c].payment \in settled
         /\ at[c] = "mark" => about[c].payment \in confirmed

\* On the tables page whatever belongs to the mounted instance is about an order it
\* has been for.
SameSale ==
  page = "tables" /\ Visible =>
    /\ \A c \in Call :
         at[c] \in Asking /\ about[c].mount = mount =>
           /\ about[c].sale \in Stood
           /\ at[c] = "mark" => issuedFor[about[c].payment] \in Stood
    /\ poller[mount] # None => issuedFor[poller[mount]] \in Stood
    /\ payment # None => issuedFor[payment] \in Stood

\* A payment in the dialog or polled was issued.
IssuedOK ==
  /\ payment # None => issuedFor[payment] # None
  /\ \A m \in Mount : poller[m] # None => issuedFor[poller[m]] # None

\* A request for an order that the back end has not handled.
Unserved(c, s) ==
  at[c] \in {"cash", "order"} /\ answer[c] = "none" /\ about[c].sale = s

Untouched(s) == s \notin done /\ (s # sale \/ ~open \/ step = "select-method")

\* A cart that was not given up has one order or one request for it, and none
\* of both before a method is chosen.
OrderOnce ==
  \A s \in Sale : s \notin gaveUp =>
    /\ orders[s] <= 1
    /\ \A c \in Call : Unserved(c, s) =>
         orders[s] = 0 /\ \A d \in Call : Unserved(d, s) => d = c
    /\ page = "pos" /\ Untouched(s) => orders[s] = 0 /\ \A c \in Call : ~Unserved(c, s)

Shown ==
  MountOK /\ CallOK /\ SameSale /\ IssuedOK /\ SuccessIsEarned /\ ShownQrIsPolled

IInv == TypeOK /\ Shown /\ OrderOnce

-----------------------------------------------------------------------------
(***************************************************************************)
(* The steps                                                               *)
(***************************************************************************)

LEMMA TypeStep == TypeOK /\ MountOK /\ CallOK /\ [Next]_vars => TypeOK'
<1> SUFFICES ASSUME TypeOK, MountOK, CallOK, [Next]_vars PROVE TypeOK'
  OBVIOUS
<1> USE NoneAssumption
    DEF dialogVars, callVars, backendVars, staffVars, Step, Asking, Visible, Showing,
        StopPolling, Nobody, Send, Receive, Show, Appear, Disappear, CloseDialog, Answer,
        TypeOK, MountOK, CallOK
<1>1. ASSUME NEW s \in Sale, ChooseSale(s)
      PROVE  TypeOK'
  BY <1>1 DEF ChooseSale
<1>2. ASSUME OpenDialog
      PROVE  TypeOK'
  <2>1. CASE page = "pos"
    <3>1. UNCHANGED <<page, sale, mount, fresh, step, payment, poller, at, about, answer,
                      orders, issuedFor, settled, paid, cash, confirmed, done, gaveUp, left>>
      BY <1>2, <2>1 DEF OpenDialog
    <3>2. open' \in BOOLEAN /\ resetting' \in BOOLEAN
      BY <1>2 DEF OpenDialog
    <3> QED
      BY <3>1, <3>2
  <2>2. CASE page = "tables"
    <3>1. UNCHANGED <<page, sale, poller, at, about, answer, orders, issuedFor, settled,
                      paid, cash, confirmed, done, gaveUp>>
      BY <1>2, <2>2 DEF OpenDialog
    <3>2. open' \in BOOLEAN /\ resetting' \in BOOLEAN
      BY <1>2 DEF OpenDialog
    <3>3. /\ mount' \in Mount /\ fresh' \in SUBSET Mount /\ step' \in Step /\ payment' = None
          /\ left' = {}
      BY <1>2, <2>2 DEF OpenDialog
    <3> QED
      BY <3>1, <3>2, <3>3
  <2> QED
    BY <2>1, <2>2
<1>3. ASSUME Close
      PROVE  TypeOK'
  BY <1>3 DEF Close
<1>4. ASSUME NEW c \in Call, ChooseTransfer(c)
      PROVE  TypeOK'
  BY <1>4 DEF ChooseTransfer
<1>5. ASSUME NEW c \in Call, ChooseCash(c)
      PROVE  TypeOK'
  BY <1>5 DEF ChooseCash
<1>6. ASSUME AskConfirm
      PROVE  TypeOK'
  BY <1>6 DEF AskConfirm
<1>7. ASSUME CancelConfirm
      PROVE  TypeOK'
  BY <1>7 DEF CancelConfirm
<1>8. ASSUME NEW c \in Call, Confirm(c)
      PROVE  TypeOK'
  BY <1>8 DEF Confirm
<1>9. ASSUME Retry
      PROVE  TypeOK'
  BY <1>9 DEF Retry
<1>10. ASSUME NEW S \in SUBSET Sale, Done(S)
      PROVE  TypeOK'
  BY <1>10 DEF Done
<1>11. ASSUME NEW s \in Sale, CompleteAnswer(s)
      PROVE  TypeOK'
  BY <1>11 DEF CompleteAnswer
<1>12. ASSUME Reset
      PROVE  TypeOK'
  BY <1>12 DEF Reset
<1>13. ASSUME NEW m \in Mount, NEW c \in Call, Tick(m, c)
      PROVE  TypeOK'
  BY <1>13 DEF Tick
<1>14. ASSUME NEW m \in Mount, Timeout(m)
      PROVE  TypeOK'
  BY <1>14 DEF Timeout
<1>15. ASSUME NEW c \in Call, OrderAnswer(c)
      PROVE  TypeOK'
  BY <1>15 DEF OrderAnswer
<1>16. ASSUME NEW c \in Call, PayAnswer(c)
      PROVE  TypeOK'
  BY <1>16 DEF PayAnswer
<1>17. ASSUME NEW c \in Call, CashAnswer(c)
      PROVE  TypeOK'
  BY <1>17 DEF CashAnswer
<1>18. ASSUME NEW c \in Call, CreatingFailed(c)
      PROVE  TypeOK'
  BY <1>18 DEF CreatingFailed
<1>19. ASSUME NEW c \in Call, PollCompleted(c)
      PROVE  TypeOK'
  BY <1>19 DEF PollCompleted
<1>20. ASSUME NEW c \in Call, PollAgain(c)
      PROVE  TypeOK'
  <2>1. /\ at' = [at EXCEPT ![c] = "over"] /\ about' = [about EXCEPT ![c] = Nobody]
        /\ answer' = [answer EXCEPT ![c] = "none"]
    BY <1>20 DEF PollAgain
  <2>2. UNCHANGED <<page, sale, dialogVars, backendVars, paid, staffVars>>
    BY <1>20 DEF PollAgain
  <2>3. at' \in [Call -> Asking \cup {"new", "over"}]
    BY <2>1
  <2>4. about' \in [Call -> [mount : Mount \cup {None}, sale : Sale \cup {None},
                            payment : Payment \cup {None}]]
    BY <2>1
  <2>5. answer' \in [Call -> {"none", "ok", "pending", "failed"}]
    BY <2>1
  <2> QED
    BY <2>2, <2>3, <2>4, <2>5
<1>21. ASSUME NEW c \in Call, MarkAnswer(c)
      PROVE  TypeOK'
  BY <1>21 DEF MarkAnswer
<1>22. ASSUME NEW c \in Call, ServeOrder(c)
      PROVE  TypeOK'
  BY <1>22 DEF ServeOrder
<1>23. ASSUME NEW c \in Call, NEW p \in Payment, ServePay(c, p)
      PROVE  TypeOK'
  BY <1>23 DEF ServePay
<1>24. ASSUME NEW c \in Call, ServeVerify(c)
      PROVE  TypeOK'
  BY <1>24 DEF ServeVerify
<1>25. ASSUME NEW c \in Call, ServeMark(c)
      PROVE  TypeOK'
  BY <1>25 DEF ServeMark
<1>26. ASSUME NEW c \in Call, Lose(c)
      PROVE  TypeOK'
  BY <1>26 DEF Lose
<1>27. ASSUME NEW p \in Payment, Pay(p)
      PROVE  TypeOK'
  BY <1>27 DEF Pay
<1>28. ASSUME NEW S \in SUBSET Sale, MarkCompleted(S)
      PROVE  TypeOK'
  BY <1>28 DEF MarkCompleted
<1>29. CASE UNCHANGED vars
  BY <1>29 DEF vars
<1> QED
  BY <1>1, <1>2, <1>3, <1>4, <1>5, <1>6, <1>7, <1>8, <1>9, <1>10, <1>11,
     <1>12, <1>13, <1>14, <1>15, <1>16, <1>17, <1>18, <1>19, <1>20, <1>21,
     <1>22, <1>23, <1>24, <1>25, <1>26, <1>27, <1>28, <1>29
  DEF Next, Staff, Timers, Receiving, Serving

LEMMA ShownStep == TypeOK /\ Shown /\ [Next]_vars => Shown'
<1> SUFFICES ASSUME TypeOK, Shown, [Next]_vars PROVE Shown'
  OBVIOUS
<1> USE NoneAssumption
    DEF dialogVars, callVars, backendVars, staffVars, Step, Asking, Visible, Showing,
        StopPolling, Nobody, Send, Receive, Show, Appear, Disappear, CloseDialog, Answer,
        TypeOK, Shown, MountOK, CallOK, SameSale, IssuedOK, Stood, SuccessIsEarned,
        ShownQrIsPolled
<1>1. ASSUME NEW s \in Sale, ChooseSale(s)
      PROVE  Shown'
  BY <1>1 DEF ChooseSale
<1>2. ASSUME OpenDialog
      PROVE  Shown'
  BY <1>2 DEF OpenDialog
<1>3. ASSUME Close
      PROVE  Shown'
  BY <1>3 DEF Close
<1>4. ASSUME NEW c \in Call, ChooseTransfer(c)
      PROVE  Shown'
  <2>1. MountOK'
    BY <1>4 DEF ChooseTransfer
  <2>2. CallOK'
    <3>1. at'[c] \in {"order", "pay"} /\ (at'[c] = "order" => page = "pos") /\ answer[c] = "none"
      BY <1>4 DEF ChooseTransfer
    <3>2. about'[c].mount = mount /\ about'[c].sale = sale
      BY <1>4 DEF ChooseTransfer
    <3>3. \A d \in Call \ {c} : at'[d] = at[d] /\ about'[d] = about[d]
      BY <1>4 DEF ChooseTransfer
    <3>4. UNCHANGED <<fresh, answer, page, issuedFor, settled, confirmed>>
      BY <1>4 DEF ChooseTransfer
    <3> QED
      BY <1>4, <3>1, <3>2, <3>3, <3>4 DEF ChooseTransfer
  <2>3. SameSale'
    BY <1>4 DEF ChooseTransfer
  <2>4. IssuedOK'
    BY <1>4 DEF ChooseTransfer
  <2>5. SuccessIsEarned'
    BY <1>4 DEF ChooseTransfer
  <2>6. ShownQrIsPolled'
    BY <1>4 DEF ChooseTransfer
  <2> QED
    BY <2>1, <2>2, <2>3, <2>4, <2>5, <2>6
<1>5. ASSUME NEW c \in Call, ChooseCash(c)
      PROVE  Shown'
  <2>1. MountOK'
    BY <1>5 DEF ChooseCash
  <2>2. CallOK'
    BY <1>5 DEF ChooseCash
  <2>3. SameSale'
    BY <1>5 DEF ChooseCash
  <2>4. IssuedOK'
    BY <1>5 DEF ChooseCash
  <2>5. SuccessIsEarned'
    BY <1>5 DEF ChooseCash
  <2>6. ShownQrIsPolled'
    BY <1>5 DEF ChooseCash
  <2> QED
    BY <2>1, <2>2, <2>3, <2>4, <2>5, <2>6
<1>6. ASSUME AskConfirm
      PROVE  Shown'
  BY <1>6 DEF AskConfirm
<1>7. ASSUME CancelConfirm
      PROVE  Shown'
  BY <1>7 DEF CancelConfirm
<1>8. ASSUME NEW c \in Call, Confirm(c)
      PROVE  Shown'
  <2>1. MountOK'
    BY <1>8 DEF Confirm
  <2>2. CallOK'
    <3>1. /\ at'[c] = "mark" /\ answer'[c] = "none" /\ about'[c].mount = mount
          /\ about'[c].sale = sale /\ about'[c].payment = payment
      BY <1>8 DEF Confirm
    <3>2. \A d \in Call \ {c} : at'[d] = at[d] /\ about'[d] = about[d]
      BY <1>8 DEF Confirm
    <3>3. mount \in Mount /\ sale \in Sale /\ payment \in Payment
      BY <1>8 DEF Confirm
    <3>4. issuedFor[payment] # None
      BY <3>3
    <3>5. UNCHANGED <<fresh, answer, page, issuedFor, settled>> /\ confirmed' = confirmed \cup {payment}
      BY <1>8 DEF Confirm
    <3>6. mount \notin fresh
      OBVIOUS
    <3> QED
      BY <3>1, <3>2, <3>3, <3>4, <3>5, <3>6
  <2>3. SameSale'
    BY <1>8 DEF Confirm
  <2>4. IssuedOK'
    BY <1>8 DEF Confirm
  <2>5. SuccessIsEarned'
    BY <1>8 DEF Confirm
  <2>6. ShownQrIsPolled'
    BY <1>8 DEF Confirm
  <2> QED
    BY <2>1, <2>2, <2>3, <2>4, <2>5, <2>6
<1>9. ASSUME Retry
      PROVE  Shown'
  BY <1>9 DEF Retry
<1>10. ASSUME NEW S \in SUBSET Sale, Done(S)
      PROVE  Shown'
  BY <1>10 DEF Done
<1>11. ASSUME NEW s \in Sale, CompleteAnswer(s)
      PROVE  Shown'
  BY <1>11 DEF CompleteAnswer
<1>12. ASSUME Reset
      PROVE  Shown'
  BY <1>12 DEF Reset
<1>13. ASSUME NEW m \in Mount, NEW c \in Call, Tick(m, c)
      PROVE  Shown'
  <2>1. MountOK'
    BY <1>13 DEF Tick
  <2>2. CallOK'
    <3>1. about'[c].mount = m /\ about'[c].payment = poller[m]
          /\ about'[c].sale = issuedFor[poller[m]] /\ at'[c] = "verify"
      BY <1>13 DEF Tick
    <3>2. poller[m] \in Payment /\ issuedFor[poller[m]] \in Sale /\ m \in Mount \ fresh
      BY <1>13 DEF Tick
    <3>3. \A d \in Call \ {c} : at'[d] = at[d] /\ about'[d] = about[d]
      BY <1>13 DEF Tick
    <3>4. UNCHANGED <<fresh, answer, page, issuedFor, settled, confirmed>> /\ answer[c] = "none"
      BY <1>13 DEF Tick
    <3> QED
      BY <3>1, <3>2, <3>3, <3>4
  <2>3. SameSale'
    BY <1>13 DEF Tick
  <2>4. IssuedOK'
    BY <1>13 DEF Tick
  <2>5. SuccessIsEarned'
    BY <1>13 DEF Tick
  <2>6. ShownQrIsPolled'
    BY <1>13 DEF Tick
  <2> QED
    BY <2>1, <2>2, <2>3, <2>4, <2>5, <2>6
<1>14. ASSUME NEW m \in Mount, Timeout(m)
      PROVE  Shown'
  BY <1>14 DEF Timeout
<1>15. ASSUME NEW c \in Call, OrderAnswer(c)
      PROVE  Shown'
  BY <1>15 DEF OrderAnswer
<1>16. ASSUME NEW c \in Call, PayAnswer(c)
      PROVE  Shown'
  <2>1. MountOK'
    BY <1>16 DEF PayAnswer
  <2>2. CallOK'
    BY <1>16 DEF PayAnswer
  <2>3. SameSale'
    BY <1>16 DEF PayAnswer
  <2>4. IssuedOK'
    BY <1>16 DEF PayAnswer
  <2>5. SuccessIsEarned'
    BY <1>16 DEF PayAnswer
  <2>6. ShownQrIsPolled'
    BY <1>16 DEF PayAnswer
  <2> QED
    BY <2>1, <2>2, <2>3, <2>4, <2>5, <2>6
<1>17. ASSUME NEW c \in Call, CashAnswer(c)
      PROVE  Shown'
  BY <1>17 DEF CashAnswer
<1>18. ASSUME NEW c \in Call, CreatingFailed(c)
      PROVE  Shown'
  <2>1. MountOK'
    BY <1>18 DEF CreatingFailed
  <2>2. CallOK'
    BY <1>18 DEF CreatingFailed
  <2>3. SameSale'
    BY <1>18 DEF CreatingFailed
  <2>4. IssuedOK'
    BY <1>18 DEF CreatingFailed
  <2>5. SuccessIsEarned'
    BY <1>18 DEF CreatingFailed
  <2>6. ShownQrIsPolled'
    BY <1>18 DEF CreatingFailed
  <2> QED
    BY <2>1, <2>2, <2>3, <2>4, <2>5, <2>6
<1>19. ASSUME NEW c \in Call, PollCompleted(c)
      PROVE  Shown'
  BY <1>19 DEF PollCompleted
<1>20. ASSUME NEW c \in Call, PollAgain(c)
      PROVE  Shown'
  BY <1>20 DEF PollAgain
<1>21. ASSUME NEW c \in Call, MarkAnswer(c)
      PROVE  Shown'
  <2>1. MountOK'
    BY <1>21 DEF MarkAnswer
  <2>2. CallOK'
    BY <1>21 DEF MarkAnswer
  <2>3. SameSale'
    BY <1>21 DEF MarkAnswer
  <2>4. IssuedOK'
    BY <1>21 DEF MarkAnswer
  <2>5. SuccessIsEarned'
    BY <1>21 DEF MarkAnswer
  <2>6. ShownQrIsPolled'
    BY <1>21 DEF MarkAnswer
  <2> QED
    BY <2>1, <2>2, <2>3, <2>4, <2>5, <2>6
<1>22. ASSUME NEW c \in Call, ServeOrder(c)
      PROVE  Shown'
  BY <1>22 DEF ServeOrder
<1>23. ASSUME NEW c \in Call, NEW p \in Payment, ServePay(c, p)
      PROVE  Shown'
  <2>1. MountOK'
    BY <1>23 DEF ServePay
  <2>2. CallOK'
    BY <1>23 DEF ServePay
  <2>3. SameSale'
    BY <1>23 DEF ServePay
  <2>4. IssuedOK'
    BY <1>23 DEF ServePay
  <2>5. SuccessIsEarned'
    BY <1>23 DEF ServePay
  <2>6. ShownQrIsPolled'
    BY <1>23 DEF ServePay
  <2> QED
    BY <2>1, <2>2, <2>3, <2>4, <2>5, <2>6
<1>24. ASSUME NEW c \in Call, ServeVerify(c)
      PROVE  Shown'
  <2>1. MountOK'
    BY <1>24 DEF ServeVerify
  <2>2. CallOK'
    BY <1>24 DEF ServeVerify
  <2>3. SameSale'
    BY <1>24 DEF ServeVerify
  <2>4. IssuedOK'
    BY <1>24 DEF ServeVerify
  <2>5. SuccessIsEarned'
    <3>1. settled \subseteq settled'
      BY <1>24 DEF ServeVerify
    <3>2. UNCHANGED <<page, open, mount, step, sale, left, cash, confirmed, issuedFor>>
      BY <1>24 DEF ServeVerify
    <3> QED
      BY <3>1, <3>2
  <2>6. ShownQrIsPolled'
    BY <1>24 DEF ServeVerify
  <2> QED
    BY <2>1, <2>2, <2>3, <2>4, <2>5, <2>6
<1>25. ASSUME NEW c \in Call, ServeMark(c)
      PROVE  Shown'
  BY <1>25 DEF ServeMark
<1>26. ASSUME NEW c \in Call, Lose(c)
      PROVE  Shown'
  BY <1>26 DEF Lose
<1>27. ASSUME NEW p \in Payment, Pay(p)
      PROVE  Shown'
  BY <1>27 DEF Pay
<1>28. ASSUME NEW S \in SUBSET Sale, MarkCompleted(S)
      PROVE  Shown'
  BY <1>28 DEF MarkCompleted
<1>29. CASE UNCHANGED vars
  BY <1>29 DEF vars
<1> QED
  BY <1>1, <1>2, <1>3, <1>4, <1>5, <1>6, <1>7, <1>8, <1>9, <1>10, <1>11,
     <1>12, <1>13, <1>14, <1>15, <1>16, <1>17, <1>18, <1>19, <1>20, <1>21,
     <1>22, <1>23, <1>24, <1>25, <1>26, <1>27, <1>28, <1>29
  DEF Next, Staff, Timers, Receiving, Serving

LEMMA OrderStep == TypeOK /\ MountOK /\ CallOK /\ OrderOnce /\ [Next]_vars => OrderOnce'
<1> SUFFICES ASSUME TypeOK, MountOK, CallOK, OrderOnce, [Next]_vars PROVE OrderOnce'
  OBVIOUS
<1> USE NoneAssumption
    DEF dialogVars, callVars, backendVars, staffVars, Step, Asking, Visible, Showing,
        StopPolling, Nobody, Send, Receive, Show, Appear, Disappear, CloseDialog, Answer,
        TypeOK, MountOK,
        CallOK, OrderOnce, Unserved, Untouched
\* A call that ends orders nothing.
<1>o. ASSUME NEW c \in Call, UNCHANGED <<page, sale, open, orders, done, gaveUp>>,
             step' # "select-method" \/ step' = step, at'[c] = "over",
             \A d \in Call \ {c} : UNCHANGED <<at[d], about[d], answer[d]>>
      PROVE  OrderOnce'
  <2>1. \A d \in Call, s \in Sale : Unserved(d, s)' => Unserved(d, s)
    BY <1>o
  <2>2. \A s \in Sale : Untouched(s)' => Untouched(s)
    BY <1>o DEF Untouched
  <2> HIDE DEF Unserved, Untouched
  <2> QED
    BY <1>o, <2>1, <2>2
<1>1. ASSUME NEW s \in Sale, ChooseSale(s)
      PROVE  OrderOnce'
  BY <1>1 DEF ChooseSale
<1>2. ASSUME OpenDialog
      PROVE  OrderOnce'
  BY <1>2 DEF OpenDialog
<1>3. ASSUME Close
      PROVE  OrderOnce'
  BY <1>3 DEF Close
<1>4. ASSUME NEW c \in Call, ChooseTransfer(c)
      PROVE  OrderOnce'
  <2>1. sale \in Sale /\ open /\ step = "select-method" /\ step' # "select-method"
    BY <1>4 DEF ChooseTransfer
  <2>2. UNCHANGED <<open, sale, done, gaveUp, orders, page, answer>>
    BY <1>4 DEF ChooseTransfer
  <2>3. \A d \in Call \ {c} : at'[d] = at[d] /\ about'[d] = about[d]
    BY <1>4 DEF ChooseTransfer
  <2>4. at'[c] \in {"cash", "order"} => about'[c].sale = sale
    BY <1>4 DEF ChooseTransfer
  <2>5. page # "pos" => at'[c] \notin {"cash", "order"}
    BY <1>4 DEF ChooseTransfer
  <2> SUFFICES ASSUME NEW s \in Sale, s \notin gaveUp PROVE
        /\ orders[s] <= 1
        /\ \A d \in Call : Unserved(d, s)' =>
             orders[s] = 0 /\ \A e \in Call : Unserved(e, s)' => e = d
        /\ page = "pos" /\ Untouched(s)' => orders[s] = 0 /\ \A d \in Call : ~Unserved(d, s)'
    BY <2>2
  <2>6. page = "pos" /\ Untouched(s) => orders[s] = 0 /\ \A d \in Call : ~Unserved(d, s)
    OBVIOUS
  <2>7. orders[s] <= 1
    OBVIOUS
  <2>8. \A d \in Call : Unserved(d, s) =>
          orders[s] = 0 /\ \A e \in Call : Unserved(e, s) => e = d
    OBVIOUS
  <2>9. \A d \in Call : d # c => (Unserved(d, s)' <=> Unserved(d, s))
    BY <2>2, <2>3
  <2>10. Unserved(c, s)' => s = sale /\ page = "pos"
    BY <2>4, <2>5, <2>2
  <2>11. page = "pos" /\ s = sale => Untouched(s)
    BY <2>1
  <2> QED
    BY <2>1, <2>2, <2>6, <2>7, <2>8, <2>9, <2>10, <2>11
<1>5. ASSUME NEW c \in Call, ChooseCash(c)
      PROVE  OrderOnce'
  <2>1. sale \in Sale /\ open /\ step = "select-method" /\ step' # "select-method"
    BY <1>5 DEF ChooseCash
  <2>2. UNCHANGED <<open, sale, done, gaveUp, orders, page, answer>>
    BY <1>5 DEF ChooseCash
  <2>3. \A d \in Call \ {c} : at'[d] = at[d] /\ about'[d] = about[d]
    BY <1>5 DEF ChooseCash
  <2>4. at'[c] \in {"cash", "order"} => about'[c].sale = sale
    BY <1>5 DEF ChooseCash
  <2>5. page # "pos" => at'[c] \notin {"cash", "order"}
    BY <1>5 DEF ChooseCash
  <2> SUFFICES ASSUME NEW s \in Sale, s \notin gaveUp PROVE
        /\ orders[s] <= 1
        /\ \A d \in Call : Unserved(d, s)' =>
             orders[s] = 0 /\ \A e \in Call : Unserved(e, s)' => e = d
        /\ page = "pos" /\ Untouched(s)' => orders[s] = 0 /\ \A d \in Call : ~Unserved(d, s)'
    BY <2>2
  <2>6. page = "pos" /\ Untouched(s) => orders[s] = 0 /\ \A d \in Call : ~Unserved(d, s)
    OBVIOUS
  <2>7. orders[s] <= 1
    OBVIOUS
  <2>8. \A d \in Call : Unserved(d, s) =>
          orders[s] = 0 /\ \A e \in Call : Unserved(e, s) => e = d
    OBVIOUS
  <2>9. \A d \in Call : d # c => (Unserved(d, s)' <=> Unserved(d, s))
    BY <2>2, <2>3
  <2>10. Unserved(c, s)' => s = sale /\ page = "pos"
    BY <2>4, <2>5, <2>2
  <2>11. page = "pos" /\ s = sale => Untouched(s)
    BY <2>1
  <2> QED
    BY <2>1, <2>2, <2>6, <2>7, <2>8, <2>9, <2>10, <2>11
<1>6. ASSUME AskConfirm
      PROVE  OrderOnce'
  BY <1>6 DEF AskConfirm
<1>7. ASSUME CancelConfirm
      PROVE  OrderOnce'
  BY <1>7 DEF CancelConfirm
<1>8. ASSUME NEW c \in Call, Confirm(c)
      PROVE  OrderOnce'
  BY <1>8 DEF Confirm
<1>9. ASSUME Retry
      PROVE  OrderOnce'
  BY <1>9 DEF Retry
<1>10. ASSUME NEW S \in SUBSET Sale, Done(S)
      PROVE  OrderOnce'
  BY <1>10 DEF Done
<1>11. ASSUME NEW s \in Sale, CompleteAnswer(s)
      PROVE  OrderOnce'
  BY <1>11 DEF CompleteAnswer
<1>12. ASSUME Reset
      PROVE  OrderOnce'
  BY <1>12 DEF Reset
<1>13. ASSUME NEW m \in Mount, NEW c \in Call, Tick(m, c)
      PROVE  OrderOnce'
  BY <1>13 DEF Tick
<1>14. ASSUME NEW m \in Mount, Timeout(m)
      PROVE  OrderOnce'
  BY <1>14 DEF Timeout
<1>15. ASSUME NEW c \in Call, OrderAnswer(c)
      PROVE  OrderOnce'
  BY <1>15 DEF OrderAnswer
<1>16. ASSUME NEW c \in Call, PayAnswer(c)
      PROVE  OrderOnce'
  BY <1>16 DEF PayAnswer
<1>17. ASSUME NEW c \in Call, CashAnswer(c)
      PROVE  OrderOnce'
  BY <1>17 DEF CashAnswer
<1>18. ASSUME NEW c \in Call, CreatingFailed(c)
      PROVE  OrderOnce'
  BY <1>18 DEF CreatingFailed
<1>19. ASSUME NEW c \in Call, PollCompleted(c)
      PROVE  OrderOnce'
  BY <1>19 DEF PollCompleted
<1>20. ASSUME NEW c \in Call, PollAgain(c)
      PROVE  OrderOnce'
  <2>1. UNCHANGED <<page, sale, open, step, orders, done, gaveUp>>
    BY <1>20 DEF PollAgain
  <2>2. at'[c] = "over" /\ \A d \in Call \ {c} : UNCHANGED <<at[d], about[d], answer[d]>>
    BY <1>20 DEF PollAgain
  <2> QED
    BY <2>1, <2>2, <1>o
<1>21. ASSUME NEW c \in Call, MarkAnswer(c)
      PROVE  OrderOnce'
  <2>1. UNCHANGED <<page, sale, open, orders, done, gaveUp>>
    BY <1>21 DEF MarkAnswer
  <2>2. at'[c] = "over" /\ \A d \in Call \ {c} : UNCHANGED <<at[d], about[d], answer[d]>>
    BY <1>21 DEF MarkAnswer
  <2>3. step' # "select-method" \/ step' = step
    BY <1>21 DEF MarkAnswer
  <2> QED
    BY <2>1, <2>2, <2>3, <1>o
<1>22. ASSUME NEW c \in Call, ServeOrder(c)
      PROVE  OrderOnce'
  BY <1>22 DEF ServeOrder
<1>23. ASSUME NEW c \in Call, NEW p \in Payment, ServePay(c, p)
      PROVE  OrderOnce'
  BY <1>23 DEF ServePay
<1>24. ASSUME NEW c \in Call, ServeVerify(c)
      PROVE  OrderOnce'
  BY <1>24 DEF ServeVerify
<1>25. ASSUME NEW c \in Call, ServeMark(c)
      PROVE  OrderOnce'
  BY <1>25 DEF ServeMark
<1>26. ASSUME NEW c \in Call, Lose(c)
      PROVE  OrderOnce'
  BY <1>26 DEF Lose
<1>27. ASSUME NEW p \in Payment, Pay(p)
      PROVE  OrderOnce'
  BY <1>27 DEF Pay
<1>28. ASSUME NEW S \in SUBSET Sale, MarkCompleted(S)
      PROVE  OrderOnce'
  BY <1>28 DEF MarkCompleted
<1>29. CASE UNCHANGED vars
  BY <1>29 DEF vars
<1> QED
  BY <1>1, <1>2, <1>3, <1>4, <1>5, <1>6, <1>7, <1>8, <1>9, <1>10, <1>11,
     <1>12, <1>13, <1>14, <1>15, <1>16, <1>17, <1>18, <1>19, <1>20, <1>21,
     <1>22, <1>23, <1>24, <1>25, <1>26, <1>27, <1>28, <1>29
  DEF Next, Staff, Timers, Receiving, Serving

-----------------------------------------------------------------------------
(***************************************************************************)
(* The theorems                                                            *)
(***************************************************************************)

LEMMA InitIInv == Init => IInv
<1> SUFFICES ASSUME Init PROVE IInv
  OBVIOUS
<1> USE NoneAssumption DEF Init, Visible, Showing, Step, Asking, Nobody
<1>1. TypeOK
  <2>1. mount \in Mount \cup {None} /\ fresh \in SUBSET Mount /\ resetting \in BOOLEAN
    OBVIOUS
  <2>2. about \in [Call -> [mount : Mount \cup {None}, sale : Sale \cup {None},
                            payment : Payment \cup {None}]]
    OBVIOUS
  <2>3. /\ page \in {"pos", "tables"} /\ sale \in Sale \cup {None} /\ open \in BOOLEAN
        /\ step \in Step /\ payment \in Payment \cup {None}
        /\ poller \in [Mount -> Payment \cup {None}]
        /\ at \in [Call -> Asking \cup {"new", "over"}]
    OBVIOUS
  <2>4. /\ answer \in [Call -> {"none", "ok", "pending", "failed"}]
        /\ orders \in [Sale -> 0..2]
        /\ issuedFor \in [Payment -> Sale \cup {None}]
        /\ paid \in SUBSET Payment /\ settled \in SUBSET Payment
        /\ confirmed \in SUBSET Payment
        /\ cash \in SUBSET Sale /\ done \in SUBSET Sale /\ gaveUp \in SUBSET Sale
        /\ left \in SUBSET Sale
    OBVIOUS
  <2> QED
    BY <2>1, <2>2, <2>3, <2>4 DEF TypeOK
<1>2. MountOK
  BY DEF MountOK
<1>3. CallOK
  BY DEF CallOK
<1>4. SameSale /\ IssuedOK /\ SuccessIsEarned /\ ShownQrIsPolled
  BY DEF SameSale, IssuedOK, SuccessIsEarned, ShownQrIsPolled
<1>5. OrderOnce
  BY DEF OrderOnce, Unserved
<1> QED
  BY <1>1, <1>2, <1>3, <1>4, <1>5 DEF IInv, Shown

LEMMA IInvStep == IInv /\ [Next]_vars => IInv'
<1> SUFFICES ASSUME IInv, [Next]_vars PROVE IInv'
  OBVIOUS
<1>1. TypeOK /\ MountOK /\ CallOK /\ Shown /\ OrderOnce
  BY DEF IInv, Shown
<1>2. TypeOK'
  BY <1>1, TypeStep
<1>3. Shown'
  BY <1>1, ShownStep
<1>4. OrderOnce'
  BY <1>1, OrderStep
<1> QED
  BY <1>2, <1>3, <1>4 DEF IInv

LEMMA Invariance == Spec => []IInv
BY InitIInv, IInvStep, PTL DEF Spec

\* Every variable keeps its type.
THEOREM TypesHold == Spec => []TypeOK
<1>1. IInv => TypeOK
  BY DEF IInv
<1> QED
  BY <1>1, Invariance, PTL

\* On the tables page no late answer shows a success that was not earned by the
\* selected order, or by one that left the list under the same dialog
\* (TablesPage.tsx:153,362-371).
THEOREM SuccessHolds == Spec => []SuccessIsEarned
<1>1. IInv => SuccessIsEarned
  BY DEF IInv, Shown
<1> QED
  BY <1>1, Invariance, PTL

\* On the tables page the QR code shown is polled, and is the selected order's or that
\* of one that left the list under the same dialog (TablesPage.tsx:153,362-371).
THEOREM ShownQrHolds == Spec => []ShownQrIsPolled
<1>1. IInv => ShownQrIsPolled
  BY DEF IInv, Shown
<1> QED
  BY <1>1, Invariance, PTL

\* A cart is ordered twice only after the staff closed the dialog or tried again.
THEOREM OrderingHolds == Spec => []OrderedTwiceOnRequest
<1>1. IInv => OrderedTwiceOnRequest
  BY DEF IInv, OrderOnce, OrderedTwiceOnRequest, TypeOK
<1> QED
  BY <1>1, Invariance, PTL

-----------------------------------------------------------------------------
(***************************************************************************)
(* The spinner                                                             *)
(***************************************************************************)

\* The call that an instance creates an order or a payment with.
Creating(c) == at[c] \in {"cash", "order", "pay"} /\ about[c].mount = mount

\* A mounted dialog with a spinner waits for a call of its own.
SpinnerIsAwaited ==
  mount # None /\ step = "creating-order" => \E c \in Call : Creating(c)

\* The calls that a step leaves alone still create for the mounted dialog.
LEMMA SpinnerStep ==
  TypeOK /\ MountOK /\ CallOK /\ SpinnerIsAwaited /\ [Next]_vars => SpinnerIsAwaited'
<1> SUFFICES ASSUME TypeOK, MountOK, CallOK, SpinnerIsAwaited, [Next]_vars,
                    mount' # None, step' = "creating-order"
             PROVE  \E c \in Call : Creating(c)'
  BY DEF SpinnerIsAwaited
<1> USE NoneAssumption DEF Creating, Visible, Showing, StopPolling, Nobody, Send, Receive,
                           Show, Answer, Appear, Disappear, dialogVars, callVars, Asking
<1>1. ASSUME NEW c \in Call, ChooseTransfer(c) \/ ChooseCash(c)
      PROVE  Creating(c)'
  BY <1>1 DEF ChooseTransfer, ChooseCash, TypeOK
<1>2. ASSUME NEW c \in Call, OrderAnswer(c)
      PROVE  \E d \in Call : Creating(d)'
  BY <1>2 DEF OrderAnswer, SpinnerIsAwaited, TypeOK
<1>3. ASSUME mount' = mount, step = "creating-order",
             \A c \in Call : Creating(c) => Creating(c)'
      PROVE  \E c \in Call : Creating(c)'
  BY <1>3 DEF SpinnerIsAwaited
<1>4. ASSUME NEW s \in Sale, ChooseSale(s)
      PROVE  \E c \in Call : Creating(c)'
  BY <1>3, <1>4 DEF ChooseSale
<1>5. ASSUME OpenDialog
      PROVE  \E c \in Call : Creating(c)'
  BY <1>3, <1>5 DEF OpenDialog
<1>6. ASSUME \/ Close
             \/ \E S \in SUBSET Sale : Done(S) \/ MarkCompleted(S)
             \/ \E s \in Sale : CompleteAnswer(s)
      PROVE  \E c \in Call : Creating(c)'
  BY <1>3, <1>6 DEF Close, Done, MarkCompleted, CompleteAnswer, CloseDialog
<1>7. ASSUME AskConfirm \/ CancelConfirm \/ Retry \/ Reset
      PROVE  \E c \in Call : Creating(c)'
  BY <1>7 DEF AskConfirm, CancelConfirm, Retry, Reset
<1>8. ASSUME NEW c \in Call, Confirm(c)
      PROVE  \E d \in Call : Creating(d)'
  BY <1>8 DEF Confirm
<1>9. ASSUME NEW m \in Mount, NEW c \in Call, Tick(m, c)
      PROVE  \E d \in Call : Creating(d)'
  BY <1>3, <1>9 DEF Tick, TypeOK
<1>10. ASSUME NEW m \in Mount, Timeout(m)
       PROVE  \E d \in Call : Creating(d)'
  BY <1>3, <1>10 DEF Timeout
<1>11. ASSUME NEW c \in Call, PayAnswer(c) \/ CashAnswer(c) \/ CreatingFailed(c)
       PROVE  \E d \in Call : Creating(d)'
  BY <1>3, <1>11 DEF PayAnswer, CashAnswer, CreatingFailed, TypeOK
<1>12. ASSUME NEW c \in Call, PollCompleted(c) \/ PollAgain(c) \/ MarkAnswer(c)
       PROVE  \E d \in Call : Creating(d)'
  BY <1>3, <1>12 DEF PollCompleted, PollAgain, MarkAnswer, TypeOK
<1>13. ASSUME NEW c \in Call, Serving(c) \/ Lose(c)
       PROVE  \E d \in Call : Creating(d)'
  BY <1>3, <1>13 DEF Serving, ServeOrder, ServePay, ServeVerify, ServeMark, Lose, TypeOK
<1>14. ASSUME NEW p \in Payment, Pay(p)
       PROVE  \E c \in Call : Creating(c)'
  BY <1>3, <1>14 DEF Pay
<1>15. CASE UNCHANGED vars
  BY <1>3, <1>15 DEF vars
<1> HIDE DEF Creating
<1> QED
  BY <1>1, <1>2, <1>4, <1>5, <1>6, <1>7, <1>8, <1>9, <1>10, <1>11, <1>12, <1>13, <1>14,
     <1>15
  DEF Next, Staff, Timers, Receiving

\* The spinner, which has no button, never outlives the request it stands for:
\* whatever answers were late and however often the dialog was closed and
\* opened, its instance has a call in flight.  That the call is answered is
\* fairness, and CreatingEnds.
THEOREM SpinnersAreAwaited == Spec => []SpinnerIsAwaited
<1>1. Init => SpinnerIsAwaited
  BY DEF Init, SpinnerIsAwaited
<1>2. IInv /\ SpinnerIsAwaited /\ [Next]_vars => SpinnerIsAwaited'
  BY SpinnerStep DEF IInv, Shown
<1> QED
  BY <1>1, <1>2, Invariance, PTL DEF Spec

=============================================================================
