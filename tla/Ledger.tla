------------------------------- MODULE Ledger -------------------------------
(***************************************************************************)
(* What the payment service promises, without requests, entities or saves: *)
(* a payment is issued, opened, and settled at most by steps that name the *)
(* transfer they rely on; an entry is added for a settled payment only, and*)
(* an entry never changes until the whole order is erased.                 *)
(***************************************************************************)

CONSTANTS Order, Payment, Transfer, Entry, OrderOf, None

VARIABLES
  state,     \* "unissued", "missing" (no row), "open" or "settled"
  received,  \* the payment a received transfer is for, or None
  entry      \* the log entries: None or what was logged

vars == <<state, received, entry>>

Log == [payment : Payment, type : {"AUTO", "MANUAL"}, sepay : Transfer \cup {None}]

Init ==
  /\ state \in [Payment -> {"unissued", "open"}]
  /\ received = [t \in Transfer |-> None]
  /\ entry = [e \in Entry |-> None]

\* The code of p is drawn; p is stored later, or never.
Issue(p) ==
  /\ state[p] = "unissued"
  /\ state' = [state EXCEPT ![p] = "missing"]
  /\ UNCHANGED <<received, entry>>

Open(p) ==
  /\ state[p] = "missing"
  /\ state' = [state EXCEPT ![p] = "open"]
  /\ UNCHANGED <<received, entry>>

\* A payment is settled once; a settlement under way when the order was erased
\* may store it again.
Settle(p) ==
  /\ state[p] \in {"open", "missing"}
  /\ state' = [state EXCEPT ![p] = "settled"]
  /\ UNCHANGED <<received, entry>>

Receive(t, p) ==
  /\ received[t] = None
  /\ state[p] \in {"open", "settled"}
  /\ received' = [received EXCEPT ![t] = p]
  /\ UNCHANGED <<state, entry>>

\* An entry is added for a settled payment; an AUTO entry names a transfer
\* received for that very payment.
Record(e, x) ==
  /\ entry[e] = None
  /\ state[x.payment] = "settled"
  /\ IF x.type = "AUTO" THEN x.sepay # None /\ received[x.sepay] = x.payment
                        ELSE x.sepay = None
  /\ entry' = [entry EXCEPT ![e] = x]
  /\ UNCHANGED <<state, received>>

\* The order is erased with all its payments and entries.
Erase(o) ==
  /\ state' = [p \in Payment |->
       IF OrderOf[p] = o /\ state[p] # "unissued" THEN "missing" ELSE state[p]]
  /\ entry' = [e \in Entry |->
       IF entry[e] # None /\ OrderOf[entry[e].payment] = o THEN None ELSE entry[e]]
  /\ UNCHANGED received

Next ==
  \/ \E p \in Payment : Issue(p) \/ Open(p) \/ Settle(p)
  \/ \E t \in Transfer, p \in Payment : Receive(t, p)
  \/ \E e \in Entry, x \in Log : Record(e, x)
  \/ \E o \in Order : Erase(o)

Spec == Init /\ [][Next]_vars

=============================================================================
