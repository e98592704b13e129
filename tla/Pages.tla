-------------------------------- MODULE Pages --------------------------------
(***************************************************************************)
(* The front end shows one page at a time (src/frontend/src/App.tsx): one  *)
(* of those that manage a list (ListPages) or the page of tables with      *)
(* active orders (TablesPage). Mounting a page starts it anew, so a        *)
(* behaviour is that of one page.                                          *)
(***************************************************************************)
EXTENDS ListPages, TablesPage

Init ==
  \/ ListInit(None) /\ TablesInit("sent")
  \/ \E p \in Page : ListInit(p) /\ TablesInit("off")

Next ==
  \/ TablesNext /\ UNCHANGED listVars
  \/ \E c \in Call : MenuManagementPage(c) /\ UNCHANGED tablesVars
  \/ \E c \in Call : TableManagementPage(c) /\ UNCHANGED tablesVars
  \/ \E c \in Call : MenuItemManagementPage(c) /\ UNCHANGED tablesVars
  \/ \E c \in Call : EmployeeManagementPage(c) /\ UNCHANGED tablesVars
  \/ \E c \in Call : TransactionHistoryPage(c) /\ UNCHANGED tablesVars
  \/ \E c \in Call : Answers(c) /\ UNCHANGED tablesVars

Spec == Init /\ [][Next]_<<listVars, tablesVars>>

\* The types; and a page shows no version of a row that the row never had.
TypeOK == ListTypeOK /\ TablesTypeOK
=============================================================================
