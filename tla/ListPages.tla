----------------------------- MODULE ListPages -------------------------------
(***************************************************************************)
(* The pages of the front end that manage a list (src/frontend/src/pages): *)
(* menu categories, tables, menu items, employees with their detail panel, *)
(* and the transaction history. A call is an invocation of one of a page's *)
(* asynchronous handlers, numbered as they start: it sends a request, most *)
(* read the list again when that was answered. Meanwhile the page goes on, *)
(* and any answer may arrive later than that of a later call.              *)
(*                                                                         *)
(* What a row says is a number that grows with each change made through    *)
(* the page; rows that are not there yet and rows that are gone do not     *)
(* show. Left out: what the fields are, the error line, other clients,     *)
(* leaving the page, which drops its state, and what the history leaves    *)
(* out: the rows here are those in its range of dates, and at most the 100 *)
(* it asks for (TransactionHistoryPage.tsx:40).                            *)
(***************************************************************************)
EXTENDS Naturals, FiniteSets

CONSTANTS Row, Call, None

ASSUME PageAssumption == None \notin Row /\ Call \subseteq Nat /\ IsFiniteSet(Call)

Page     == {"categories", "tables", "items", "employees", "history"}
Gone     == Cardinality(Call) + 2     \* more than any row can reach
Version  == 0..Gone
Shows(v) == v > 0 /\ v < Gone

VARIABLES
  page,      \* the page in use, or None
  row,       \* the rows of the back end
  list,      \* the rows in the page's state
  loading,   \* whether the page shows that it loads, and nothing else
  form,      \* the form: create, edit or closed, the row its fields are of,
             \* and the calls that submitted it
  saving,    \* whether its button is disabled
  panel,     \* the employee in the detail panel
  secret,    \* the employee whose new password it shows
  checking,  \* the transaction whose button is disabled
  call,      \* the calls, and what came back
  own,       \* history: the version of a row a handler has seen its change in
  overtaken, \* history: rows of which an older version has replaced a newer
  doubtful,  \* history: calls that failed when their change may have been made
  made,      \* history: calls that made a row
  late,      \* history: calls sent before the form was opened or the password shown
  swapped    \* history: one of them has put another employee into the panel

calls   == <<call, own, overtaken, doubtful, made>>
screen  == <<list, loading, form, saving, panel, secret, checking, late, swapped>>
listVars == <<page, row, screen, calls>>

Kind == {"none", "load", "create", "edit", "delete", "select", "toggle", "reset", "reverify"}
At   == {"new", "change", "changed", "list", "listed", "over"}
Idle == [kind |-> "none", at |-> "new", row |-> None, ver |-> 0,
         data |-> [r \in Row |-> 0]]
Closed == [mode |-> "closed", of |-> None, tries |-> {}]

ListTypeOK ==
  /\ page \in Page \cup {None}
  /\ row \in [Row -> Version] /\ list \in [Row -> Version]
  /\ loading \in BOOLEAN /\ saving \in BOOLEAN /\ swapped \in BOOLEAN
  /\ form \in [mode : {"closed", "create", "edit"}, of : Row \cup {None}, tries : SUBSET Call]
  /\ panel \in Row \cup {None} /\ secret \in Row \cup {None} /\ checking \in Row \cup {None}
  /\ call \in [Call -> [kind : Kind, at : At, row : Row \cup {None}, ver : Version,
                        data : [Row -> Version]]]
  /\ own \in [Row -> Version]
  /\ overtaken \in SUBSET Row
  /\ doubtful \in SUBSET Call /\ made \in SUBSET Call /\ late \in SUBSET Call
  /\ \A r \in Row : list[r] <= row[r]   \* the page does not show what was never so

\* Page p is mounted and sends its first load. (None: none of these is in use.)
ListInit(p) ==
  /\ page = p
  /\ \E s \in IF p = None THEN {{}} ELSE SUBSET Row :
       row = [r \in Row |-> IF r \in s THEN 1 ELSE 0]
  /\ list = [r \in Row |-> 0] /\ own = list
  /\ loading = TRUE /\ saving = FALSE /\ late = {} /\ swapped = FALSE
  /\ form = Closed
  /\ panel = None /\ secret = None /\ checking = None
  /\ call = [c \in Call |-> IF p # None /\ \A d \in Call : c <= d
                               THEN [Idle EXCEPT !.kind = "load", !.at = "list"] ELSE Idle]
  /\ overtaken = {} /\ doubtful = {} /\ made = {}

-----------------------------------------------------------------------------
(***************************************************************************)
(* The back end, and answers                                               *)
(***************************************************************************)

\* Variant: the answer has the change, the row has not.
ServeChangeUnsaved(c) ==
  /\ call[c].at = "change" /\ call[c].kind \notin {"create", "delete"}
  /\ Shows(row[call[c].row])
  /\ call' = [call EXCEPT ![c].at = "changed", ![c].ver = row[call[c].row] + 1]
  /\ UNCHANGED <<page, row, screen, own, overtaken, doubtful, made>>

\* A change, or the read of one row. A row that is not there is an error.
ServeChange(c) ==
  LET k == call[c].kind
  IN  /\ call[c].at = "change"
      /\ \E r \in Row :
           /\ IF k = "create" THEN row[r] = 0 ELSE r = call[c].row /\ Shows(row[r])
           /\ row' = [row EXCEPT ![r] = IF k = "delete" THEN Gone
                                        ELSE IF k \in {"select", "reset"} THEN @ ELSE @ + 1]
           /\ call' = [call EXCEPT ![c].at = "changed", ![c].row = r, ![c].ver = row'[r]]
      /\ made' = IF k = "create" THEN made \cup {c} ELSE made
      /\ UNCHANGED <<page, screen, own, overtaken, doubtful>>

ServeList(c) ==
  /\ call[c].at = "list"
  /\ call' = [call EXCEPT ![c].at = "listed", ![c].data = row]
  /\ UNCHANGED <<page, row, screen, own, overtaken, doubtful, made>>

Over(c) == call' = [call EXCEPT ![c] = [Idle EXCEPT !.at = "over"]]

\* The rows the page has in its state now, when a handler ends that changed seen.
Take(new, seen) ==
  /\ list' = new
  /\ own' = [r \in Row |-> IF r = seen.row /\ seen.ver > own[r] THEN seen.ver ELSE own[r]]
  /\ overtaken' = {r \in Row : new[r] < list[r] \/ (r \in overtaken /\ new[r] < own[r])}

\* cancelForm closes whatever form is open. The page of employees has a flag
\* for either form, and closes the one of edit before it reads the list.
CloseForm(k) ==
  form' = IF k \in {"create", "edit"} /\ (page # "employees" \/ k = form.mode)
            THEN Closed ELSE form

\* setSelectedEmp, when call c is answered.
ShowPanel(c) ==
  /\ panel' = call[c].row
  /\ swapped' = (swapped \/ (c \in late /\ call[c].row # panel))

-----------------------------------------------------------------------------
(***************************************************************************)
(* Handlers: what staff starts                                             *)
(***************************************************************************)

\* Pages whose form is a dialog over the list, and pages that hide while they
\* read the list again.
Dialogs == {"items", "employees"}
Hiding  == {"tables", "employees", "history"}

Ready == ~loading /\ (page \in Dialogs => form.mode = "closed")

IsNext(c) == \A d \in Call : (call[d].at = "new") <=> (c <= d)

Ask(c, k, r) ==
  /\ IsNext(c)
  /\ call' = [call EXCEPT ![c] = [Idle EXCEPT !.kind = k, !.at = "change", !.row = r]]
  /\ UNCHANGED <<page, row, list, loading, own, overtaken, doubtful, made>>

Pending == {c \in Call : call[c].at \notin {"new", "over"}}

NoCall ==
  UNCHANGED <<page, row, list, loading, calls, saving, panel, secret, checking, swapped>>

OpenCreate ==
  /\ Ready
  /\ form' = [mode |-> "create", of |-> None, tries |-> {}]
  /\ UNCHANGED late /\ NoCall

OpenEdit(r) ==
  /\ Ready /\ Shows(list[r])
  /\ form' = [mode |-> "edit", of |-> r, tries |-> {}]
  /\ late' = IF page = "employees" THEN late \cup Pending ELSE late
  /\ NoCall

CancelForm ==
  /\ ~loading /\ form.mode # "closed"
  /\ form' = Closed
  /\ UNCHANGED late /\ NoCall

\* Edits of employees go to the one in the panel.
Target == IF form.mode = "edit" /\ page = "employees" THEN panel ELSE form.of

Send(c) ==
  /\ Ask(c, form.mode, Target)
  /\ saving' = TRUE /\ form' = [form EXCEPT !.tries = @ \cup {c}]
  /\ UNCHANGED <<panel, secret, checking, late, swapped>>

\* Variant: the button stays enabled.
SubmitAnyTime(c) ==
  /\ ~loading /\ form.mode # "closed" /\ (form.mode = "edit" => Target # None)
  /\ Send(c)

Submit(c) ==
  /\ ~loading /\ form.mode # "closed" /\ (form.mode = "edit" => Target # None)
  /\ ~saving
  /\ Send(c)

Delete(c, r) ==
  /\ Ready /\ Shows(list[r])
  /\ Ask(c, "delete", r)
  /\ UNCHANGED <<form, saving, panel, secret, checking, late, swapped>>

\* The page is hidden until the list is there.
Load(c) ==
  /\ ~loading /\ IsNext(c)
  /\ call' = [call EXCEPT ![c] = [Idle EXCEPT !.kind = "load", !.at = "list"]]
  /\ loading' = TRUE
  /\ UNCHANGED <<page, row, list, form, saving, panel, secret, checking, late, swapped,
                 own, overtaken, doubtful, made>>

Reverify(c, r) ==
  /\ ~loading /\ Shows(list[r]) /\ checking # r
  /\ Ask(c, "reverify", r)
  /\ checking' = r
  /\ UNCHANGED <<form, saving, panel, secret, late, swapped>>

\* Variant: the password of the last employee stays.
SelectOnly(c, r) ==
  /\ Ready /\ Shows(list[r])
  /\ Ask(c, "select", r)
  /\ form' = Closed /\ late' = {} /\ swapped' = FALSE
  /\ UNCHANGED <<saving, panel, secret, checking>>

\* A row is clicked. The panel keeps its employee until the answer.
Select(c, r) ==
  /\ Ready /\ Shows(list[r])
  /\ Ask(c, "select", r)
  /\ form' = Closed /\ secret' = None /\ late' = {} /\ swapped' = FALSE
  /\ UNCHANGED <<saving, panel, checking>>

ClosePanel ==
  /\ Ready /\ panel # None
  /\ panel' = None /\ form' = Closed /\ secret' = None /\ late' = {} /\ swapped' = FALSE
  /\ UNCHANGED <<page, row, list, loading, calls, saving, checking>>

\* Activate or deactivate, or a new password, for the employee in the panel.
AskForPanel(c, k) ==
  /\ Ready /\ panel # None
  /\ Ask(c, k, panel)
  /\ UNCHANGED <<form, saving, panel, secret, checking, late, swapped>>

-----------------------------------------------------------------------------
(***************************************************************************)
(* Handlers: what they do with an answer                                   *)
(***************************************************************************)

\* Variant: the list is not read again.
ChangedOnly(c) ==
  /\ call[c].at = "changed" /\ call[c].kind \in {"create", "edit", "delete"}
  /\ Take(list, call[c])
  /\ CloseForm(call[c].kind)
  /\ saving' = (saving /\ call[c].kind \notin {"create", "edit"})
  /\ Over(c)
  /\ UNCHANGED <<page, row, loading, panel, secret, checking, late, swapped, doubtful, made>>

\* The change was made: read the list. An edit of an employee is shown, and its
\* form closed, before that.
Changed(c) ==
  /\ call[c].at = "changed" /\ call[c].kind \in {"create", "edit", "delete"}
  /\ call' = [call EXCEPT ![c].at = "list"]
  /\ loading' = (page \in Hiding)
  /\ IF call[c].kind = "edit" /\ page = "employees"
       THEN CloseForm("edit") /\ ShowPanel(c) ELSE UNCHANGED <<form, panel, swapped>>
  /\ UNCHANGED <<page, row, list, saving, secret, checking, late, own, overtaken, doubtful, made>>

\* The list arrives, whatever was read after it.
Listed(c) ==
  /\ call[c].at = "listed"
  /\ Take(call[c].data, call[c])
  /\ loading' = FALSE
  /\ CloseForm(call[c].kind)
  /\ saving' = (saving /\ call[c].kind \notin {"create", "edit"})
  /\ Over(c)
  /\ UNCHANGED <<page, row, panel, secret, checking, late, swapped, doubtful, made>>

\* One row of the list is replaced by the answer.
Replaced(c) ==
  LET k == call[c].kind
      r == call[c].row
  IN  /\ call[c].at = "changed" /\ k \in {"toggle", "reverify"}
      /\ Take([list EXCEPT ![r] = IF Shows(@) THEN call[c].ver ELSE @], call[c])
      /\ IF k = "toggle" THEN UNCHANGED form /\ ShowPanel(c) /\ UNCHANGED checking
         ELSE checking' = None /\ UNCHANGED <<form, panel, swapped>>
      /\ Over(c)
      /\ UNCHANGED <<page, row, loading, saving, secret, late, doubtful, made>>

Selected(c) ==
  /\ call[c].at = "changed" /\ call[c].kind = "select"
  /\ UNCHANGED form /\ ShowPanel(c)
  /\ Over(c)
  /\ UNCHANGED <<page, row, list, loading, saving, secret, checking, late,
                 own, overtaken, doubtful, made>>

PasswordReset(c) ==
  /\ call[c].at = "changed" /\ call[c].kind = "reset"
  /\ secret' = call[c].row
  /\ late' = late \cup Pending
  /\ swapped' = (swapped \/ panel \notin {None, call[c].row})
  /\ Over(c)
  /\ UNCHANGED <<page, row, list, loading, form, saving, panel, checking,
                 own, overtaken, doubtful, made>>

\* A request fails, or its answer is lost: the handler's catch. All but the page
\* of items take a list that cannot be read for an answer like any other.
Failed(c) ==
  LET k == call[c].kind
      reading == call[c].at \in {"list", "listed"}
  IN  /\ call[c].at \notin {"new", "over"}
      /\ doubtful' = IF call[c].at # "change" /\ k = "create" THEN doubtful \cup {c}
                     ELSE doubtful
      /\ loading' = (loading /\ ~reading)
      /\ saving' = (saving /\ k \notin {"create", "edit"})
      /\ IF reading /\ page # "items" THEN CloseForm(k) ELSE UNCHANGED form
      /\ panel' = IF k = "select" THEN None ELSE panel
      /\ checking' = IF k = "reverify" THEN None ELSE checking
      /\ Over(c)
      /\ UNCHANGED <<page, row, list, secret, own, overtaken, made, late, swapped>>

-----------------------------------------------------------------------------
(***************************************************************************)
(* The pages                                                               *)
(***************************************************************************)

Edits(c) == OpenCreate \/ CancelForm \/ Submit(c) \/ \E r \in Row : OpenEdit(r) \/ Delete(c, r)

MenuManagementPage(c) == page = "categories" /\ Edits(c)

TableManagementPage(c) == page = "tables" /\ Edits(c)

MenuItemManagementPage(c) == page = "items" /\ Edits(c)

EmployeeManagementPage(c) ==
  /\ page = "employees"
  /\ \/ OpenCreate \/ CancelForm \/ Submit(c) \/ ClosePanel
     \/ panel # None /\ OpenEdit(panel)
     \/ \E r \in Row : Select(c, r)
     \/ \E k \in {"toggle", "reset"} : AskForPanel(c, k)

TransactionHistoryPage(c) ==
  /\ page = "history"
  /\ Load(c) \/ \E r \in Row : Reverify(c, r)

Answers(c) ==
  \/ ServeChange(c) \/ ServeList(c)
  \/ Changed(c) \/ Listed(c) \/ Replaced(c) \/ Selected(c) \/ PasswordReset(c)
  \/ Failed(c)

-----------------------------------------------------------------------------
(***************************************************************************)
(* Properties                                                              *)
(***************************************************************************)

\* Staff sees the changes a handler has seen to the end, also when others run at
\* the same time: the list has that version of the row or a newer one. Unless an
\* older list or row arrived after a newer (MenuManagementPage.tsx:21-22).
OwnChangesShow == \A r \in Row : list[r] >= own[r] \/ r \in overtaken

\* A form makes one row at most, however often it is submitted. Unless a create
\* failed after its row was made: the answer was lost, or, on the page of items,
\* the list could not be read (MenuItemManagementPage.tsx:94-99).
FormMakesOneRow ==
  \A c, d \in form.tries \cap made : c = d \/ {c, d} \cap doubtful # {}

\* The password shown and the form that is open are those of the employee in the
\* panel, so what is saved is saved for its employee: no click of the staff parts
\* them. The answer to a call sent before the form or the password showed does: it
\* puts another employee into the panel (EmployeeManagementPage.tsx:68,147,176,186).
PanelIsOneEmployees ==
  \/ swapped \/ page # "employees" \/ panel = None
  \/ /\ secret \in {None, panel}
     /\ form.mode = "edit" => form.of = panel
=============================================================================
