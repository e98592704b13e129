----------------------------- MODULE PagesProofs ------------------------------
(***************************************************************************)
(* Proofs about Pages, for any number of rows, calls, tables, orders and   *)
(* jobs. The pages that manage a list and the page of tables have separate *)
(* variables and invariants.                                               *)
(***************************************************************************)
EXTENDS Pages, FiniteSetTheorems, TLAPS

pageVars == <<listVars, tablesVars>>

-----------------------------------------------------------------------------
(***************************************************************************)
(* The invariants of the pages that manage a list                          *)
(***************************************************************************)

InUse(c) == call[c].at \notin {"new", "over"}

\* What came back was so, and a row never goes back to an older version.
CallsOK ==
  \A c \in Call :
    /\ \A r \in Row : call[c].data[r] <= row[r]
    /\ call[c].row # None => call[c].ver <= row[call[c].row]
    /\ call[c].at = "changed" => call[c].row \in Row /\ call[c].ver > 0
    /\ call[c].at = "listed" /\ call[c].row # None => call[c].ver <= call[c].data[call[c].row]
    /\ call[c].at \in {"new", "over"} <=> call[c].kind = "none"
    /\ call[c].row = None => call[c].ver = 0

Types == ListTypeOK /\ CallsOK

CallType == [kind : Kind, at : At, row : Row \cup {None}, ver : Version,
             data : [Row -> Version]]

\* Calls but c are as they were.
OnlyCall(c) ==
  /\ call' \in [Call -> CallType]
  /\ \A d \in Call : d # c => call'[d] = call[d]

\* One create or edit runs at a time, while the button is disabled. A call the
\* form has submitted runs still, for that form, or has failed.
Submits(c) == call[c].kind \in {"create", "edit"}

FormOK ==
  /\ form.mode = "closed" => form.tries = {}
  /\ \A c \in Call :
       /\ Submits(c) => saving
       /\ \A d \in Call : Submits(c) /\ Submits(d) => c = d
       /\ c \in made => \/ call[c].at = "over"
                        \/ call[c].kind = "create" /\ call[c].at \notin {"new", "change"}
       /\ c \in form.tries => \/ call[c].at = "over" /\ (c \in made => c \in doubtful)
                              \/ call[c].kind = form.mode

\* Calls for an employee that are not late are for the one of the form and of
\* the password.
PanelOK ==
  page = "employees" /\ ~swapped =>
    /\ panel # None => /\ secret \in {None, panel}
                       /\ form.mode = "edit" => form.of = panel
    /\ \A c \in Call \ late : call[c].kind \in {"select", "toggle", "edit"} =>
         /\ form.mode = "edit" => call[c].row = form.of
         /\ secret # None => call[c].row = secret

\* The pages that put single rows into the list read the list in one call at a
\* time, and a row that has been in the list stays there.
Reads(c) == call[c].at \in {"list", "listed"}

KindsOK ==
  \A c \in Call :
    /\ call[c].kind \in {"select", "toggle", "reset"} => page = "employees"
    /\ call[c].kind = "reverify" => page = "history"
    /\ call[c].kind = "load" => call[c].at \in {"list", "listed"}
    /\ page = "history" => call[c].kind \in {"none", "load", "reverify"}
    /\ page = "employees" => call[c].kind # "delete"
    /\ call[c].kind \in {"select", "toggle", "reset", "reverify"} =>
         call[c].at \in {"change", "changed"}

PutsRows == page \in {"employees", "history"}

ReadersOK ==
  /\ PutsRows => \A c \in Call : Reads(c) => loading /\ \A d \in Call : Reads(d) => c = d
  /\ page = "employees" => \A c, d \in Call : call[c].kind = "load" /\ InUse(d) => c = d

\* r has been in the list.
Listing(r) == r \in Row /\ list[r] > 0

ShownOK ==
  PutsRows =>
    /\ \A c \in Call :
         /\ call[c].at = "listed" => \A r \in Row : list[r] > 0 => call[c].data[r] > 0
         /\ call[c].kind \in {"select", "toggle", "edit", "reverify"} =>
              Listing(call[c].row)
    /\ panel # None => Listing(panel)

IList ==
  Types /\ FormOK /\ PanelOK /\ KindsOK /\ ReadersOK /\ ShownOK /\ OwnChangesShow

-----------------------------------------------------------------------------
(***************************************************************************)
(* The invariants of the page of tables                                    *)
(***************************************************************************)

\* Orders are numbered without gaps.
Numbered == \E n \in Nat : active \cup ended = 1 .. n

\* A handler completes orders there are.
LeftOK == \A j \in Job : job[j].left \subseteq active \cup ended 

\* The order of a dialog for one order is in its table, which is shown.
OneOK == paying /\ IsSplit /\ order # 0 => Visible /\ order \in Group

\* While the dialog is there nothing is added to what it will complete.
BillOK == Mounted => PayTotal \subseteq bill

ITables == TablesTypeOK /\ Numbered /\ LeftOK /\ OneOK /\ BillOK /\ CompletedWereBilled

-----------------------------------------------------------------------------

LEMMA GoneIsANumber == Gone \in Nat /\ Gone >= 2
BY PageAssumption, FS_CardinalityType DEF Gone

LEMMA IdleIsACall ==
  /\ Idle \in CallType /\ Idle.kind = "none" /\ Idle.at = "new" /\ Idle.row = None
  /\ Idle.ver = 0 /\ \A r \in Row : Idle.data[r] = 0
BY GoneIsANumber DEF Idle, CallType, Kind, At, Version

\* The types that one step or another needs.
LEMMA Typed ==
  ASSUME Types
  PROVE  /\ call \in [Call -> CallType]
         /\ row \in [Row -> Version] /\ list \in [Row -> Version] /\ own \in [Row -> Version]
         /\ form \in [mode : {"closed", "create", "edit"}, of : Row \cup {None},
                      tries : SUBSET Call]
         /\ panel \in Row \cup {None} /\ Version \subseteq Nat
BY GoneIsANumber DEF Types, ListTypeOK, CallType, Version

\* A call that is sent was not in use.
LEMMA Asked ==
  ASSUME Types, NEW c \in Call, NEW k \in Kind, NEW r \in Row \cup {None}, Ask(c, k, r)
  PROVE  /\ call[c].at = "new" /\ call[c].kind = "none" /\ OnlyCall(c)
         /\ call'[c].kind = k /\ call'[c].at = "change" /\ call'[c].row = r
         /\ call'[c].ver = 0 /\ \A x \in Row : call'[c].data[x] = 0
<1> DEFINE w == [Idle EXCEPT !.kind = k, !.at = "change", !.row = r]
<1>1. call[c].at = "new" /\ call[c].kind = "none"
  BY PageAssumption DEF Ask, IsNext, Types, CallsOK
<1>2. /\ w \in CallType /\ w.kind = k /\ w.at = "change" /\ w.row = r
      /\ w.ver = 0 /\ \A x \in Row : w.data[x] = 0
  BY IdleIsACall DEF CallType, At
<1>3. call' = [call EXCEPT ![c] = w]
  BY DEF Ask
<1> HIDE DEF w
<1> QED
  BY <1>1, <1>2, <1>3, Typed DEF OnlyCall

LEMMA Ended ==
  ASSUME Types, NEW c \in Call, Over(c)
  PROVE  /\ OnlyCall(c)
         /\ call'[c].kind = "none" /\ call'[c].at = "over" /\ call'[c].row = None
         /\ call'[c].ver = 0 /\ \A x \in Row : call'[c].data[x] = 0
<1> DEFINE w == [Idle EXCEPT !.at = "over"]
<1>1. /\ w \in CallType /\ w.kind = "none" /\ w.at = "over" /\ w.row = None
      /\ w.ver = 0 /\ \A x \in Row : w.data[x] = 0
  BY IdleIsACall DEF CallType, At
<1>2. call' = [call EXCEPT ![c] = w]
  BY DEF Over
<1> HIDE DEF w
<1> QED
  BY <1>1, <1>2, Typed DEF OnlyCall

LEMMA OpenCreateStep ==
  ASSUME IList, NEW c \in Call, OpenCreate
  PROVE  IList'
<1>t. Types /\ IList
  BY DEF IList
<1> USE <1>t, PageAssumption
<1>1. ListTypeOK'
  BY Typed, GoneIsANumber DEF OpenCreate, Ready, NoCall, Closed, Dialogs, Hiding,
     calls, OnlyCall, IList, Types, ListTypeOK, CallsOK, CallType, Kind, At, Version,
     Shows, Page
<1>2. CallsOK'
  BY Typed DEF OpenCreate, Ready, NoCall, Closed, Dialogs, Hiding,
     calls, OnlyCall, IList, Types, CallsOK, Version
<1>3. FormOK'
  BY Typed DEF OpenCreate, Ready, NoCall, Closed, Dialogs, Hiding,
     calls, OnlyCall, IList, FormOK, Submits
<1>4. PanelOK'
  BY Typed DEF OpenCreate, Ready, NoCall, Closed, Dialogs, Hiding,
     calls, OnlyCall, IList, PanelOK, Types, CallsOK
<1>5. KindsOK'
  BY Typed DEF OpenCreate, Ready, NoCall, Closed, Dialogs, Hiding,
     calls, OnlyCall, IList, KindsOK
<1>6. ReadersOK'
  BY Typed DEF OpenCreate, Ready, NoCall, Closed, Dialogs, Hiding,
     calls, OnlyCall, IList, ReadersOK, KindsOK, FormOK, Submits, Types, CallsOK, Reads,
     InUse, PutsRows
<1>7. ShownOK'
  BY Typed DEF OpenCreate, Ready, NoCall, Closed, Dialogs, Hiding,
     calls, OnlyCall, IList, Types, CallsOK, ListTypeOK, ShownOK, KindsOK, ReadersOK,
     Reads, Listing, PutsRows, Shows
<1>8. OwnChangesShow'
  BY Typed, GoneIsANumber DEF OpenCreate, Ready, NoCall, Closed, Dialogs, Hiding,
     calls, OnlyCall, IList, OwnChangesShow, Types, CallsOK, CallType, Version
<1> QED
  BY <1>1, <1>2, <1>3, <1>4, <1>5, <1>6, <1>7, <1>8 DEF IList, Types

LEMMA OpenEditStep ==
  ASSUME IList, NEW c \in Call, NEW r \in Row, page = "employees" => r = panel, OpenEdit(r)
  PROVE  IList'
<1>t. Types /\ IList
  BY DEF IList
<1> USE <1>t, PageAssumption
<1>1. ListTypeOK'
  BY Typed, GoneIsANumber DEF OpenEdit, Ready, Pending, NoCall, Closed, Dialogs, Hiding,
     calls, OnlyCall, IList, Types, ListTypeOK, CallsOK, CallType, Kind, At, Version,
     Shows, Page
<1>2. CallsOK'
  BY Typed DEF OpenEdit, Ready, Pending, NoCall, Closed, Dialogs, Hiding,
     calls, OnlyCall, IList, Types, CallsOK, Version
<1>3. FormOK'
  BY Typed DEF OpenEdit, Ready, Pending, NoCall, Closed, Dialogs, Hiding,
     calls, OnlyCall, IList, FormOK, Submits
<1>4. PanelOK'
  BY Typed DEF OpenEdit, Ready, Pending, NoCall, Closed, Dialogs, Hiding,
     calls, OnlyCall, IList, PanelOK, Types, CallsOK
<1>5. KindsOK'
  BY Typed DEF OpenEdit, Ready, Pending, NoCall, Closed, Dialogs, Hiding,
     calls, OnlyCall, IList, KindsOK
<1>6. ReadersOK'
  BY Typed DEF OpenEdit, Ready, Pending, NoCall, Closed, Dialogs, Hiding,
     calls, OnlyCall, IList, ReadersOK, KindsOK, FormOK, Submits, Types, CallsOK, Reads,
     InUse, PutsRows
<1>7. ShownOK'
  BY Typed DEF OpenEdit, Ready, Pending, NoCall, Closed, Dialogs, Hiding,
     calls, OnlyCall, IList, Types, CallsOK, ListTypeOK, ShownOK, KindsOK, ReadersOK,
     Reads, Listing, PutsRows, Shows
<1>8. OwnChangesShow'
  BY Typed, GoneIsANumber DEF OpenEdit, Ready, Pending, NoCall, Closed, Dialogs, Hiding,
     calls, OnlyCall, IList, OwnChangesShow, Types, CallsOK, CallType, Version
<1> QED
  BY <1>1, <1>2, <1>3, <1>4, <1>5, <1>6, <1>7, <1>8 DEF IList, Types

LEMMA CancelFormStep ==
  ASSUME IList, NEW c \in Call, CancelForm
  PROVE  IList'
<1>t. Types /\ IList
  BY DEF IList
<1> USE <1>t, PageAssumption
<1>1. ListTypeOK'
  BY Typed, GoneIsANumber DEF CancelForm, NoCall, Closed, Dialogs, Hiding,
     calls, OnlyCall, IList, Types, ListTypeOK, CallsOK, CallType, Kind, At, Version,
     Shows, Page
<1>2. CallsOK'
  BY Typed DEF CancelForm, NoCall, Closed, Dialogs, Hiding,
     calls, OnlyCall, IList, Types, CallsOK, Version
<1>3. FormOK'
  BY Typed DEF CancelForm, NoCall, Closed, Dialogs, Hiding,
     calls, OnlyCall, IList, FormOK, Submits
<1>4. PanelOK'
  BY Typed DEF CancelForm, NoCall, Closed, Dialogs, Hiding,
     calls, OnlyCall, IList, PanelOK, Types, CallsOK
<1>5. KindsOK'
  BY Typed DEF CancelForm, NoCall, Closed, Dialogs, Hiding,
     calls, OnlyCall, IList, KindsOK
<1>6. ReadersOK'
  BY Typed DEF CancelForm, NoCall, Closed, Dialogs, Hiding,
     calls, OnlyCall, IList, ReadersOK, KindsOK, FormOK, Submits, Types, CallsOK, Reads,
     InUse, PutsRows
<1>7. ShownOK'
  BY Typed DEF CancelForm, NoCall, Closed, Dialogs, Hiding,
     calls, OnlyCall, IList, Types, CallsOK, ListTypeOK, ShownOK, KindsOK, ReadersOK,
     Reads, Listing, PutsRows, Shows
<1>8. OwnChangesShow'
  BY Typed, GoneIsANumber DEF CancelForm, NoCall, Closed, Dialogs, Hiding,
     calls, OnlyCall, IList, OwnChangesShow, Types, CallsOK, CallType, Version
<1> QED
  BY <1>1, <1>2, <1>3, <1>4, <1>5, <1>6, <1>7, <1>8 DEF IList, Types

LEMMA ClosePanelStep ==
  ASSUME IList, NEW c \in Call, page = "employees", ClosePanel
  PROVE  IList'
<1>t. Types /\ IList
  BY DEF IList
<1> USE <1>t, PageAssumption
<1>1. ListTypeOK'
  BY Typed, GoneIsANumber DEF ClosePanel, Ready, Closed, Dialogs, Hiding,
     calls, OnlyCall, IList, Types, ListTypeOK, CallsOK, CallType, Kind, At, Version,
     Shows, Page
<1>2. CallsOK'
  BY Typed DEF ClosePanel, Ready, Closed, Dialogs, Hiding,
     calls, OnlyCall, IList, Types, CallsOK, Version
<1>3. FormOK'
  BY Typed DEF ClosePanel, Ready, Closed, Dialogs, Hiding,
     calls, OnlyCall, IList, FormOK, Submits
<1>4. PanelOK'
  BY Typed DEF ClosePanel, Ready, Closed, Dialogs, Hiding,
     calls, OnlyCall, IList, PanelOK, Types, CallsOK
<1>5. KindsOK'
  BY Typed DEF ClosePanel, Ready, Closed, Dialogs, Hiding,
     calls, OnlyCall, IList, KindsOK
<1>6. ReadersOK'
  BY Typed DEF ClosePanel, Ready, Closed, Dialogs, Hiding,
     calls, OnlyCall, IList, ReadersOK, KindsOK, FormOK, Submits, Types, CallsOK, Reads,
     InUse, PutsRows
<1>7. ShownOK'
  BY Typed DEF ClosePanel, Ready, Closed, Dialogs, Hiding,
     calls, OnlyCall, IList, Types, CallsOK, ListTypeOK, ShownOK, KindsOK, ReadersOK,
     Reads, Listing, PutsRows, Shows
<1>8. OwnChangesShow'
  BY Typed, GoneIsANumber DEF ClosePanel, Ready, Closed, Dialogs, Hiding,
     calls, OnlyCall, IList, OwnChangesShow, Types, CallsOK, CallType, Version
<1> QED
  BY <1>1, <1>2, <1>3, <1>4, <1>5, <1>6, <1>7, <1>8 DEF IList, Types

LEMMA SubmitStep ==
  ASSUME IList, NEW c \in Call, page \in {"categories", "tables", "items", "employees"},
  Submit(c)
  PROVE  IList'
<1>t. Types /\ IList
  BY DEF IList
<1> USE <1>t, PageAssumption
<1>0. /\ OnlyCall(c)
      /\ call[c].at = "new" /\ call[c].kind = "none"
      /\ call'[c].kind = form.mode /\ call'[c].at = "change"
      /\ call'[c].row = Target /\ call'[c].ver = 0 /\ \A x \in Row : call'[c].data[x] = 0
  <2>1. Ask(c, form.mode, Target)
    BY DEF Submit, Send
  <2>2. form.mode \in Kind /\ Target \in Row \cup {None}
    BY Typed DEF Kind, Submit, Target
  <2> QED
    BY <2>1, <2>2, Asked
<1>1. ListTypeOK'
  <2>1. /\ UNCHANGED <<page, row, list, loading, own, overtaken, doubtful, made>>
        /\ UNCHANGED <<panel, secret, checking, late, swapped>>
        /\ saving' = TRUE /\ form' = [form EXCEPT !.tries = @ \cup {c}]
    BY DEF Submit, Send, Ask
  <2>2. form' \in [mode : {"closed", "create", "edit"}, of : Row \cup {None},
  tries : SUBSET Call]
    BY <2>1, Typed
  <2> QED
    BY <1>0, <2>1, <2>2 DEF OnlyCall, Types, ListTypeOK, CallType
<1>2. CallsOK'
  BY <1>0, Typed DEF Submit, Send, Ask, Target, Closed, Dialogs, Hiding,
     calls, OnlyCall, IList, Types, CallsOK, Version
<1>3. FormOK'
  BY <1>0, Typed DEF Submit, Send, Ask, Target, Closed, Dialogs, Hiding,
     calls, OnlyCall, IList, FormOK, Submits
<1>4. PanelOK'
  BY <1>0, Typed DEF Submit, Send, Ask, Target, Closed, Dialogs, Hiding,
     calls, OnlyCall, IList, PanelOK, Types, CallsOK
<1>5. KindsOK'
  BY <1>0, Typed DEF Submit, Send, Ask, Target, Closed, Dialogs, Hiding,
     calls, OnlyCall, IList, KindsOK
<1>6. ReadersOK'
  BY <1>0, Typed DEF Submit, Send, Ask, Target, Closed, Dialogs, Hiding,
     calls, OnlyCall, IList, ReadersOK, KindsOK, FormOK, Submits, Types, CallsOK, Reads,
     InUse, PutsRows
<1>7. ShownOK'
  BY <1>0, Typed DEF Submit, Send, Ask, Target, Closed, Dialogs, Hiding,
     calls, OnlyCall, IList, Types, CallsOK, ListTypeOK, ShownOK, KindsOK, ReadersOK,
     Reads, Listing, PutsRows, Shows
<1>8. OwnChangesShow'
  BY <1>0, Typed, GoneIsANumber DEF Submit, Send, Ask, Target, Closed, Dialogs, Hiding,
     calls, OnlyCall, IList, OwnChangesShow, Types, CallsOK, CallType, Version
<1> QED
  BY <1>1, <1>2, <1>3, <1>4, <1>5, <1>6, <1>7, <1>8 DEF IList, Types

LEMMA DeleteStep ==
  ASSUME IList, NEW c \in Call, NEW r \in Row, page \in {"categories", "tables",
  "items"}, Delete(c, r)
  PROVE  IList'
<1>t. Types /\ IList
  BY DEF IList
<1> USE <1>t, PageAssumption
<1>0. /\ OnlyCall(c)
      /\ call[c].at = "new" /\ call[c].kind = "none"
      /\ call'[c].kind = "delete" /\ call'[c].at = "change"
      /\ call'[c].row = r /\ call'[c].ver = 0 /\ \A x \in Row : call'[c].data[x] = 0
  <2>1. Ask(c, "delete", r)
    BY DEF Delete
  <2>2. "delete" \in Kind
    BY Typed DEF Kind
  <2> QED
    BY <2>1, <2>2, Asked
<1>1. ListTypeOK'
  BY <1>0, Typed, GoneIsANumber DEF Delete, Ready, Ask, Closed, Dialogs, Hiding,
     calls, OnlyCall, IList, Types, ListTypeOK, CallsOK, CallType, Kind, At, Version,
     Shows, Page
<1>2. CallsOK'
  BY <1>0, Typed DEF Delete, Ready, Ask, Closed, Dialogs, Hiding,
     calls, OnlyCall, IList, Types, CallsOK, Version
<1>3. FormOK'
  BY <1>0, Typed DEF Delete, Ready, Ask, Closed, Dialogs, Hiding,
     calls, OnlyCall, IList, FormOK, Submits
<1>4. PanelOK'
  BY <1>0, Typed DEF Delete, Ready, Ask, Closed, Dialogs, Hiding,
     calls, OnlyCall, IList, PanelOK, Types, CallsOK
<1>5. KindsOK'
  BY <1>0, Typed DEF Delete, Ready, Ask, Closed, Dialogs, Hiding,
     calls, OnlyCall, IList, KindsOK
<1>6. ReadersOK'
  BY <1>0, Typed DEF Delete, Ready, Ask, Closed, Dialogs, Hiding,
     calls, OnlyCall, IList, ReadersOK, KindsOK, FormOK, Submits, Types, CallsOK, Reads,
     InUse, PutsRows
<1>7. ShownOK'
  BY <1>0, Typed DEF Delete, Ready, Ask, Closed, Dialogs, Hiding,
     calls, OnlyCall, IList, Types, CallsOK, ListTypeOK, ShownOK, KindsOK, ReadersOK,
     Reads, Listing, PutsRows, Shows
<1>8. OwnChangesShow'
  BY <1>0, Typed, GoneIsANumber DEF Delete, Ready, Ask, Closed, Dialogs, Hiding,
     calls, OnlyCall, IList, OwnChangesShow, Types, CallsOK, CallType, Version
<1> QED
  BY <1>1, <1>2, <1>3, <1>4, <1>5, <1>6, <1>7, <1>8 DEF IList, Types

LEMMA SelectStep ==
  ASSUME IList, NEW c \in Call, NEW r \in Row, page = "employees", Select(c, r)
  PROVE  IList'
<1>t. Types /\ IList
  BY DEF IList
<1> USE <1>t, PageAssumption
<1>0. /\ OnlyCall(c)
      /\ call[c].at = "new" /\ call[c].kind = "none"
      /\ call'[c].kind = "select" /\ call'[c].at = "change"
      /\ call'[c].row = r /\ call'[c].ver = 0 /\ \A x \in Row : call'[c].data[x] = 0
  <2>1. Ask(c, "select", r)
    BY DEF Select
  <2>2. "select" \in Kind
    BY Typed DEF Kind
  <2> QED
    BY <2>1, <2>2, Asked
<1>1. ListTypeOK'
  BY <1>0, Typed, GoneIsANumber DEF Select, Ready, Ask, Closed, Dialogs, Hiding,
     calls, OnlyCall, IList, Types, ListTypeOK, CallsOK, CallType, Kind, At, Version,
     Shows, Page
<1>2. CallsOK'
  BY <1>0, Typed DEF Select, Ready, Ask, Closed, Dialogs, Hiding,
     calls, OnlyCall, IList, Types, CallsOK, Version
<1>3. FormOK'
  BY <1>0, Typed DEF Select, Ready, Ask, Closed, Dialogs, Hiding,
     calls, OnlyCall, IList, FormOK, Submits
<1>4. PanelOK'
  BY <1>0, Typed DEF Select, Ready, Ask, Closed, Dialogs, Hiding,
     calls, OnlyCall, IList, PanelOK, Types, CallsOK
<1>5. KindsOK'
  BY <1>0, Typed DEF Select, Ready, Ask, Closed, Dialogs, Hiding,
     calls, OnlyCall, IList, KindsOK
<1>6. ReadersOK'
  BY <1>0, Typed DEF Select, Ready, Ask, Closed, Dialogs, Hiding,
     calls, OnlyCall, IList, ReadersOK, KindsOK, FormOK, Submits, Types, CallsOK, Reads,
     InUse, PutsRows
<1>7. ShownOK'
  BY <1>0, Typed DEF Select, Ready, Ask, Closed, Dialogs, Hiding,
     calls, OnlyCall, IList, Types, CallsOK, ListTypeOK, ShownOK, KindsOK, ReadersOK,
     Reads, Listing, PutsRows, Shows
<1>8. OwnChangesShow'
  BY <1>0, Typed, GoneIsANumber DEF Select, Ready, Ask, Closed, Dialogs, Hiding,
     calls, OnlyCall, IList, OwnChangesShow, Types, CallsOK, CallType, Version
<1> QED
  BY <1>1, <1>2, <1>3, <1>4, <1>5, <1>6, <1>7, <1>8 DEF IList, Types

LEMMA AskForPanelStep ==
  ASSUME IList, NEW c \in Call, NEW k \in {"toggle", "reset"}, page = "employees",
  AskForPanel(c, k)
  PROVE  IList'
<1>t. Types /\ IList
  BY DEF IList
<1> USE <1>t, PageAssumption
<1>0. /\ OnlyCall(c)
      /\ call[c].at = "new" /\ call[c].kind = "none"
      /\ call'[c].kind = k /\ call'[c].at = "change"
      /\ call'[c].row = panel /\ call'[c].ver = 0 /\ \A x \in Row : call'[c].data[x] = 0
  <2>1. Ask(c, k, panel)
    BY DEF AskForPanel
  <2>2. k \in Kind /\ panel \in Row \cup {None}
    BY Typed DEF Kind
  <2> QED
    BY <2>1, <2>2, Asked
<1>1. ListTypeOK'
  BY <1>0, Typed, GoneIsANumber DEF AskForPanel, Ready, Ask, Closed, Dialogs, Hiding,
     calls, OnlyCall, IList, Types, ListTypeOK, CallsOK, CallType, Kind, At, Version,
     Shows, Page
<1>2. CallsOK'
  BY <1>0, Typed DEF AskForPanel, Ready, Ask, Closed, Dialogs, Hiding,
     calls, OnlyCall, IList, Types, CallsOK, Version
<1>3. FormOK'
  BY <1>0, Typed DEF AskForPanel, Ready, Ask, Closed, Dialogs, Hiding,
     calls, OnlyCall, IList, FormOK, Submits
<1>4. PanelOK'
  BY <1>0, Typed DEF AskForPanel, Ready, Ask, Closed, Dialogs, Hiding,
     calls, OnlyCall, IList, PanelOK, Types, CallsOK
<1>5. KindsOK'
  BY <1>0, Typed DEF AskForPanel, Ready, Ask, Closed, Dialogs, Hiding,
     calls, OnlyCall, IList, KindsOK
<1>6. ReadersOK'
  BY <1>0, Typed DEF AskForPanel, Ready, Ask, Closed, Dialogs, Hiding,
     calls, OnlyCall, IList, ReadersOK, KindsOK, FormOK, Submits, Types, CallsOK, Reads,
     InUse, PutsRows
<1>7. ShownOK'
  BY <1>0, Typed DEF AskForPanel, Ready, Ask, Closed, Dialogs, Hiding,
     calls, OnlyCall, IList, Types, CallsOK, ListTypeOK, ShownOK, KindsOK, ReadersOK,
     Reads, Listing, PutsRows, Shows
<1>8. OwnChangesShow'
  BY <1>0, Typed, GoneIsANumber DEF AskForPanel, Ready, Ask, Closed, Dialogs, Hiding,
     calls, OnlyCall, IList, OwnChangesShow, Types, CallsOK, CallType, Version
<1> QED
  BY <1>1, <1>2, <1>3, <1>4, <1>5, <1>6, <1>7, <1>8 DEF IList, Types

LEMMA ReverifyStep ==
  ASSUME IList, NEW c \in Call, NEW r \in Row, page = "history", Reverify(c, r)
  PROVE  IList'
<1>t. Types /\ IList
  BY DEF IList
<1> USE <1>t, PageAssumption
<1>0. /\ OnlyCall(c)
      /\ call[c].at = "new" /\ call[c].kind = "none"
      /\ call'[c].kind = "reverify" /\ call'[c].at = "change"
      /\ call'[c].row = r /\ call'[c].ver = 0 /\ \A x \in Row : call'[c].data[x] = 0
  <2>1. Ask(c, "reverify", r)
    BY DEF Reverify
  <2>2. "reverify" \in Kind
    BY Typed DEF Kind
  <2> QED
    BY <2>1, <2>2, Asked
<1>1. ListTypeOK'
  BY <1>0, Typed, GoneIsANumber DEF Reverify, Ask, Closed, Dialogs, Hiding,
     calls, OnlyCall, IList, Types, ListTypeOK, CallsOK, CallType, Kind, At, Version,
     Shows, Page
<1>2. CallsOK'
  BY <1>0, Typed DEF Reverify, Ask, Closed, Dialogs, Hiding,
     calls, OnlyCall, IList, Types, CallsOK, Version
<1>3. FormOK'
  BY <1>0, Typed DEF Reverify, Ask, Closed, Dialogs, Hiding,
     calls, OnlyCall, IList, FormOK, Submits
<1>4. PanelOK'
  BY <1>0, Typed DEF Reverify, Ask, Closed, Dialogs, Hiding,
     calls, OnlyCall, IList, PanelOK, Types, CallsOK
<1>5. KindsOK'
  BY <1>0, Typed DEF Reverify, Ask, Closed, Dialogs, Hiding,
     calls, OnlyCall, IList, KindsOK
<1>6. ReadersOK'
  BY <1>0, Typed DEF Reverify, Ask, Closed, Dialogs, Hiding,
     calls, OnlyCall, IList, ReadersOK, KindsOK, FormOK, Submits, Types, CallsOK, Reads,
     InUse, PutsRows
<1>7. ShownOK'
  BY <1>0, Typed DEF Reverify, Ask, Closed, Dialogs, Hiding,
     calls, OnlyCall, IList, Types, CallsOK, ListTypeOK, ShownOK, KindsOK, ReadersOK,
     Reads, Listing, PutsRows, Shows
<1>8. OwnChangesShow'
  BY <1>0, Typed, GoneIsANumber DEF Reverify, Ask, Closed, Dialogs, Hiding,
     calls, OnlyCall, IList, OwnChangesShow, Types, CallsOK, CallType, Version
<1> QED
  BY <1>1, <1>2, <1>3, <1>4, <1>5, <1>6, <1>7, <1>8 DEF IList, Types

LEMMA LoadStep ==
  ASSUME IList, NEW c \in Call, page = "history", Load(c)
  PROVE  IList'
<1>t. Types /\ IList
  BY DEF IList
<1> USE <1>t, PageAssumption
<1>0. /\ OnlyCall(c)
      /\ call[c].at = "new" /\ call[c].kind = "none"
      /\ call'[c].kind = "load" /\ call'[c].at = "list"
      /\ call'[c].row = None /\ call'[c].ver = 0 /\ \A x \in Row : call'[c].data[x] = 0
  <2> DEFINE w == [Idle EXCEPT !.kind = "load", !.at = "list"]
  <2>1. call[c].at = "new" /\ call[c].kind = "none"
    BY PageAssumption DEF Load, IsNext, Types, CallsOK
  <2>2. /\ w \in CallType /\ w.kind = "load" /\ w.at = "list" /\ w.row = None
        /\ w.ver = 0 /\ \A x \in Row : w.data[x] = 0
    BY IdleIsACall DEF CallType, At, Kind
  <2>3. call' = [call EXCEPT ![c] = w]
    BY DEF Load
  <2> HIDE DEF w
  <2> QED
    BY <2>1, <2>2, <2>3, Typed DEF OnlyCall
<1>1. ListTypeOK'
  BY <1>0, Typed, GoneIsANumber DEF Load, Closed, Dialogs, Hiding,
     calls, OnlyCall, IList, Types, ListTypeOK, CallsOK, CallType, Kind, At, Version,
     Shows, Page
<1>2. CallsOK'
  BY <1>0, Typed DEF Load, Closed, Dialogs, Hiding,
     calls, OnlyCall, IList, Types, CallsOK, Version
<1>3. FormOK'
  BY <1>0, Typed DEF Load, Closed, Dialogs, Hiding,
     calls, OnlyCall, IList, FormOK, Submits
<1>4. PanelOK'
  BY <1>0, Typed DEF Load, Closed, Dialogs, Hiding,
     calls, OnlyCall, IList, PanelOK, Types, CallsOK
<1>5. KindsOK'
  BY <1>0, Typed DEF Load, Closed, Dialogs, Hiding,
     calls, OnlyCall, IList, KindsOK
<1>6. ReadersOK'
  BY <1>0, Typed DEF Load, Closed, Dialogs, Hiding,
     calls, OnlyCall, IList, ReadersOK, KindsOK, FormOK, Submits, Types, CallsOK, Reads,
     InUse, PutsRows
<1>7. ShownOK'
  BY <1>0, Typed DEF Load, Closed, Dialogs, Hiding,
     calls, OnlyCall, IList, Types, CallsOK, ListTypeOK, ShownOK, KindsOK, ReadersOK,
     Reads, Listing, PutsRows, Shows
<1>8. OwnChangesShow'
  BY <1>0, Typed, GoneIsANumber DEF Load, Closed, Dialogs, Hiding,
     calls, OnlyCall, IList, OwnChangesShow, Types, CallsOK, CallType, Version
<1> QED
  BY <1>1, <1>2, <1>3, <1>4, <1>5, <1>6, <1>7, <1>8 DEF IList, Types

LEMMA ServeChangeStep ==
  ASSUME IList, NEW c \in Call, ServeChange(c)
  PROVE  IList'
<1>t. Types /\ IList
  BY DEF IList
<1> USE <1>t, PageAssumption
<1> DEFINE k == call[c].kind
<1>a. PICK r \in Row :
        /\ IF k = "create" THEN row[r] = 0 ELSE r = call[c].row /\ Shows(row[r])
        /\ row' = [row EXCEPT ![r] = IF k = "delete" THEN Gone
                                     ELSE IF k \in {"select", "reset"} THEN @ ELSE @ + 1]
        /\ call' = [call EXCEPT ![c].at = "changed", ![c].row = r, ![c].ver = row'[r]]
  BY DEF ServeChange
<1>b. /\ row' \in [Row -> Version] /\ row[r] <= row'[r] /\ row[r] \in Version
      /\ \A x \in Row \ {r} : row'[x] = row[x] /\ row[x] \in Version
  BY <1>a, Typed, GoneIsANumber DEF Version, Shows
<1>c. row'[r] > 0 /\ \A x \in Row : row[x] <= row'[x]
  BY <1>a, <1>b, Typed, GoneIsANumber DEF Shows, Version
<1>0. /\ OnlyCall(c)
      /\ call[c].at = "change" /\ call'[c].kind = k /\ call'[c].at = "changed"
      /\ call'[c].row = r /\ call'[c].ver = row'[r] /\ call'[c].data = call[c].data
      /\ k # "create" => r = call[c].row
  <2>1. call[c] \in CallType /\ row'[r] \in Version
    BY <1>b, Typed
  <2> DEFINE w == [call[c] EXCEPT !.at = "changed", !.row = r, !.ver = row'[r]]
  <2>2. /\ w \in CallType /\ w.kind = k /\ w.at = "changed" /\ w.row = r
        /\ w.ver = row'[r] /\ w.data = call[c].data
    BY <2>1 DEF CallType, At
  <2>3. call' = [call EXCEPT ![c] = w]
    BY <1>a, Typed
  <2> HIDE DEF w
  <2>4. call[c].at = "change" /\ (k # "create" => r = call[c].row)
    BY <1>a DEF ServeChange
  <2> QED
    BY <2>2, <2>3, <2>4, Typed DEF OnlyCall
<1>e. /\ UNCHANGED <<page, list, loading, form, saving, panel, secret, checking, late, swapped,
                    own, overtaken, doubtful>>
      /\ made' = IF k = "create" THEN made \cup {c} ELSE made
  BY DEF ServeChange, screen, calls
<1>1. ListTypeOK'
  BY <1>e, <1>0, <1>b, <1>c, Typed, GoneIsANumber
  DEF OnlyCall, IList, Types, ListTypeOK, CallsOK, CallType, Kind, At, Version, Shows, Page
<1>2. CallsOK'
  <2>1. \A x \in Row : row[x] \in Nat /\ row'[x] \in Nat /\ row[x] <= row'[x]
    BY <1>b, <1>c, Typed
  <2>2. \A d \in Call, x \in Row : call'[d].data[x] = call[d].data[x] /\ call[d].data[x] \in Nat
    BY <1>0, Typed DEF OnlyCall, CallType
  <2>3. \A d \in Call : call[d].ver \in Nat
    BY Typed DEF CallType
  <2>4. r # None
    BY DEF IList, Types
  <2>5. ASSUME NEW d \in Call, d # c
        PROVE  /\ call'[d] = call[d]
               /\ call[d].row # None => call[d].row \in Row /\ call[d].ver <= row[call[d].row]
    BY <1>0, <2>5, Typed DEF OnlyCall, CallType, CallsOK, Types
  <2> QED
    BY <1>0, <1>c, <2>1, <2>2, <2>3, <2>4, <2>5 DEF CallsOK, Types
<1>3. FormOK'
  <2>1. \A d \in Call : call'[d].kind = call[d].kind
    BY <1>0 DEF OnlyCall
  <2>2. ASSUME NEW d \in Call, d # c
        PROVE  call'[d] = call[d] /\ (d \in made' <=> d \in made)
    BY <1>e, <1>0, <2>2 DEF OnlyCall
  <2>3. c \in made' => call[c].kind = "create" /\ call'[c].at = "changed"
    BY <1>e, <1>0 DEF IList, FormOK
  <2>4. c \in form'.tries => call[c].kind = form'.mode
    BY <1>e, <1>0 DEF IList, FormOK
  <2>5. form' = form /\ saving' = saving /\ doubtful' = doubtful
    BY <1>e
  <2> QED
    BY <1>0, <2>1, <2>2, <2>3, <2>4, <2>5 DEF IList, FormOK, Submits
<1>4. PanelOK'
  BY <1>e, <1>0, <1>b, <1>c, Typed DEF OnlyCall, IList, PanelOK, Types, CallsOK
<1>5. KindsOK'
  BY <1>e, <1>0, <1>b, <1>c, Typed DEF OnlyCall, IList, KindsOK
<1>6. ReadersOK'
  BY <1>e, <1>0, <1>b, <1>c, Typed
  DEF OnlyCall, IList, ReadersOK, KindsOK, FormOK, Submits, Types, CallsOK, Reads, InUse,
      PutsRows
<1>7. ShownOK'
  BY <1>e, <1>0, <1>b, <1>c, Typed
  DEF OnlyCall, IList, Types, CallsOK, ListTypeOK, ShownOK, KindsOK, ReadersOK, Reads,
      Listing, PutsRows, Shows
<1>8. OwnChangesShow'
  BY <1>e, <1>0, <1>b, <1>c, Typed, GoneIsANumber
  DEF OnlyCall, IList, OwnChangesShow, Types, CallsOK, CallType, Version
<1> QED
  BY <1>1, <1>2, <1>3, <1>4, <1>5, <1>6, <1>7, <1>8 DEF IList, Types

LEMMA ServeListStep ==
  ASSUME IList, NEW c \in Call, ServeList(c)
  PROVE  IList'
<1>t. Types /\ IList
  BY DEF IList
<1> USE <1>t, PageAssumption
<1>0. /\ OnlyCall(c)
      /\ call[c].at = "list" /\ call'[c].kind = call[c].kind /\ call'[c].at = "listed"
      /\ call'[c].row = call[c].row /\ call'[c].ver = call[c].ver /\ call'[c].data = row
  BY Typed DEF ServeList, OnlyCall, CallType, At
<1>e. UNCHANGED <<page, row, list, loading, form, saving, panel, secret, checking, late, swapped,
                 own, overtaken, doubtful, made>>
  BY DEF ServeList, screen, calls
<1>1. ListTypeOK'
  BY <1>e, <1>0, Typed, GoneIsANumber
  DEF OnlyCall, IList, Types, ListTypeOK, CallsOK, CallType, Kind, At, Version, Shows, Page
<1>2. CallsOK'
  BY <1>e, <1>0, Typed DEF OnlyCall, IList, Types, CallsOK, Version
<1>3. FormOK'
  BY <1>e, <1>0, Typed DEF OnlyCall, IList, FormOK, Submits
<1>4. PanelOK'
  BY <1>e, <1>0, Typed DEF OnlyCall, IList, PanelOK, Types, CallsOK
<1>5. KindsOK'
  BY <1>e, <1>0, Typed DEF OnlyCall, IList, KindsOK
<1>6. ReadersOK'
  BY <1>e, <1>0, Typed DEF OnlyCall, IList, ReadersOK, KindsOK, FormOK, Submits, Types,
     CallsOK, Reads, InUse, PutsRows
<1>7. ShownOK'
  BY <1>e, <1>0, Typed DEF OnlyCall, IList, Types, CallsOK, ListTypeOK, ShownOK, KindsOK,
     ReadersOK, Reads, Listing, PutsRows, Shows
<1>8. OwnChangesShow'
  BY <1>e, <1>0, Typed, GoneIsANumber
  DEF OnlyCall, IList, OwnChangesShow, Types, CallsOK, CallType, Version
<1> QED
  BY <1>1, <1>2, <1>3, <1>4, <1>5, <1>6, <1>7, <1>8 DEF IList, Types

LEMMA ChangedStep ==
  ASSUME IList, NEW c \in Call, Changed(c)
  PROVE  IList'
<1>t. Types /\ IList
  BY DEF IList
<1> USE <1>t, PageAssumption
<1>0. /\ OnlyCall(c)
      /\ call'[c].kind = call[c].kind /\ call'[c].at = "list"
      /\ call'[c].row = call[c].row /\ call'[c].ver = call[c].ver /\ call'[c].data = call[c].data
  BY Typed DEF Changed, OnlyCall, CallType, At
<1>e. /\ call[c].at = "changed" /\ call[c].kind \in {"create", "edit", "delete"}
      /\ UNCHANGED <<page, row, list, saving, secret, checking, late, own, overtaken, doubtful, made>>
      /\ loading' \in BOOLEAN /\ (page = "employees" => loading')
      /\ form' = form \/ form' = Closed
      /\ \/ /\ call[c].kind = "edit" /\ form'.mode # "edit" /\ panel' = call[c].row
            /\ page = "employees"
            /\ swapped' = (swapped \/ (c \in late /\ call[c].row # panel))
         \/ UNCHANGED <<form, panel, swapped>>
  <2>1. call[c].at = "changed" /\ call[c].kind \in {"create", "edit", "delete"}
    BY DEF Changed
  <2>2. UNCHANGED <<page, row, list, saving, secret, checking, late, own, overtaken,
  doubtful, made>>
    BY DEF Changed
  <2>3. loading' \in BOOLEAN /\ (page = "employees" => loading')
    <3>1. loading' = (page \in Hiding)
      BY DEF Changed
    <3>2. page = "employees" => page \in Hiding
      BY DEF Hiding
    <3>3. loading' \in BOOLEAN
      BY <3>1
    <3>4. page \in Hiding => loading'
      BY <3>1
    <3> QED
      BY <3>2, <3>3, <3>4
  <2>4. CASE call[c].kind = "edit" /\ page = "employees"
    <3>1. CloseForm("edit") /\ ShowPanel(c)
      BY <2>4 DEF Changed
    <3>2. form' = IF form.mode = "edit" THEN Closed ELSE form
      BY <2>4, <3>1 DEF CloseForm
    <3>3. (form' = form \/ form' = Closed) /\ form'.mode # "edit"
      BY <3>2 DEF Closed
    <3> QED
      BY <2>1, <2>2, <2>3, <2>4, <3>1, <3>3 DEF ShowPanel
  <2>5. CASE ~(call[c].kind = "edit" /\ page = "employees")
    <3>1. UNCHANGED <<form, panel, swapped>>
      BY <2>5 DEF Changed
    <3> QED
      BY <2>1, <2>2, <2>3, <3>1
  <2> QED
    BY <2>4, <2>5
<1>1. ListTypeOK'
  <2>1. panel' \in Row \cup {None} /\ swapped' \in BOOLEAN
    BY <1>e, Typed DEF Types, ListTypeOK, CallsOK
  <2>2. form' \in [mode : {"closed", "create", "edit"}, of : Row \cup {None},
  tries : SUBSET Call]
    BY <1>e, Typed DEF Closed
  <2> QED
    BY <1>e, <1>0, <2>1, <2>2 DEF OnlyCall, Types, ListTypeOK, CallType
<1>2. CallsOK'
  BY <1>e, <1>0, Typed DEF OnlyCall, Closed, IList, Types, CallsOK, Version
<1>3. FormOK'
  <2>1. form' = form \/ form' = Closed
    BY <1>e
  <2>2. form'.mode = "closed" => form'.tries = {}
    BY <2>1 DEF IList, FormOK, Closed
  <2>3. \A d \in Call : call'[d].kind = call[d].kind
                        /\ (d # c => call'[d].at = call[d].at)
    BY <1>0 DEF OnlyCall
  <2>4. \A d \in Call : d \in form'.tries => form' = form
    BY <2>1 DEF Closed
  <2> QED
    BY <1>e, <1>0, <2>2, <2>3, <2>4 DEF IList, FormOK, Submits
<1>4. PanelOK'
  <2>1. SUFFICES ASSUME page = "employees", ~swapped'
                 PROVE  PanelOK'
    BY <1>e DEF PanelOK
  <2>2. \A d \in Call : /\ call'[d].kind = call[d].kind /\ call'[d].row = call[d].row
    BY <1>0 DEF OnlyCall
  <2>3. CASE UNCHANGED <<form, panel, swapped>>
    BY <1>e, <2>1, <2>2, <2>3 DEF IList, PanelOK
  <2>4. CASE /\ call[c].kind = "edit" /\ form'.mode # "edit" /\ panel' = call[c].row
             /\ swapped' = (swapped \/ (c \in late /\ call[c].row # panel))
    <3>1. ~swapped /\ (c \in late => call[c].row = panel)
      BY <2>1, <2>4
    <3>2. call[c].row \in Row
      BY <1>e DEF IList, Types, CallsOK
    <3>3. secret \in {None, call[c].row}
      BY <2>1, <2>4, <3>1, <3>2 DEF IList, PanelOK
    <3> QED
      BY <1>e, <2>1, <2>2, <2>4, <3>1, <3>3 DEF IList, PanelOK
  <2> QED
    BY <1>e, <2>3, <2>4
<1>5. KindsOK'
  BY <1>e, <1>0, Typed DEF OnlyCall, Closed, IList, KindsOK
<1>6. ReadersOK'
  <2> SUFFICES ASSUME PutsRows
               PROVE  /\ \A d \in Call : Reads(d)' => /\ loading'
                                                      /\ \A x \in Call : Reads(x)' => d = x
                      /\ page = "employees" => \A d, x \in Call :
                           call'[d].kind = "load" /\ InUse(x)' => d = x
    BY <1>e DEF ReadersOK, PutsRows
  <2>1. page = "employees" /\ InUse(c) /\ Submits(c)
    BY <1>e DEF PutsRows, IList, KindsOK, InUse, Submits
  <2>2. ASSUME NEW d \in Call, Reads(d) PROVE FALSE
    <3>1. d # c /\ call[d].kind # "none" /\ call[d].kind # "load"
      <4>1. d # c
        BY <1>e, <2>2 DEF Reads
      <4>2. call[d].kind = "load" => d = c
        BY <2>1 DEF IList, ReadersOK
      <4>3. call[d].kind # "none"
        BY <2>2 DEF Reads, IList, Types, CallsOK
      <4> QED
        BY <4>1, <4>2, <4>3
    <3>2. call[d].kind \in Kind
      BY Typed DEF CallType
    <3>3. ~Submits(d)
      BY <2>1, <3>1 DEF IList, FormOK
    <3> QED
      BY <2>1, <2>2, <3>1, <3>2, <3>3 DEF Kind, Submits, IList, KindsOK, Reads
  <2>3. \A d \in Call : (Reads(d)' => d = c) /\ (InUse(d)' => InUse(d))
    BY <1>0, <2>1, <2>2 DEF OnlyCall, Reads, InUse
  <2>4. \A d \in Call : call'[d].kind = call[d].kind
    BY <1>0 DEF OnlyCall
  <2> QED
    BY <1>e, <2>1, <2>3, <2>4 DEF IList, ReadersOK
<1>7. ShownOK'
  <2>1. \A d \in Call : /\ call'[d].kind = call[d].kind /\ call'[d].row = call[d].row
                        /\ call'[d].data = call[d].data
                        /\ call'[d].at = "listed" => call[d].at = "listed"
    BY <1>0 DEF OnlyCall
  <2>2. PutsRows /\ panel' # None => Listing(panel')
    BY <1>e DEF IList, ShownOK
  <2>3. (PutsRows' <=> PutsRows) /\ list' = list
    BY <1>e DEF PutsRows
  <2> HIDE DEF PutsRows
  <2> QED
    BY <2>1, <2>2, <2>3 DEF IList, ShownOK, Listing
<1>8. OwnChangesShow'
  BY <1>e, <1>0, Typed, GoneIsANumber
  DEF OnlyCall, Closed, IList, OwnChangesShow, Types, CallsOK, CallType, Version
<1> QED
  BY <1>1, <1>2, <1>3, <1>4, <1>5, <1>6, <1>7, <1>8 DEF IList, Types

LEMMA ListedStep ==
  ASSUME IList, NEW c \in Call, Listed(c)
  PROVE  IList'
<1>t. Types /\ IList
  BY DEF IList
<1> USE <1>t, PageAssumption
<1>0. /\ OnlyCall(c)
      /\ call'[c].kind = "none" /\ call'[c].at = "over" /\ call'[c].row = None
      /\ call'[c].ver = 0 /\ \A x \in Row : call'[c].data[x] = 0
  BY Ended DEF Listed
<1>e. /\ call[c].at = "listed" /\ loading' = FALSE
      /\ UNCHANGED <<page, row, panel, secret, checking, late, swapped, doubtful, made>>
      /\ list' = call[c].data
      /\ own' = [r \in Row |-> IF r = call[c].row /\ call[c].ver > own[r] THEN call[c].ver
                               ELSE own[r]]
      /\ overtaken' = {r \in Row : call[c].data[r] < list[r]
                                   \/ (r \in overtaken /\ call[c].data[r] < own[r])}
      /\ form' = IF call[c].kind \in {"create", "edit"}
                    /\ (page # "employees" \/ call[c].kind = form.mode) THEN Closed ELSE form
      /\ saving' = (saving /\ call[c].kind \notin {"create", "edit"})
  BY DEF Listed, CloseForm, Take, screen, calls
<1>1. ListTypeOK'
  BY <1>e, <1>0, Typed, GoneIsANumber
  DEF OnlyCall, Closed, IList, Types, ListTypeOK, CallsOK, CallType, Kind, At, Version,
      Shows, Page
<1>2. CallsOK'
  BY <1>e, <1>0, Typed DEF OnlyCall, Closed, IList, Types, CallsOK, Version
<1>3. FormOK'
  <2>1. form' = form \/ form' = Closed
    BY <1>e
  <2>2. form'.mode = "closed" => form'.tries = {}
    BY <2>1 DEF IList, FormOK, Closed
  <2>3. ASSUME NEW d \in Call, Submits(d)' PROVE d # c /\ Submits(d) /\ ~Submits(c)
    BY <1>0, <2>3 DEF OnlyCall, Submits, IList, FormOK
  <2>4. ASSUME NEW d \in Call, Submits(d)' PROVE saving'
    BY <1>e, <2>3, <2>4 DEF IList, FormOK, Submits
  <2>5. ASSUME NEW d \in Call,
  d \in made' PROVE call'[d].at = "over" \/ (call'[d].kind = "create"
                                      /\ call'[d].at \notin {"new", "change"})
    BY <1>e, <1>0, <2>5 DEF OnlyCall, IList, FormOK
  <2>6. ASSUME NEW d \in form'.tries, d \in Call
        PROVE  \/ call'[d].at = "over" /\ (d \in made' => d \in doubtful')
               \/ call'[d].kind = form'.mode
    <3>1. form' = form /\ form.mode # "closed"
      BY <2>1, <2>6 DEF Closed, IList, FormOK
    <3>2. CASE d # c
      BY <1>e, <1>0, <2>6, <3>1, <3>2 DEF OnlyCall, IList, FormOK
    <3>3. CASE d = c
      <4>1. call[c].kind = form.mode
        BY <1>e, <2>6, <3>1, <3>3 DEF IList, FormOK
      <4>2. form' = Closed
        BY <1>e, <3>1, <4>1, Typed
      <4> QED
        BY <3>1, <4>2 DEF Closed
    <3> QED
      BY <3>2, <3>3
  <2>7. made' \subseteq Call /\ made' = made
    BY <1>e DEF IList, Types, ListTypeOK
  <2>8. \A d, x \in Call : Submits(d)' /\ Submits(x)' => d = x
    BY <2>3 DEF IList, FormOK
  <2> QED
    BY <2>2, <2>4, <2>5, <2>6, <2>8 DEF FormOK
<1>4. PanelOK'
  BY <1>e, <1>0, Typed DEF OnlyCall, Closed, IList, PanelOK, Types, CallsOK
<1>5. KindsOK'
  BY <1>e, <1>0, Typed DEF OnlyCall, Closed, IList, KindsOK
<1>6. ReadersOK'
  BY <1>e, <1>0, Typed DEF OnlyCall, Closed, IList, ReadersOK, KindsOK, FormOK, Submits,
     Types, CallsOK, Reads, InUse, PutsRows
<1>7. ShownOK'
  <2>1. ASSUME PutsRows, NEW r, Listing(r) PROVE list'[r] > 0
    BY <1>e, <2>1 DEF IList, ShownOK, Listing
  <2>2. ASSUME PutsRows, NEW d \in Call PROVE call'[d].at # "listed"
    BY <1>e, <1>0, <2>2 DEF OnlyCall, IList, ReadersOK, Reads
  <2>3. ASSUME PutsRows, NEW d \in Call,
               call'[d].kind \in {"select", "toggle", "edit", "reverify"}
        PROVE  call'[d].row = call[d].row /\ Listing(call[d].row)
    BY <1>0, <2>3 DEF OnlyCall, IList, ShownOK
  <2>4. PutsRows /\ panel # None => Listing(panel)
    BY DEF IList, ShownOK
  <2>5. PutsRows' = PutsRows /\ panel' = panel
    BY <1>e DEF PutsRows
  <2>6. ASSUME NEW r PROVE Listing(r)' <=> r \in Row /\ list'[r] > 0
    BY DEF Listing
  <2>7. ASSUME PutsRows, NEW r, Listing(r) PROVE r \in Row /\ list'[r] > 0
    BY <2>1, <2>7 DEF Listing
  <2> HIDE DEF PutsRows
  <2> QED
    BY <2>2, <2>3, <2>4, <2>5, <2>7 DEF ShownOK, Listing
<1>8. OwnChangesShow'
  BY <1>e, <1>0, Typed, GoneIsANumber
  DEF OnlyCall, Closed, IList, OwnChangesShow, Types, CallsOK, CallType, Version
<1> QED
  BY <1>1, <1>2, <1>3, <1>4, <1>5, <1>6, <1>7, <1>8 DEF IList, Types

LEMMA ReplacedStep ==
  ASSUME IList, NEW c \in Call, Replaced(c)
  PROVE  IList'
<1>t. Types /\ IList
  BY DEF IList
<1> USE <1>t, PageAssumption
<1>0. /\ OnlyCall(c)
      /\ call'[c].kind = "none" /\ call'[c].at = "over" /\ call'[c].row = None
      /\ call'[c].ver = 0 /\ \A x \in Row : call'[c].data[x] = 0
  BY Ended DEF Replaced
<1>e. /\ call[c].at = "changed" /\ call[c].kind \in {"toggle", "reverify"}
      /\ list' = [list EXCEPT ![call[c].row] = IF Shows(@) THEN call[c].ver ELSE @]
      /\ own' = [r \in Row |-> IF r = call[c].row /\ call[c].ver > own[r] THEN call[c].ver
                               ELSE own[r]]
      /\ overtaken' = {r \in Row : list'[r] < list[r] \/ (r \in overtaken /\ list'[r] < own[r])}
      /\ IF call[c].kind = "toggle"
           THEN /\ panel' = call[c].row /\ UNCHANGED checking
                /\ swapped' = (swapped \/ (c \in late /\ call[c].row # panel))
           ELSE checking' = None /\ UNCHANGED <<panel, swapped>>
      /\ UNCHANGED <<page, row, loading, form, saving, secret, late, doubtful, made>>
  BY DEF Replaced, Take, ShowPanel, screen, calls
<1>1. ListTypeOK'
  <2>1. call[c].row \in Row /\ call[c].ver \in Version /\ call[c].ver <= row[call[c].row]
    BY <1>e, Typed DEF Types, CallsOK, CallType
  <2>2. /\ list' \in [Row -> Version] /\ own' \in [Row -> Version]
        /\ \A r \in Row : list'[r] <= row[r]
    BY <1>e, <2>1, Typed DEF Types, ListTypeOK
  <2>3. panel' \in Row \cup {None} /\ swapped' \in BOOLEAN
        /\ checking' \in Row \cup {None} /\ overtaken' \in SUBSET Row
    BY <1>e, <2>1 DEF Types, ListTypeOK
  <2> QED
    BY <1>e, <1>0, <2>2, <2>3 DEF OnlyCall, Types, ListTypeOK, CallType
<1>2. CallsOK'
  BY <1>e, <1>0, Typed DEF OnlyCall, Shows, IList, Types, CallsOK, Version
<1>3. FormOK'
  BY <1>e, <1>0, Typed DEF OnlyCall, Shows, IList, FormOK, Submits
<1>4. PanelOK'
  <2>1. \A d \in Call : call'[d].kind # "none" => call'[d] = call[d] /\ d # c
    BY <1>0 DEF OnlyCall
  <2>2. SUFFICES ASSUME page = "employees", ~swapped'
                 PROVE  PanelOK'
    BY <1>e DEF PanelOK
  <2>3. CASE UNCHANGED <<panel, swapped>>
    BY <1>e, <2>1, <2>2, <2>3 DEF IList, PanelOK
  <2>4. CASE /\ panel' = call[c].row /\ call[c].kind \in {"select", "toggle", "edit"}
             /\ swapped' = (swapped \/ (c \in late /\ call[c].row # panel))
    <3>1. ~swapped /\ (c \in late => call[c].row = panel)
      BY <2>2, <2>4
    <3>2. call[c].row \in Row
      BY <1>e DEF IList, Types, CallsOK
    <3>3. /\ secret \in {None, call[c].row}
          /\ form.mode = "edit" => form.of = call[c].row
      BY <2>2, <2>4, <3>1, <3>2 DEF IList, PanelOK
    <3> QED
      BY <1>e, <2>1, <2>2, <2>4, <3>1, <3>3 DEF IList, PanelOK
  <2> QED
    BY <1>e, <2>3, <2>4
<1>5. KindsOK'
  BY <1>e, <1>0, Typed DEF OnlyCall, Shows, IList, KindsOK
<1>6. ReadersOK'
  <2> SUFFICES ASSUME PutsRows
               PROVE  /\ \A d \in Call : Reads(d)' => /\ loading'
                                                      /\ \A x \in Call : Reads(x)' => d = x
                      /\ page = "employees" => \A d, x \in Call :
                           call'[d].kind = "load" /\ InUse(x)' => d = x
    BY <1>e DEF ReadersOK, PutsRows
  <2>1. \A d \in Call : (Reads(d)' => d # c /\ Reads(d)) /\ (InUse(d)' => d # c /\ InUse(d))
    BY <1>0 DEF OnlyCall, Reads, InUse
  <2>2. \A d \in Call : call'[d].kind = "load" => call[d].kind = "load"
    BY <1>0 DEF OnlyCall
  <2> QED
    BY <1>e, <2>1, <2>2 DEF IList, ReadersOK
<1>7. ShownOK'
  BY <1>e, <1>0, Typed DEF OnlyCall, Shows, IList, Types, CallsOK, ListTypeOK, ShownOK,
     KindsOK, ReadersOK, Reads, Listing, PutsRows, Shows
<1>8. OwnChangesShow'
  <2> DEFINE r == call[c].row
             v == call[c].ver
  <2>1. r \in Row /\ v \in Nat /\ list[r] > 0 /\ v <= Gone
    BY <1>e, Typed, GoneIsANumber
    DEF IList, Types, CallsOK, CallType, KindsOK, ShownOK, PutsRows, Listing, Version
  <2>2. list' = [list EXCEPT ![r] = IF Shows(list[r]) THEN v ELSE list[r]]
    BY <1>e
  <2> HIDE DEF r, v
  <2>3. list'[r] >= v
    BY <2>1, <2>2, Typed, GoneIsANumber DEF Shows
  <2>4. SUFFICES ASSUME NEW x \in Row PROVE list'[x] >= own'[x] \/ x \in overtaken'
    BY DEF OwnChangesShow
  <2>5. /\ own'[x] = IF x = r /\ v > own[x] THEN v ELSE own[x]
        /\ list'[x] < list[x] \/ (x \in overtaken /\ list'[x] < own[x]) => x \in overtaken'
    BY <1>e DEF r, v
  <2>6. list[x] >= own[x] \/ x \in overtaken
    BY DEF IList, OwnChangesShow
  <2>7. list[x] \in Nat /\ own[x] \in Nat /\ list'[x] \in Nat
    BY <2>1, <2>2, Typed
  <2> QED
    BY <2>1, <2>3, <2>5, <2>6, <2>7
<1> QED
  BY <1>1, <1>2, <1>3, <1>4, <1>5, <1>6, <1>7, <1>8 DEF IList, Types

LEMMA SelectedStep ==
  ASSUME IList, NEW c \in Call, Selected(c)
  PROVE  IList'
<1>t. Types /\ IList
  BY DEF IList
<1> USE <1>t, PageAssumption
<1>0. /\ OnlyCall(c)
      /\ call'[c].kind = "none" /\ call'[c].at = "over" /\ call'[c].row = None
      /\ call'[c].ver = 0 /\ \A x \in Row : call'[c].data[x] = 0
  BY Ended DEF Selected
<1>e. /\ call[c].at = "changed" /\ call[c].kind = "select" /\ panel' = call[c].row
      /\ swapped' = (swapped \/ (c \in late /\ call[c].row # panel))
      /\ UNCHANGED <<page, row, list, loading, form, saving, secret, checking, late,
                     own, overtaken, doubtful, made>>
  BY DEF Selected, ShowPanel, screen, calls
<1>1. ListTypeOK'
  BY <1>e, <1>0, Typed, GoneIsANumber
  DEF OnlyCall, IList, Types, ListTypeOK, CallsOK, CallType, Kind, At, Version, Shows, Page
<1>2. CallsOK'
  BY <1>e, <1>0, Typed DEF OnlyCall, IList, Types, CallsOK, Version
<1>3. FormOK'
  BY <1>e, <1>0, Typed DEF OnlyCall, IList, FormOK, Submits
<1>4. PanelOK'
  <2>1. \A d \in Call : call'[d].kind # "none" => call'[d] = call[d] /\ d # c
    BY <1>0 DEF OnlyCall
  <2>2. SUFFICES ASSUME page = "employees", ~swapped'
                 PROVE  PanelOK'
    BY <1>e DEF PanelOK
  <2>3. CASE UNCHANGED <<panel, swapped>>
    BY <1>e, <2>1, <2>2, <2>3 DEF IList, PanelOK
  <2>4. CASE /\ panel' = call[c].row /\ call[c].kind \in {"select", "toggle", "edit"}
             /\ swapped' = (swapped \/ (c \in late /\ call[c].row # panel))
    <3>1. ~swapped /\ (c \in late => call[c].row = panel)
      BY <2>2, <2>4
    <3>2. call[c].row \in Row
      BY <1>e DEF IList, Types, CallsOK
    <3>3. /\ secret \in {None, call[c].row}
          /\ form.mode = "edit" => form.of = call[c].row
      BY <2>2, <2>4, <3>1, <3>2 DEF IList, PanelOK
    <3> QED
      BY <1>e, <2>1, <2>2, <2>4, <3>1, <3>3 DEF IList, PanelOK
  <2> QED
    BY <1>e, <2>3, <2>4
<1>5. KindsOK'
  BY <1>e, <1>0, Typed DEF OnlyCall, IList, KindsOK
<1>6. ReadersOK'
  BY <1>e, <1>0, Typed DEF OnlyCall, IList, ReadersOK, KindsOK, FormOK, Submits, Types,
     CallsOK, Reads, InUse, PutsRows
<1>7. ShownOK'
  BY <1>e, <1>0, Typed DEF OnlyCall, IList, Types, CallsOK, ListTypeOK, ShownOK, KindsOK,
     ReadersOK, Reads, Listing, PutsRows, Shows
<1>8. OwnChangesShow'
  BY <1>e, <1>0, Typed, GoneIsANumber
  DEF OnlyCall, IList, OwnChangesShow, Types, CallsOK, CallType, Version
<1> QED
  BY <1>1, <1>2, <1>3, <1>4, <1>5, <1>6, <1>7, <1>8 DEF IList, Types

LEMMA PasswordResetStep ==
  ASSUME IList, NEW c \in Call, PasswordReset(c)
  PROVE  IList'
<1>t. Types /\ IList
  BY DEF IList
<1> USE <1>t, PageAssumption
<1>0. /\ OnlyCall(c)
      /\ call'[c].kind = "none" /\ call'[c].at = "over" /\ call'[c].row = None
      /\ call'[c].ver = 0 /\ \A x \in Row : call'[c].data[x] = 0
  BY Ended DEF PasswordReset
<1>e. /\ call[c].at = "changed" /\ call[c].kind = "reset" /\ secret' = call[c].row
      /\ late' = late \cup {d \in Call : call[d].at \notin {"new", "over"}}
      /\ swapped' = (swapped \/ panel \notin {None, call[c].row})
      /\ UNCHANGED <<page, row, list, loading, form, saving, panel, checking,
                    own, overtaken, doubtful, made>>
  BY DEF PasswordReset, Pending, screen, calls
<1>1. ListTypeOK'
  BY <1>e, <1>0, Typed, GoneIsANumber
  DEF OnlyCall, IList, Types, ListTypeOK, CallsOK, CallType, Kind, At, Version, Shows, Page
<1>2. CallsOK'
  BY <1>e, <1>0, Typed DEF OnlyCall, IList, Types, CallsOK, Version
<1>3. FormOK'
  BY <1>e, <1>0, Typed DEF OnlyCall, IList, FormOK, Submits
<1>4. PanelOK'
  BY <1>e, <1>0, Typed DEF OnlyCall, IList, PanelOK, Types, CallsOK
<1>5. KindsOK'
  BY <1>e, <1>0, Typed DEF OnlyCall, IList, KindsOK
<1>6. ReadersOK'
  BY <1>e, <1>0, Typed DEF OnlyCall, IList, ReadersOK, KindsOK, FormOK, Submits, Types,
     CallsOK, Reads, InUse, PutsRows
<1>7. ShownOK'
  BY <1>e, <1>0, Typed DEF OnlyCall, IList, Types, CallsOK, ListTypeOK, ShownOK, KindsOK,
     ReadersOK, Reads, Listing, PutsRows, Shows
<1>8. OwnChangesShow'
  BY <1>e, <1>0, Typed, GoneIsANumber
  DEF OnlyCall, IList, OwnChangesShow, Types, CallsOK, CallType, Version
<1> QED
  BY <1>1, <1>2, <1>3, <1>4, <1>5, <1>6, <1>7, <1>8 DEF IList, Types

LEMMA FailedStep ==
  ASSUME IList, NEW c \in Call, Failed(c)
  PROVE  IList'
<1>t. Types /\ IList
  BY DEF IList
<1> USE <1>t, PageAssumption
<1>0. /\ OnlyCall(c)
      /\ call'[c].kind = "none" /\ call'[c].at = "over" /\ call'[c].row = None
      /\ call'[c].ver = 0 /\ \A x \in Row : call'[c].data[x] = 0
  BY Ended DEF Failed
<1>e. /\ call[c].at \notin {"new", "over"}
      /\ doubtful' = (IF call[c].at # "change" /\ call[c].kind = "create" THEN doubtful \cup {c}
                      ELSE doubtful)
      /\ loading' = (loading /\ ~(call[c].at \in {"list", "listed"}))
      /\ saving' = (saving /\ call[c].kind \notin {"create", "edit"})
      /\ form' = form \/ (form' = Closed /\ call[c].kind \in {"create", "edit"})
      /\ panel' = (IF call[c].kind = "select" THEN None ELSE panel)
      /\ checking' = (IF call[c].kind = "reverify" THEN None ELSE checking)
      /\ UNCHANGED <<page, row, list, secret, own, overtaken, made, late, swapped>>
  BY DEF Failed, CloseForm, screen, calls
<1>1. ListTypeOK'
  BY <1>e, <1>0, Typed, GoneIsANumber
  DEF OnlyCall, Closed, IList, Types, ListTypeOK, CallsOK, CallType, Kind, At, Version,
      Shows, Page
<1>2. CallsOK'
  BY <1>e, <1>0, Typed DEF OnlyCall, Closed, IList, Types, CallsOK, Version
<1>3. FormOK'
  <2>1. form' = form \/ form' = Closed
    BY <1>e
  <2>2. form'.mode = "closed" => form'.tries = {}
    BY <2>1 DEF IList, FormOK, Closed
  <2>3. ASSUME NEW d \in Call, Submits(d)' PROVE d # c /\ Submits(d) /\ ~Submits(c)
    BY <1>0, <2>3 DEF OnlyCall, Submits, IList, FormOK
  <2>4. ASSUME NEW d \in Call, Submits(d)' PROVE saving'
    BY <1>e, <2>3, <2>4 DEF IList, FormOK, Submits
  <2>5. ASSUME NEW d \in Call,
  d \in made' PROVE call'[d].at = "over" \/ (call'[d].kind = "create"
                                      /\ call'[d].at \notin {"new", "change"})
    BY <1>e, <1>0, <2>5 DEF OnlyCall, IList, FormOK
  <2>6. ASSUME NEW d \in form'.tries, d \in Call
        PROVE  \/ call'[d].at = "over" /\ (d \in made' => d \in doubtful')
               \/ call'[d].kind = form'.mode
    <3>1. form' = form /\ form.mode # "closed"
      BY <2>1, <2>6 DEF Closed, IList, FormOK
    <3>2. CASE d # c
      BY <1>e, <1>0, <2>6, <3>1, <3>2 DEF OnlyCall, IList, FormOK
    <3>3. CASE d = c
      <4>1. call[c].at = "over" \/ call[c].kind = form.mode
        BY <2>6, <3>1, <3>3 DEF IList, FormOK
      <4>2. c \in made => call[c].kind = "create" /\ call[c].at # "change"
        BY <1>e DEF IList, FormOK
      <4> QED
        BY <1>e, <1>0, <3>3, <4>2
    <3> QED
      BY <3>2, <3>3
  <2>7. made' \subseteq Call /\ made' = made
    BY <1>e DEF IList, Types, ListTypeOK
  <2>8. \A d, x \in Call : Submits(d)' /\ Submits(x)' => d = x
    BY <2>3 DEF IList, FormOK
  <2> QED
    BY <2>2, <2>4, <2>5, <2>6, <2>8 DEF FormOK
<1>4. PanelOK'
  BY <1>e, <1>0, Typed DEF OnlyCall, Closed, IList, PanelOK, Types, CallsOK
<1>5. KindsOK'
  BY <1>e, <1>0, Typed DEF OnlyCall, Closed, IList, KindsOK
<1>6. ReadersOK'
  <2> SUFFICES ASSUME PutsRows
               PROVE  /\ \A d \in Call : Reads(d)' => /\ loading'
                                                      /\ \A x \in Call : Reads(x)' => d = x
                      /\ page = "employees" => \A d, x \in Call :
                           call'[d].kind = "load" /\ InUse(x)' => d = x
    BY <1>e DEF ReadersOK, PutsRows
  <2>1. \A d \in Call : (Reads(d)' => d # c /\ Reads(d)) /\ (InUse(d)' => d # c /\ InUse(d))
    BY <1>0 DEF OnlyCall, Reads, InUse
  <2>2. \A d \in Call : Reads(d)' => loading'
    BY <1>e, <2>1 DEF IList, ReadersOK, Reads
  <2> QED
    BY <1>0, <2>1, <2>2 DEF IList, ReadersOK, OnlyCall
<1>7. ShownOK'
  BY <1>e, <1>0, Typed DEF OnlyCall, Closed, IList, Types, CallsOK, ListTypeOK, ShownOK,
     KindsOK, ReadersOK, Reads, Listing, PutsRows, Shows
<1>8. OwnChangesShow'
  BY <1>e, <1>0, Typed, GoneIsANumber
  DEF OnlyCall, Closed, IList, OwnChangesShow, Types, CallsOK, CallType, Version
<1> QED
  BY <1>1, <1>2, <1>3, <1>4, <1>5, <1>6, <1>7, <1>8 DEF IList, Types

-----------------------------------------------------------------------------
(***************************************************************************)
(* The page of tables                                                      *)
(***************************************************************************)

\* What is shown, selected and billed are orders.
LEMMA OrdersShown ==
  ASSUME TablesTypeOK
  PROVE  /\ Group \subseteq Order /\ PayTotal \subseteq Order /\ PayOrder \subseteq Order
         /\ SelectedOrder \subseteq Group /\ PayTotal \subseteq Group
BY DEF TablesTypeOK, Group, PayTotal, PayOrder, SelectedOrder, First

\* The total of a dialog that stays only shrinks, if that of the page does.
LEMMA Remounted ==
  ASSUME BillOK, Remount, TablesTypeOK, shown' \subseteq Order,
         Mounted => PayTotal' \subseteq PayTotal
  PROVE  BillOK' /\ charged' \in SUBSET Order /\ bill' \in SUBSET Order
<1>1. PayTotal' \subseteq Order
  BY DEF PayTotal, SelectedOrder, Group
<1>2. charged \subseteq Order /\ bill \subseteq Order
  BY DEF TablesTypeOK
<1>3. /\ bill' = IF ~Mounted' THEN {} ELSE IF Mounted THEN bill ELSE PayTotal'
      /\ charged' = IF Mounted /\ Mounted' THEN charged ELSE {}
  BY DEF Remount
<1>4. Mounted => PayTotal \subseteq bill
  BY DEF BillOK
<1>5. Mounted' => PayTotal' \subseteq bill'
  BY <1>3, <1>4
<1> QED
  BY <1>1, <1>2, <1>3, <1>5 DEF BillOK

\* Steps that neither load, select nor complete leave the total as it is.
LEMMA SameTotal ==
  ASSUME UNCHANGED <<shown, table, order, split>>
  PROVE  PayTotal' = PayTotal /\ Group' = Group /\ IsSplit' = IsSplit
BY DEF PayTotal, SelectedOrder, Group, IsSplit

JobType == [kind : {"none", "table", "order", "over"}, orders : SUBSET Order, left : SUBSET Order]

\* A handler begins to complete the orders of s.
LEMMA Completes ==
  ASSUME TablesTypeOK, LeftOK, NEW j \in Job, NEW kind \in {"table", "order"}, NEW s,
         s \subseteq shown, UNCHANGED backend, Complete(j, kind, s)
  PROVE  LeftOK' /\ job' \in [Job -> JobType]
<1>1. s \subseteq active \cup ended /\ s \subseteq Order
  BY DEF TablesTypeOK
<1>2. job' = [job EXCEPT ![j] = [kind |-> kind, orders |-> s, left |-> s]]
  BY DEF Complete
<1>3. job \in [Job -> JobType]
  BY DEF TablesTypeOK, JobType
<1>4. [kind |-> kind, orders |-> s, left |-> s] \in JobType
  BY <1>1 DEF JobType
<1> QED
  BY <1>1, <1>2, <1>3, <1>4 DEF LeftOK, JobType, backend

LEMMA RefreshStep ==
  ASSUME ITables, Refresh
  PROVE  ITables'
<1>t. ITables /\ TablesTypeOK /\ BillOK
  BY DEF ITables
<1> USE <1>t, TableAssumption, TableOfAssumption
<1>r. BillOK' /\ charged' \in SUBSET Order /\ bill' \in SUBSET Order
  <2>1. Remount /\ shown' \subseteq Order
    BY DEF Refresh, TablesTypeOK, selected
  <2>2. PayTotal' = PayTotal
    BY SameTotal DEF Refresh, selected
  <2> QED
    BY <2>1, <2>2, Remounted
<1>1. TablesTypeOK'
  BY <1>r, OrdersShown DEF Refresh, backend, selected, billing, TablesTypeOK, NoJob
<1>2. Numbered'
  BY DEF Refresh, backend, selected, billing, ITables, Numbered
<1>3. LeftOK'
  BY OrdersShown DEF Refresh, backend, selected, billing, ITables, LeftOK, TablesTypeOK,
     NoJob
<1>4. OneOK'
  BY DEF Refresh, backend, selected, billing, ITables, OneOK, Panel, Mounted, Visible,
     Group, IsSplit, PayOrder, SelectedOrder, TablesTypeOK
<1>5. BillOK'
  BY <1>r
<1>6. CompletedWereBilled'
  BY DEF Refresh, backend, selected, billing, ITables, CompletedWereBilled
<1> QED
  BY <1>1, <1>2, <1>3, <1>4, <1>5, <1>6 DEF ITables

LEMMA ServeLoadStep ==
  ASSUME ITables, ServeLoad
  PROVE  ITables'
<1>t. ITables /\ TablesTypeOK /\ BillOK
  BY DEF ITables
<1> USE <1>t, TableAssumption, TableOfAssumption
<1>r. BillOK' /\ charged' \in SUBSET Order /\ bill' \in SUBSET Order
  <2>1. Remount /\ shown' \subseteq Order
    BY DEF ServeLoad, TablesTypeOK, selected
  <2>2. PayTotal' = PayTotal
    BY SameTotal DEF ServeLoad, selected
  <2> QED
    BY <2>1, <2>2, Remounted
<1>1. TablesTypeOK'
  BY <1>r, OrdersShown DEF ServeLoad, backend, selected, billing, TablesTypeOK, NoJob
<1>2. Numbered'
  BY DEF ServeLoad, backend, selected, billing, ITables, Numbered
<1>3. LeftOK'
  BY OrdersShown DEF ServeLoad, backend, selected, billing, ITables, LeftOK,
     TablesTypeOK, NoJob
<1>4. OneOK'
  BY DEF ServeLoad, backend, selected, billing, ITables, OneOK, Panel, Mounted, Visible,
     Group, IsSplit, PayOrder, SelectedOrder, TablesTypeOK
<1>5. BillOK'
  BY <1>r
<1>6. CompletedWereBilled'
  BY DEF ServeLoad, backend, selected, billing, ITables, CompletedWereBilled
<1> QED
  BY <1>1, <1>2, <1>3, <1>4, <1>5, <1>6 DEF ITables

LEMMA LoadedStep ==
  ASSUME ITables, Loaded
  PROVE  ITables'
<1>t. ITables /\ TablesTypeOK /\ BillOK
  BY DEF ITables
<1> USE <1>t, TableAssumption, TableOfAssumption
<1>r. BillOK' /\ charged' \in SUBSET Order /\ bill' \in SUBSET Order
  <2>1. Remount /\ shown' \subseteq Order
    BY DEF Loaded, TablesTypeOK, selected
  <2>2. Mounted => PayTotal' \subseteq PayTotal
    BY DEF Loaded, Panel, Mounted, Visible, PayTotal, Group, SelectedOrder, IsSplit,
       PayOrder, TablesTypeOK, backend, selected
  <2> QED
    BY <2>1, <2>2, Remounted
<1>1. TablesTypeOK'
  BY <1>r, OrdersShown DEF Loaded, backend, selected, billing, TablesTypeOK, NoJob
<1>2. Numbered'
  BY DEF Loaded, backend, selected, billing, ITables, Numbered
<1>3. LeftOK'
  BY OrdersShown DEF Loaded, backend, selected, billing, ITables, LeftOK, TablesTypeOK,
     NoJob
<1>4. OneOK'
  BY DEF Loaded, backend, selected, billing, ITables, OneOK, Panel, Mounted, Visible,
     Group, IsSplit, PayOrder, SelectedOrder, TablesTypeOK
<1>5. BillOK'
  BY <1>r
<1>6. CompletedWereBilled'
  BY DEF Loaded, backend, selected, billing, ITables, CompletedWereBilled
<1> QED
  BY <1>1, <1>2, <1>3, <1>4, <1>5, <1>6 DEF ITables

LEMMA SelectTableStep ==
  ASSUME ITables, NEW t \in Table, SelectTable(t)
  PROVE  ITables'
<1>t. ITables /\ TablesTypeOK /\ BillOK
  BY DEF ITables
<1> USE <1>t, TableAssumption, TableOfAssumption
<1>r. BillOK' /\ charged' \in SUBSET Order /\ bill' \in SUBSET Order
  <2>1. Remount /\ shown' \subseteq Order
    BY DEF SelectTable, SelectOnPage, TablesTypeOK, selected
  <2>2. Mounted => PayTotal' \subseteq PayTotal
    BY DEF SelectTable, SelectOnPage, Panel, Mounted, Visible, PayTotal, Group,
       SelectedOrder, IsSplit, PayOrder, TablesTypeOK, backend, selected
  <2> QED
    BY <2>1, <2>2, Remounted
<1>1. TablesTypeOK'
  BY <1>r, OrdersShown DEF SelectTable, SelectOnPage, backend, selected, billing,
     TablesTypeOK, NoJob
<1>2. Numbered'
  BY DEF SelectTable, SelectOnPage, backend, selected, billing, ITables, Numbered
<1>3. LeftOK'
  BY OrdersShown DEF SelectTable, SelectOnPage, backend, selected, billing, ITables,
     LeftOK, TablesTypeOK, NoJob
<1>4. OneOK'
  BY DEF SelectTable, SelectOnPage, backend, selected, billing, ITables, OneOK, Panel,
     Mounted, Visible, Group, IsSplit, PayOrder, SelectedOrder, TablesTypeOK
<1>5. BillOK'
  BY <1>r
<1>6. CompletedWereBilled'
  BY DEF SelectTable, SelectOnPage, backend, selected, billing, ITables, CompletedWereBilled
<1> QED
  BY <1>1, <1>2, <1>3, <1>4, <1>5, <1>6 DEF ITables

LEMMA CloseGroupStep ==
  ASSUME ITables, CloseGroup
  PROVE  ITables'
<1>t. ITables /\ TablesTypeOK /\ BillOK
  BY DEF ITables
<1> USE <1>t, TableAssumption, TableOfAssumption
<1>r. BillOK' /\ charged' \in SUBSET Order /\ bill' \in SUBSET Order
  <2>1. Remount /\ shown' \subseteq Order
    BY DEF CloseGroup, SelectOnPage, TablesTypeOK, selected
  <2>2. Mounted => PayTotal' \subseteq PayTotal
    BY DEF CloseGroup, SelectOnPage, Panel, Mounted, Visible, PayTotal, Group,
       SelectedOrder, IsSplit, PayOrder, TablesTypeOK, backend, selected
  <2> QED
    BY <2>1, <2>2, Remounted
<1>1. TablesTypeOK'
  BY <1>r, OrdersShown DEF CloseGroup, SelectOnPage, backend, selected, billing,
     TablesTypeOK, NoJob
<1>2. Numbered'
  BY DEF CloseGroup, SelectOnPage, backend, selected, billing, ITables, Numbered
<1>3. LeftOK'
  BY OrdersShown DEF CloseGroup, SelectOnPage, backend, selected, billing, ITables,
     LeftOK, TablesTypeOK, NoJob
<1>4. OneOK'
  BY DEF CloseGroup, SelectOnPage, backend, selected, billing, ITables, OneOK, Panel,
     Mounted, Visible, Group, IsSplit, PayOrder, SelectedOrder, TablesTypeOK
<1>5. BillOK'
  BY <1>r
<1>6. CompletedWereBilled'
  BY DEF CloseGroup, SelectOnPage, backend, selected, billing, ITables, CompletedWereBilled
<1> QED
  BY <1>1, <1>2, <1>3, <1>4, <1>5, <1>6 DEF ITables

LEMMA ToggleSplitStep ==
  ASSUME ITables, ToggleSplit
  PROVE  ITables'
<1>t. ITables /\ TablesTypeOK /\ BillOK
  BY DEF ITables
<1> USE <1>t, TableAssumption, TableOfAssumption
<1>r. BillOK' /\ charged' \in SUBSET Order /\ bill' \in SUBSET Order
  <2>1. Remount /\ shown' \subseteq Order
    BY DEF ToggleSplit, SelectOnPage, TablesTypeOK, selected
  <2>2. Mounted => PayTotal' \subseteq PayTotal
    BY DEF ToggleSplit, SelectOnPage, Panel, Mounted, Visible, PayTotal, Group,
       SelectedOrder, IsSplit, PayOrder, TablesTypeOK, backend, selected
  <2> QED
    BY <2>1, <2>2, Remounted
<1>1. TablesTypeOK'
  <2>1. table \in Table
    BY DEF ToggleSplit, Panel, Group, TablesTypeOK, Order
  <2> QED
    BY <1>r, <2>1 DEF ToggleSplit, SelectOnPage, backend, billing, TablesTypeOK
<1>2. Numbered'
  BY DEF ToggleSplit, SelectOnPage, backend, selected, billing, ITables, Numbered
<1>3. LeftOK'
  BY OrdersShown DEF ToggleSplit, SelectOnPage, backend, selected, billing, ITables,
     LeftOK, TablesTypeOK, NoJob
<1>4. OneOK'
  BY DEF ToggleSplit, SelectOnPage, backend, selected, billing, ITables, OneOK, Panel,
     Mounted, Visible, Group, IsSplit, PayOrder, SelectedOrder, TablesTypeOK
<1>5. BillOK'
  BY <1>r
<1>6. CompletedWereBilled'
  BY DEF ToggleSplit, SelectOnPage, backend, selected, billing, ITables, CompletedWereBilled
<1> QED
  BY <1>1, <1>2, <1>3, <1>4, <1>5, <1>6 DEF ITables

LEMMA SelectOrderStep ==
  ASSUME ITables, NEW o \in Order, SelectOrder(o)
  PROVE  ITables'
<1>t. ITables /\ TablesTypeOK /\ BillOK
  BY DEF ITables
<1> USE <1>t, TableAssumption, TableOfAssumption
<1>r. BillOK' /\ charged' \in SUBSET Order /\ bill' \in SUBSET Order
  <2>1. Remount /\ shown' \subseteq Order
    BY DEF SelectOrder, SelectOnPage, TablesTypeOK, selected
  <2>2. Mounted => PayTotal' \subseteq PayTotal
    BY DEF SelectOrder, SelectOnPage, Panel, Mounted, Visible, PayTotal, Group,
       SelectedOrder, IsSplit, PayOrder, TablesTypeOK, backend, selected
  <2> QED
    BY <2>1, <2>2, Remounted
<1>1. TablesTypeOK'
  BY <1>r, OrdersShown DEF SelectOrder, SelectOnPage, backend, selected, billing,
     TablesTypeOK, NoJob
<1>2. Numbered'
  BY DEF SelectOrder, SelectOnPage, backend, selected, billing, ITables, Numbered
<1>3. LeftOK'
  BY OrdersShown DEF SelectOrder, SelectOnPage, backend, selected, billing, ITables,
     LeftOK, TablesTypeOK, NoJob
<1>4. OneOK'
  BY DEF SelectOrder, SelectOnPage, backend, selected, billing, ITables, OneOK, Panel,
     Mounted, Visible, Group, IsSplit, PayOrder, SelectedOrder, TablesTypeOK
<1>5. BillOK'
  BY <1>r
<1>6. CompletedWereBilled'
  BY DEF SelectOrder, SelectOnPage, backend, selected, billing, ITables, CompletedWereBilled
<1> QED
  BY <1>1, <1>2, <1>3, <1>4, <1>5, <1>6 DEF ITables

LEMMA CompleteTableStep ==
  ASSUME ITables, NEW j \in Job, CompleteTable(j)
  PROVE  ITables'
<1>t. ITables /\ TablesTypeOK /\ BillOK
  BY DEF ITables
<1> USE <1>t, TableAssumption, TableOfAssumption
<1>r. BillOK' /\ charged' \in SUBSET Order /\ bill' \in SUBSET Order
  <2>1. Remount /\ shown' \subseteq Order
    BY DEF CompleteTable, TablesTypeOK, selected
  <2>2. PayTotal' = PayTotal
    BY SameTotal DEF CompleteTable, selected
  <2> QED
    BY <2>1, <2>2, Remounted
<1>c. LeftOK' /\ job' \in [Job -> JobType]
  <2>1. Group \subseteq shown /\ LeftOK
    BY OrdersShown DEF Group, ITables
  <2>2. Complete(j, "table", Group) /\ UNCHANGED backend
    BY DEF CompleteTable
  <2> QED
    BY <2>1, <2>2, Completes
<1>1. TablesTypeOK'
  BY <1>r, <1>c DEF CompleteTable, backend, selected, billing, TablesTypeOK, JobType
<1>2. Numbered'
  BY DEF CompleteTable, backend, selected, billing, Complete, ITables, Numbered
<1>3. LeftOK'
  BY <1>c
<1>4. OneOK'
  BY DEF CompleteTable, backend, selected, billing, Complete, ITables, OneOK, Panel,
     Mounted, Visible, Group, IsSplit, PayOrder, SelectedOrder, TablesTypeOK
<1>5. BillOK'
  BY <1>r
<1>6. CompletedWereBilled'
  BY DEF CompleteTable, backend, selected, billing, Complete, ITables, CompletedWereBilled
<1> QED
  BY <1>1, <1>2, <1>3, <1>4, <1>5, <1>6 DEF ITables

LEMMA CompleteOrderStep ==
  ASSUME ITables, NEW j \in Job, CompleteOrder(j)
  PROVE  ITables'
<1>t. ITables /\ TablesTypeOK /\ BillOK
  BY DEF ITables
<1> USE <1>t, TableAssumption, TableOfAssumption
<1>r. BillOK' /\ charged' \in SUBSET Order /\ bill' \in SUBSET Order
  <2>1. Remount /\ shown' \subseteq Order
    BY DEF CompleteOrder, TablesTypeOK, selected
  <2>2. PayTotal' = PayTotal
    BY SameTotal DEF CompleteOrder, selected
  <2> QED
    BY <2>1, <2>2, Remounted
<1>c. LeftOK' /\ job' \in [Job -> JobType]
  <2>1. SelectedOrder \subseteq shown /\ LeftOK
    BY OrdersShown DEF Group, ITables
  <2>2. Complete(j, "order", SelectedOrder) /\ UNCHANGED backend
    BY DEF CompleteOrder
  <2> QED
    BY <2>1, <2>2, Completes
<1>1. TablesTypeOK'
  BY <1>r, <1>c DEF CompleteOrder, backend, selected, billing, TablesTypeOK, JobType
<1>2. Numbered'
  BY DEF CompleteOrder, backend, selected, billing, Complete, ITables, Numbered
<1>3. LeftOK'
  BY <1>c
<1>4. OneOK'
  BY DEF CompleteOrder, backend, selected, billing, Complete, ITables, OneOK, Panel,
     Mounted, Visible, Group, IsSplit, PayOrder, SelectedOrder, TablesTypeOK
<1>5. BillOK'
  BY <1>r
<1>6. CompletedWereBilled'
  BY DEF CompleteOrder, backend, selected, billing, Complete, ITables, CompletedWereBilled
<1> QED
  BY <1>1, <1>2, <1>3, <1>4, <1>5, <1>6 DEF ITables

LEMMA ServeCompleteStep ==
  ASSUME ITables, NEW j \in Job, ServeComplete(j)
  PROVE  ITables'
<1>t. ITables /\ TablesTypeOK /\ BillOK
  BY DEF ITables
<1> USE <1>t, TableAssumption, TableOfAssumption
<1>r. BillOK' /\ charged' \in SUBSET Order /\ bill' \in SUBSET Order
  <2>1. Remount /\ shown' \subseteq Order
    BY DEF ServeComplete, TablesTypeOK, selected
  <2>2. PayTotal' = PayTotal
    BY SameTotal DEF ServeComplete, selected
  <2> QED
    BY <2>1, <2>2, Remounted
<1>1. TablesTypeOK'
  BY <1>r, OrdersShown DEF ServeComplete, backend, selected, billing, TablesTypeOK, NoJob
<1>2. Numbered'
  <2>1. PICK o \in job[j].left : active' = active \ {o} /\ ended' = ended \cup {o}
    BY DEF ServeComplete
  <2>2. o \in active \cup ended
    BY DEF ITables, LeftOK
  <2>3. (active \cup ended)' = active \cup ended
    BY <2>1, <2>2
  <2> QED
    BY <2>3 DEF ITables, Numbered
<1>3. LeftOK'
  BY OrdersShown DEF ServeComplete, backend, selected, billing, ITables, LeftOK,
     TablesTypeOK, NoJob
<1>4. OneOK'
  BY DEF ServeComplete, backend, selected, billing, ITables, OneOK, Panel, Mounted,
     Visible, Group, IsSplit, PayOrder, SelectedOrder, TablesTypeOK
<1>5. BillOK'
  BY <1>r
<1>6. CompletedWereBilled'
  BY DEF ServeComplete, backend, selected, billing, ITables, CompletedWereBilled
<1> QED
  BY <1>1, <1>2, <1>3, <1>4, <1>5, <1>6 DEF ITables

LEMMA CompletedStep ==
  ASSUME ITables, NEW j \in Job, Completed(j)
  PROVE  ITables'
<1>t. ITables /\ TablesTypeOK /\ BillOK
  BY DEF ITables
<1> USE <1>t, TableAssumption, TableOfAssumption
<1>r. BillOK' /\ charged' \in SUBSET Order /\ bill' \in SUBSET Order
  <2>1. /\ Remount /\ shown' \subseteq Order
        /\ shown' \subseteq shown /\ split' = split
        /\ \/ table' = NoTable
           \/ order' = 0 /\ table' = table
    BY DEF Completed, TablesTypeOK
  <2>2. CASE table' = NoTable
    <3>1. Group' = {}
      BY <2>1, <2>2 DEF Group
    <3> QED
      BY <2>1, <3>1, Remounted DEF PayTotal, SelectedOrder
  <2>3. CASE order' = 0 /\ table' = table
    <3>1. 0 \notin shown' /\ Group' \subseteq Group /\ IsSplit' = IsSplit
      BY <2>1, <2>3, FS_CardinalityType DEF Group, IsSplit
    <3>2. SelectedOrder' = {}
      BY <2>3, <3>1 DEF SelectedOrder, Group
    <3>3. PayTotal' \subseteq PayTotal
      BY <3>1, <3>2 DEF PayTotal
    <3> QED
      BY <2>1, <3>3, Remounted
  <2> QED
    BY <2>1, <2>2, <2>3
<1>1. TablesTypeOK'
  BY <1>r, OrdersShown DEF Completed, backend, selected, billing, TablesTypeOK, NoJob
<1>2. Numbered'
  BY DEF Completed, backend, selected, billing, ITables, Numbered
<1>3. LeftOK'
  BY OrdersShown DEF Completed, backend, selected, billing, ITables, LeftOK,
     TablesTypeOK, NoJob
<1>4. OneOK'
  BY DEF Completed, backend, selected, billing, ITables, OneOK, Panel, Mounted, Visible,
     Group, IsSplit, PayOrder, SelectedOrder, TablesTypeOK
<1>5. BillOK'
  BY <1>r
<1>6. CompletedWereBilled'
  BY DEF Completed, backend, selected, billing, ITables, CompletedWereBilled
<1> QED
  BY <1>1, <1>2, <1>3, <1>4, <1>5, <1>6 DEF ITables

LEMMA CompleteFailsStep ==
  ASSUME ITables, NEW j \in Job, CompleteFails(j)
  PROVE  ITables'
<1>t. ITables /\ TablesTypeOK /\ BillOK
  BY DEF ITables
<1> USE <1>t, TableAssumption, TableOfAssumption
<1>r. BillOK' /\ charged' \in SUBSET Order /\ bill' \in SUBSET Order
  <2>1. Remount /\ shown' \subseteq Order
    BY DEF CompleteFails, TablesTypeOK, selected
  <2>2. PayTotal' = PayTotal
    BY SameTotal DEF CompleteFails, selected
  <2> QED
    BY <2>1, <2>2, Remounted
<1>1. TablesTypeOK'
  BY <1>r, OrdersShown DEF CompleteFails, backend, selected, billing, TablesTypeOK, NoJob
<1>2. Numbered'
  BY DEF CompleteFails, backend, selected, billing, ITables, Numbered
<1>3. LeftOK'
  BY OrdersShown DEF CompleteFails, backend, selected, billing, ITables, LeftOK,
     TablesTypeOK, NoJob
<1>4. OneOK'
  BY DEF CompleteFails, backend, selected, billing, ITables, OneOK, Panel, Mounted,
     Visible, Group, IsSplit, PayOrder, SelectedOrder, TablesTypeOK
<1>5. BillOK'
  BY <1>r
<1>6. CompletedWereBilled'
  BY DEF CompleteFails, backend, selected, billing, ITables, CompletedWereBilled
<1> QED
  BY <1>1, <1>2, <1>3, <1>4, <1>5, <1>6 DEF ITables

LEMMA PayStep ==
  ASSUME ITables, Pay
  PROVE  ITables'
<1>t. ITables /\ TablesTypeOK /\ BillOK
  BY DEF ITables
<1> USE <1>t, TableAssumption, TableOfAssumption
<1>r. BillOK' /\ charged' \in SUBSET Order /\ bill' \in SUBSET Order
  <2>1. Remount /\ shown' \subseteq Order
    BY DEF Pay, SelectOnPage, TablesTypeOK, selected
  <2>2. PayTotal' = PayTotal
    BY SameTotal DEF Pay, SelectOnPage, selected
  <2> QED
    BY <2>1, <2>2, Remounted
<1>1. TablesTypeOK'
  BY <1>r, OrdersShown DEF Pay, SelectOnPage, backend, selected, billing, TablesTypeOK,
     NoJob
<1>2. Numbered'
  BY DEF Pay, SelectOnPage, backend, selected, billing, ITables, Numbered
<1>3. LeftOK'
  BY OrdersShown DEF Pay, SelectOnPage, backend, selected, billing, ITables, LeftOK,
     TablesTypeOK, NoJob
<1>4. OneOK'
  BY DEF Pay, SelectOnPage, backend, selected, billing, ITables, OneOK, Panel, Mounted,
     Visible, Group, IsSplit, PayOrder, SelectedOrder, TablesTypeOK
<1>5. BillOK'
  BY <1>r
<1>6. CompletedWereBilled'
  BY DEF Pay, SelectOnPage, backend, selected, billing, ITables, CompletedWereBilled
<1> QED
  BY <1>1, <1>2, <1>3, <1>4, <1>5, <1>6 DEF ITables

LEMMA ChargeStep ==
  ASSUME ITables, NEW s, s \subseteq Order, Charge(s)
  PROVE  ITables'
<1>t. ITables /\ TablesTypeOK /\ BillOK
  BY DEF ITables
<1> USE <1>t, TableAssumption, TableOfAssumption
<1>r. BillOK' /\ charged' \in SUBSET Order /\ bill' \in SUBSET Order
  BY SameTotal DEF Charge, backend, selected, billing, BillOK, Mounted, Visible,
     PayOrder, First, TablesTypeOK, Group, IsSplit
<1>1. TablesTypeOK'
  BY <1>r, OrdersShown DEF Charge, backend, selected, billing, TablesTypeOK, NoJob
<1>2. Numbered'
  BY DEF Charge, backend, selected, billing, ITables, Numbered
<1>3. LeftOK'
  BY OrdersShown DEF Charge, backend, selected, billing, ITables, LeftOK, TablesTypeOK,
     NoJob
<1>4. OneOK'
  BY DEF Charge, backend, selected, billing, ITables, OneOK, Panel, Mounted, Visible,
     Group, IsSplit, PayOrder, SelectedOrder, TablesTypeOK
<1>5. BillOK'
  BY <1>r
<1>6. CompletedWereBilled'
  BY DEF Charge, backend, selected, billing, ITables, CompletedWereBilled
<1> QED
  BY <1>1, <1>2, <1>3, <1>4, <1>5, <1>6 DEF ITables

LEMMA ClosePaymentStep ==
  ASSUME ITables, ClosePayment
  PROVE  ITables'
<1>t. ITables /\ TablesTypeOK /\ BillOK
  BY DEF ITables
<1> USE <1>t, TableAssumption, TableOfAssumption
<1>r. BillOK' /\ charged' \in SUBSET Order /\ bill' \in SUBSET Order
  <2>1. Remount /\ shown' \subseteq Order
    BY DEF ClosePayment, SelectOnPage, TablesTypeOK, selected
  <2>2. PayTotal' = PayTotal
    BY SameTotal DEF ClosePayment, SelectOnPage, selected
  <2> QED
    BY <2>1, <2>2, Remounted
<1>1. TablesTypeOK'
  BY <1>r, OrdersShown DEF ClosePayment, SelectOnPage, backend, selected, billing,
     TablesTypeOK, NoJob
<1>2. Numbered'
  BY DEF ClosePayment, SelectOnPage, backend, selected, billing, ITables, Numbered
<1>3. LeftOK'
  BY OrdersShown DEF ClosePayment, SelectOnPage, backend, selected, billing, ITables,
     LeftOK, TablesTypeOK, NoJob
<1>4. OneOK'
  BY DEF ClosePayment, SelectOnPage, backend, selected, billing, ITables, OneOK, Panel,
     Mounted, Visible, Group, IsSplit, PayOrder, SelectedOrder, TablesTypeOK
<1>5. BillOK'
  BY <1>r
<1>6. CompletedWereBilled'
  BY DEF ClosePayment, SelectOnPage, backend, selected, billing, ITables,
     CompletedWereBilled
<1> QED
  BY <1>1, <1>2, <1>3, <1>4, <1>5, <1>6 DEF ITables

LEMMA PaymentSuccessStep ==
  ASSUME ITables, NEW j \in Job, PaymentSuccess(j)
  PROVE  ITables'
<1>t. ITables /\ TablesTypeOK /\ BillOK
  BY DEF ITables
<1> USE <1>t, TableAssumption, TableOfAssumption
<1>r. BillOK' /\ charged' \in SUBSET Order /\ bill' \in SUBSET Order
  <2>1. Remount /\ shown' \subseteq Order
    BY DEF PaymentSuccess, TablesTypeOK, selected
  <2>2. PayTotal' = PayTotal
    BY SameTotal DEF PaymentSuccess, selected
  <2> QED
    BY <2>1, <2>2, Remounted
<1> DEFINE one == IsSplit /\ SelectedOrder # {}
           s   == IF one THEN SelectedOrder ELSE Group
<1>s. s \subseteq shown /\ s \subseteq Order
  BY OrdersShown DEF Group
<1>c. LeftOK' /\ job' \in [Job -> JobType]
  <2>1. LeftOK /\ UNCHANGED backend
    BY DEF PaymentSuccess, ITables
  <2>2. CASE s = {}
    <3>1. job' = job
      BY <2>2 DEF PaymentSuccess
    <3> QED
      BY <2>1, <3>1 DEF LeftOK, TablesTypeOK, JobType, backend
  <2>3. CASE s # {}
    <3>1. Complete(j, IF one THEN "order" ELSE "table", s)
      BY <2>3 DEF PaymentSuccess
    <3> HIDE DEF s
    <3> QED
      BY <1>s, <2>1, <3>1, Completes
  <2> QED
    BY <2>2, <2>3
<1>e. /\ UNCHANGED <<backend, shown, reading, answer, table, order, split>>
      /\ paying' = FALSE
      /\ unpaid' = unpaid \cup (s \ charged) /\ unbilled' = unbilled \cup (s \ bill)
  BY DEF PaymentSuccess
<1>m. Mounted
  BY DEF PaymentSuccess
<1>b. s \subseteq bill
  <2>1. PayTotal \subseteq bill
    BY <1>m DEF BillOK
  <2>2. IsSplit => SelectedOrder # {}
    <3>1. SUFFICES ASSUME IsSplit PROVE order \in Group
      BY DEF SelectedOrder
    <3>2. paying /\ order # 0
      BY <1>m, <3>1 DEF Mounted, PayOrder
    <3> QED
      BY <3>1, <3>2 DEF ITables, OneOK
  <2>3. s = PayTotal
    BY <2>2 DEF PayTotal
  <2> QED
    BY <2>1, <2>3
<1> HIDE DEF s
<1>1. TablesTypeOK'
  BY <1>r, <1>c, <1>e, <1>s DEF backend, TablesTypeOK, JobType
<1>2. Numbered'
  BY DEF PaymentSuccess, backend, selected, billing, Complete, ITables, Numbered
<1>3. LeftOK'
  BY <1>c
<1>4. OneOK'
  BY DEF PaymentSuccess, backend, selected, billing, Complete, ITables, OneOK, Panel,
     Mounted, Visible, Group, IsSplit, PayOrder, SelectedOrder, TablesTypeOK
<1>5. BillOK'
  BY <1>r
<1>6. CompletedWereBilled'
  BY <1>e, <1>b DEF ITables, CompletedWereBilled
<1> QED
  BY <1>1, <1>2, <1>3, <1>4, <1>5, <1>6 DEF ITables

LEMMA ElsewhereStep ==
  ASSUME ITables, Elsewhere
  PROVE  ITables'
<1>t. ITables /\ TablesTypeOK /\ BillOK
  BY DEF ITables
<1> USE <1>t, TableAssumption, TableOfAssumption
<1>r. BillOK' /\ charged' \in SUBSET Order /\ bill' \in SUBSET Order
  <2>1. Remount /\ shown' \subseteq Order
    BY DEF Elsewhere, TablesTypeOK, selected
  <2>2. PayTotal' = PayTotal
    BY SameTotal DEF Elsewhere, selected
  <2> QED
    BY <2>1, <2>2, Remounted
<1> DEFINE next == Cardinality(active \cup ended) + 1
<1>p. PICK n \in Nat : active \cup ended = 1 .. n
  BY DEF ITables, Numbered
<1>n. active \cup ended = 1 .. n /\ next = n + 1
  <2>1. Cardinality(1 .. n) = n
    BY FS_Interval
  <2> QED
    BY <1>p, <2>1
<1>e. /\ UNCHANGED <<shown, reading, answer, selected, job, billing>>
      /\ \/ next \in Order /\ active' = active \cup {next} /\ UNCHANGED ended
         \/ \E o \in active : active' = active \ {o} /\ ended' = ended \cup {o}
  BY DEF Elsewhere
<1> HIDE DEF next
<1>a. next \notin active \cup ended
  BY <1>n
<1>1. TablesTypeOK'
  BY <1>r, <1>e, <1>a DEF selected, billing, TablesTypeOK
<1>2. Numbered'
  <2>1. CASE active' = active \cup {next} /\ UNCHANGED ended
    <3>1. (active \cup ended)' = 1 .. (n + 1)
      BY <1>n, <2>1
    <3> QED
      BY <3>1 DEF Numbered
  <2>2. CASE \E o \in active : active' = active \ {o} /\ ended' = ended \cup {o}
    <3>1. (active \cup ended)' = active \cup ended
      BY <2>2
    <3> QED
      BY <3>1 DEF ITables, Numbered
  <2> QED
    BY <1>e, <2>1, <2>2
<1>3. LeftOK'
  BY OrdersShown DEF Elsewhere, backend, selected, billing, ITables, LeftOK,
     TablesTypeOK, NoJob
<1>4. OneOK'
  BY DEF Elsewhere, backend, selected, billing, ITables, OneOK, Panel, Mounted, Visible,
     Group, IsSplit, PayOrder, SelectedOrder, TablesTypeOK
<1>5. BillOK'
  BY <1>r
<1>6. CompletedWereBilled'
  BY DEF Elsewhere, backend, selected, billing, ITables, CompletedWereBilled
<1> QED
  BY <1>1, <1>2, <1>3, <1>4, <1>5, <1>6 DEF ITables

LEMMA ChargesAreOfOrders == ITables => PayOrder \subseteq Order /\ PayTotal \subseteq Order
BY OrdersShown DEF ITables

LEMMA TablesNextStep ==
  ASSUME ITables, TablesNext
  PROVE  ITables'
<1>1. CASE Selecting
  BY <1>1, RefreshStep, CloseGroupStep, ToggleSplitStep, PayStep, ClosePaymentStep,
     ChargeStep,
     SelectTableStep, SelectOrderStep, ChargesAreOfOrders DEF Selecting
<1>2. CASE \E j \in Job : Completing(j)
  BY <1>2, CompleteTableStep, CompleteOrderStep, PaymentSuccessStep, ServeCompleteStep,
     CompletedStep, CompleteFailsStep DEF Completing
<1> QED
  BY <1>1, <1>2, ServeLoadStep, LoadedStep, ElsewhereStep DEF TablesNext

-----------------------------------------------------------------------------
(***************************************************************************)
(* Both                                                                    *)
(***************************************************************************)

IInv == IList /\ ITables

\* What has not begun is typed, and asks for nothing.
LEMMA ListBegins ==
  ASSUME NEW p \in Page \cup {None}, ListInit(p)
  PROVE  IList
<1> USE PageAssumption
<1> DEFINE w == [Idle EXCEPT !.kind = "load", !.at = "list"]
<1>1. /\ w \in CallType /\ w.kind = "load" /\ w.at = "list" /\ w.row = None
      /\ w.ver = 0 /\ \A x \in Row : w.data[x] = 0
  BY IdleIsACall DEF CallType, At, Kind
<1>2. /\ page = p /\ form = Closed /\ panel = None /\ secret = None /\ checking = None
      /\ list = [r \in Row |-> 0] /\ own = [r \in Row |-> 0]
      /\ loading = TRUE /\ saving = FALSE /\ late = {} /\ swapped = FALSE
      /\ overtaken = {} /\ doubtful = {} /\ made = {}
  BY DEF ListInit
<1>3. row \in [Row -> Version] /\ \A r \in Row : 0 <= row[r]
  BY GoneIsANumber DEF ListInit, Version
<1>4. call = [c \in Call |-> IF p # None /\ \A d \in Call : c <= d THEN w ELSE Idle]
  BY DEF ListInit
<1> HIDE DEF w
<1>5. /\ call \in [Call -> CallType]
      /\ \A c \in Call : /\ call[c].row = None /\ call[c].ver = 0
                         /\ \A x \in Row : call[c].data[x] = 0
                         /\ \/ /\ call[c].kind = "load" /\ call[c].at = "list"
                               /\ \A d \in Call : c <= d
                            \/ call[c].kind = "none" /\ call[c].at = "new"
  BY <1>1, <1>4, IdleIsACall
<1>6. ASSUME NEW c \in Call, NEW d \in Call, InUse(c), InUse(d) PROVE c = d
  <2>1. \A x \in Call : c <= x
    BY <1>5, <1>6 DEF InUse
  <2>2. \A x \in Call : d <= x
    BY <1>5, <1>6 DEF InUse
  <2>3. c <= d /\ d <= c /\ c \in Nat /\ d \in Nat
    BY <2>1, <2>2
  <2> QED
    BY <2>3
<1>a. ListTypeOK
  <2>1. list \in [Row -> Version] /\ own \in [Row -> Version] /\ \A r \in Row : list[r] <= row[r]
    BY <1>2, <1>3, GoneIsANumber DEF Version
  <2>2. form \in [mode : {"closed", "create", "edit"}, of : Row \cup {None},
  tries : SUBSET Call]
    BY <1>2 DEF Closed
  <2> QED
    BY <1>2, <1>3, <1>5, <2>1, <2>2 DEF ListTypeOK, CallType
<1>b. CallsOK
  BY <1>3, <1>5 DEF CallsOK
<1>c. FormOK
  BY <1>2, <1>5 DEF FormOK, Submits, Closed
<1>d. PanelOK
  BY <1>2, <1>5 DEF PanelOK, Closed
<1>e. KindsOK
  BY <1>2, <1>5 DEF KindsOK
<1>f. ReadersOK
  BY <1>2, <1>5, <1>6 DEF ReadersOK, Reads, InUse
<1>g. ShownOK
  BY <1>2, <1>5 DEF ShownOK
<1>h. OwnChangesShow
  BY <1>2 DEF OwnChangesShow
<1> QED
  BY <1>a, <1>b, <1>c, <1>d, <1>e, <1>f, <1>g, <1>h DEF IList, Types

LEMMA TablesBegin ==
  ASSUME NEW first \in {"sent", "off"}, TablesInit(first)
  PROVE  ITables
<1> USE TableAssumption
<1>1. /\ ended = {} /\ shown = {} /\ reading = first /\ answer = {}
      /\ table = NoTable /\ order = 0 /\ split = {} /\ paying = FALSE
      /\ charged = {} /\ bill = {} /\ unpaid = {} /\ unbilled = {}
      /\ job = [j \in Job |-> NoJob]
  BY DEF TablesInit
<1>2. \E n \in Nat : active = 1 .. n /\ active \subseteq Order
  <2>1. Cardinality(Order) \in Nat
    BY FS_CardinalityType
  <2>2. CASE first = "off"
    <3>1. active = 1 .. 0
      BY <2>2 DEF TablesInit
    <3> QED
      BY <3>1
  <2>3. CASE first = "sent"
    <3>1. PICK n \in Order \cup {0} : active = {o \in Order : o <= n}
      BY <2>3 DEF TablesInit
    <3>2. n \in Nat /\ n <= Cardinality(Order)
      BY <2>1
    <3>3. active = 1 .. n
      BY <2>1, <3>1, <3>2
    <3> QED
      BY <3>1, <3>2, <3>3
  <2> QED
    BY <2>2, <2>3
<1>3. TablesTypeOK
  BY <1>1, <1>2 DEF TablesTypeOK, NoJob
<1>4. Numbered /\ LeftOK /\ CompletedWereBilled
  BY <1>1, <1>2 DEF Numbered, LeftOK, NoJob, CompletedWereBilled
<1>5. OneOK /\ BillOK
  BY <1>1 DEF OneOK, BillOK, Mounted
<1> QED
  BY <1>3, <1>4, <1>5 DEF ITables

LEMMA Begins == Init => IInv
BY ListBegins, TablesBegin DEF Init, IInv

\* Staff's actions on whatever page is in use.
LEMMA EditsStep ==
  ASSUME IList, NEW c \in Call, page \in {"categories", "tables", "items"}, Edits(c)
  PROVE  IList'
BY OpenCreateStep, CancelFormStep, SubmitStep, OpenEditStep, DeleteStep DEF Edits

LEMMA EmployeesStep ==
  ASSUME IList, NEW c \in Call, EmployeeManagementPage(c)
  PROVE  IList'
<1>1. page = "employees"
  BY DEF EmployeeManagementPage
<1>2. panel # None => panel \in Row
  BY DEF IList, Types, ListTypeOK
<1> QED
  BY <1>1, <1>2, OpenCreateStep, CancelFormStep, SubmitStep, ClosePanelStep, OpenEditStep,
     SelectStep, AskForPanelStep DEF EmployeeManagementPage

LEMMA HistoryStep ==
  ASSUME IList, NEW c \in Call, TransactionHistoryPage(c)
  PROVE  IList'
BY LoadStep, ReverifyStep DEF TransactionHistoryPage

LEMMA AnswersStep ==
  ASSUME IList, NEW c \in Call, Answers(c)
  PROVE  IList'
BY ServeChangeStep, ServeListStep, ChangedStep, ListedStep, ReplacedStep, SelectedStep,
   PasswordResetStep, FailedStep DEF Answers

LEMMA ListKept == IList /\ UNCHANGED listVars => IList'
BY DEF IList, listVars, screen, calls, Types, ListTypeOK, CallsOK, FormOK, Submits, PanelOK,
       KindsOK, ReadersOK, Reads, InUse, ShownOK, Listing, PutsRows, OwnChangesShow

LEMMA TablesKept == ITables /\ UNCHANGED tablesVars => ITables'
BY DEF ITables, tablesVars, backend, selected, billing, TablesTypeOK, Numbered, LeftOK, OneOK,
       BillOK, Visible, Mounted, IsSplit, Group, PayTotal, PayOrder, SelectedOrder, First,
       CompletedWereBilled

LEMMA Invariance == IInv /\ [Next]_pageVars => IInv'
<1> SUFFICES ASSUME IInv, [Next]_pageVars
             PROVE  IInv'
  OBVIOUS
<1>1. IList /\ ITables
  BY DEF IInv
<1>2. CASE TablesNext /\ UNCHANGED listVars
  BY <1>1, <1>2, TablesNextStep, ListKept DEF IInv
<1>3. ASSUME NEW c \in Call, UNCHANGED tablesVars,
             \/ MenuManagementPage(c) \/ TableManagementPage(c) \/ MenuItemManagementPage(c)
             \/ EmployeeManagementPage(c) \/ TransactionHistoryPage(c) \/ Answers(c)
      PROVE  IInv'
  <2>1. ITables'
    BY <1>1, <1>3, TablesKept
  <2>2. MenuManagementPage(c) \/ TableManagementPage(c) \/ MenuItemManagementPage(c) =>
          Edits(c) /\ page \in {"categories", "tables", "items"}
    BY DEF MenuManagementPage, TableManagementPage, MenuItemManagementPage
  <2>3. IList'
    BY <1>1, <1>3, <2>2, EditsStep, EmployeesStep, HistoryStep, AnswersStep
  <2> QED
    BY <2>1, <2>3 DEF IInv
<1>4. CASE UNCHANGED pageVars
  <2>1. UNCHANGED listVars /\ UNCHANGED tablesVars
    BY <1>4 DEF pageVars
  <2> QED
    BY <1>1, <2>1, ListKept, TablesKept DEF IInv
<1> QED
  BY <1>2, <1>3, <1>4 DEF Next

LEMMA Inductive == Spec => []IInv
BY Begins, Invariance, PTL DEF Spec, pageVars

\* The state keeps its types on every page, and no page shows a version of a row
\* that the row never had.
THEOREM TypesHold == Spec => []TypeOK
<1>1. IInv => TypeOK
  BY DEF IInv, IList, Types, ITables, TypeOK
<1> QED
  BY <1>1, Inductive, PTL

\* When a handler has ended, the list shows the change it saw, or a newer one,
\* unless an older list arrived after a newer.
THEOREM OwnChangesAreShown == Spec => []OwnChangesShow
<1>1. IInv => OwnChangesShow
  BY DEF IInv, IList
<1> QED
  BY <1>1, Inductive, PTL

\* However often a form is submitted, it makes one row, unless a create failed
\* after its row was made.
THEOREM FormsMakeOneRow == Spec => []FormMakesOneRow
<1>1. IInv => FormMakesOneRow
  <2> SUFFICES ASSUME IInv, NEW c \in form.tries \cap made, NEW d \in form.tries \cap made
               PROVE  c = d \/ {c, d} \cap doubtful # {}
    BY DEF FormMakesOneRow
  <2>1. /\ c \in Call /\ d \in Call /\ FormOK /\ CallsOK
        /\ form.mode \in {"closed", "create", "edit"} /\ form.tries \subseteq Call
    BY DEF IInv, IList, Types, ListTypeOK
  <2>2. ASSUME NEW x \in form.tries \cap made, x \notin doubtful
        PROVE  call[x].kind = "create"
    <3>1. x \in Call /\ call[x].kind = form.mode
      BY <2>1, <2>2 DEF FormOK
    <3>2. call[x].at # "over"
      BY <2>1, <3>1 DEF CallsOK
    <3> QED
      BY <2>1, <3>1, <3>2 DEF FormOK
  <2>3. CASE c \notin doubtful /\ d \notin doubtful
    <3>1. Submits(c) /\ Submits(d)
      BY <2>2, <2>3 DEF Submits
    <3> QED
      BY <2>1, <3>1 DEF FormOK
  <2> QED
    BY <2>3
<1> QED
  BY <1>1, Inductive, PTL

\* No click of the staff parts the employee in the panel from the form that is open and
\* the password shown; only an answer to an earlier call does, which puts another
\* employee into the panel under them (EmployeeManagementPage.tsx:68,147,176,186).
THEOREM PanelsAreOneEmployees == Spec => []PanelIsOneEmployees
<1>1. IInv => PanelIsOneEmployees
  BY DEF IInv, IList, PanelOK, PanelIsOneEmployees
<1> QED
  BY <1>1, Inductive, PTL

\* A payment completes no order that was not in the total its dialog opened with.
THEOREM PaymentsCompleteWhatWasBilled == Spec => []CompletedWereBilled
<1>1. IInv => CompletedWereBilled
  BY DEF IInv, ITables
<1> QED
  BY <1>1, Inductive, PTL
====
