---------------------------- MODULE SettingsPage -----------------------------
(***************************************************************************)
(* The SePay part of SettingsPage (src/frontend/src/pages) over Settings.  *)
(* `first` is the request of the load a mount starts, `call` the one the   *)
(* handler that set sepayLoading awaits. A load asks for the configuration *)
(* and the status at once (Promise.all); the status only colours a lamp,   *)
(* so a load is one request here, which also fails when the status does.   *)
(***************************************************************************)
EXTENDS Settings, FiniteSets

CONSTANTS
  Owner,       \* the key under which SePay lists an account
  ClientCalls  \* bound: requests of other clients than the page

ASSUME OwnerAssumption == Owner \in [Account -> ApiKey]

VARIABLES
  first, call,       \* requests awaited, or None
  loading,           \* sepayLoading
  config,            \* sepayConfig: the key it shows, None, or not loaded yet
  accounts, chosen,  \* accounts (those of a key, or None), selectedAccount
  changing,          \* changingApiKey
  causes             \* history: how key and account may have come apart

page == <<first, call, loading, config, accounts, chosen, changing>>
vars == <<settingVars, page, causes>>

NotLoaded == "NOT LOADED"

ASSUME NotLoadedAssumption == NotLoaded \notin Value \cup {None}

Cause == {"other", "blind", "left", "failed", "fallback"}

TypeOK ==
  /\ SettingsTypeOK
  /\ first \in Request \cup {None} /\ call \in Request \cup {None}
  /\ loading = (call # None)
  /\ \A r \in {first, call} \ {None} : pc[r] \notin {"new", "done"}
  /\ config \in Value \cup {None, NotLoaded}
  /\ accounts \in ApiKey \cup {None} /\ chosen \in Account \cup {None}
  /\ changing \in BOOLEAN
  /\ causes \in SUBSET Cause

Init ==
  /\ SettingsInit
  /\ row["number"].value # None => Owner[row["number"].value] = row["apiKey"].value
  /\ first = None /\ call = None /\ loading = FALSE
  /\ config = NotLoaded /\ accounts = None /\ chosen = None /\ changing = FALSE
  /\ causes \in {{}, {"other"}}

-----------------------------------------------------------------------------

\* The form for a key is there, or else the key that is set: the stored one or the
\* environment's.
KeyForm == config \in {None, NotLoaded} \/ changing

Listed == {a \in Account : Owner[a] = accounts}

\* A handler starts: it asks the server and disables the buttons.
Start(r, op, arg) ==
  /\ ~loading /\ loading' = TRUE
  /\ call' = r /\ Ask(r, op, arg)

\* The page is opened, or opened again after another page; what it had asked
\* for goes on without it.
Mount(r) ==
  /\ Ask(r, "config", None)
  /\ first' = r /\ call' = None /\ loading' = FALSE
  /\ config' = NotLoaded /\ accounts' = None /\ chosen' = None /\ changing' = FALSE
  /\ causes' = causes \cup (IF call # None THEN {"left"} ELSE {})

SaveKey(r, k) ==
  /\ KeyForm
  /\ Start(r, "putKey", k)
  /\ causes' = causes \cup
       (IF /\ config \in {None, NotLoaded}
           /\ row["apiKey"].id # None \/ EnvKey # None
          THEN {"blind"} ELSE {})
  /\ UNCHANGED <<first, config, accounts, chosen, changing>>

\* Variant: the form is opened and the old key is left for the new one to replace.
ChangeKeyLater(r) ==
  /\ ~KeyForm /\ ~loading
  /\ changing' = TRUE
  /\ UNCHANGED <<settingVars, first, call, loading, config, accounts, chosen, causes>>

ChangeKey(r) ==
  /\ ~KeyForm
  /\ Start(r, "remove", None)
  /\ UNCHANGED <<first, config, accounts, chosen, changing, causes>>

FetchAccounts(r) ==
  /\ ~KeyForm
  /\ Start(r, "list", None)
  /\ UNCHANGED <<first, config, accounts, chosen, changing, causes>>

\* The account must be among those that are listed.
SaveAccount(r) ==
  /\ ~KeyForm /\ chosen \in Listed
  /\ Start(r, "putAccount", chosen)
  /\ UNCHANGED <<first, config, accounts, chosen, changing, causes>>

\* What needs no request: the choice, and the two Cancel buttons, which are
\* never disabled.
Choose(a) ==
  /\ ~KeyForm /\ a \in Listed
  /\ chosen' = a
  /\ UNCHANGED <<settingVars, first, call, loading, config, accounts, changing, causes>>

CancelAccounts ==
  /\ ~KeyForm /\ Listed # {}
  /\ accounts' = None
  /\ UNCHANGED <<settingVars, first, call, loading, config, chosen, changing, causes>>

CancelChange ==
  /\ changing /\ config \notin {None, NotLoaded}
  /\ changing' = FALSE
  /\ UNCHANGED <<settingVars, first, call, loading, config, accounts, chosen, causes>>

-----------------------------------------------------------------------------

Finish(r) ==
  /\ Goto(r, "done") /\ req' = [req EXCEPT ![r] = Idle]
  /\ disturbed' = disturbed \ {r}
  /\ UNCHANGED <<row, wanted, suspect>>

Show(r) == config' = req[r].got["apiKey"]

\* The answer to the first load, whenever it comes. A failed one shows nothing.
Loaded(r) ==
  /\ r = first /\ pc[r] \in {"ok", "failed"}
  /\ \/ pc[r] = "ok" /\ Show(r)
     \/ UNCHANGED config
  /\ first' = None
  /\ Finish(r)
  /\ UNCHANGED <<call, loading, accounts, chosen, changing, causes>>

\* A handler ends: it failed, its answer was lost, or it has loaded the
\* configuration again, or tried to.
Ended(r) ==
  /\ r = call /\ pc[r] \in {"ok", "failed"}
  /\ call' = None /\ loading' = FALSE
  /\ \/ /\ req[r].op = "config" /\ pc[r] = "ok" /\ Show(r)
        /\ UNCHANGED causes
     \/ /\ UNCHANGED config
        /\ causes' = causes \cup {"failed"}
  /\ Finish(r)
  /\ UNCHANGED <<first, accounts, chosen, changing>>

\* handleFetchAccounts has the list and chooses its first account.
ListAnswer(r) ==
  /\ r = call /\ pc[r] = "ok" /\ req[r].op = "list"
  /\ accounts' = req[r].got["apiKey"]
  /\ IF \E a \in Account : Owner[a] = accounts'
       THEN \E a \in Account : Owner[a] = accounts' /\ chosen' = a
       ELSE UNCHANGED chosen
  /\ call' = None /\ loading' = FALSE
  /\ Finish(r)
  /\ UNCHANGED <<first, config, changing, causes>>

\* The other handlers load the configuration again, with a new request.
WriteAnswer(r) ==
  /\ r = call /\ pc[r] = "ok" /\ req[r].op \in DOMAIN Writes
  /\ changing' = IF req[r].op = "putAccount" THEN changing ELSE req[r].op = "remove"
  /\ IF req[r].op = "remove" THEN accounts' = None /\ chosen' = None
     ELSE UNCHANGED <<accounts, chosen>>
  /\ pc' = [pc EXCEPT ![r] = "read"]
  /\ req' = [req EXCEPT ![r] = [Idle EXCEPT !.op = "config", !.todo = AllKeys]]
  /\ disturbed' = (disturbed \ {r}) \cup
       (IF suspect # {} \/ \E q \in Request : Writing(q) THEN {r} ELSE {})
  /\ UNCHANGED <<row, wanted, suspect, first, call, loading, config, causes>>

-----------------------------------------------------------------------------

\* "other": other clients ask for anything, in any order: a payment or a poll reads, a
\* second manager writes.
Client(r) ==
  /\ "other" \in causes /\ Cardinality({q \in Request : pc[q] # "new"}) < ClientCalls
  /\ \/ \E op \in {"qr", "status"} : Ask(r, op, None)
     \/ \E k \in ApiKey : Ask(r, "putKey", k)
     \/ \E a \in Account, op \in {"putAccount", "putOne"} : Ask(r, op, a)
     \/ Ask(r, "remove", None)
  /\ UNCHANGED <<page, causes>>

\* A call of the server goes on. The list the page waits for is another key's
\* when the query of the stored key fails and the environment's answers.
Server(r) ==
  /\ Proceed(r) /\ UNCHANGED page
  /\ causes' = causes \cup
       (IF /\ r = call /\ req[r].op = "list" /\ pc[r] = "read" /\ pc'[r] = "sepay"
           /\ row["apiKey"].id # None /\ req'[r].got["apiKey"] # row["apiKey"].value
          THEN {"fallback"} ELSE {})

\* An answer nobody waits for.
Forget(r) ==
  /\ r \notin {first, call} /\ pc[r] \in {"ok", "failed"}
  /\ Finish(r) /\ UNCHANGED <<page, causes>>

\* A bound: the page is followed until key and account may have come apart,
\* and alone; what its requests do among others' is what theirs do.
Page(r) ==
  /\ causes = {}
  /\ \/ Mount(r) \/ (\E k \in ApiKey : SaveKey(r, k)) \/ ChangeKey(r)
     \/ FetchAccounts(r) \/ SaveAccount(r)
     \/ Loaded(r) \/ Ended(r) \/ ListAnswer(r) \/ WriteAnswer(r)

Next ==
  \/ \E r \in Request :
       \/ Page(r) \/ Client(r) \/ Forget(r)
       \/ Server(r)
  \/ (\E a \in Account : Choose(a)) \/ CancelAccounts \/ CancelChange
  \/ Restart /\ UNCHANGED <<page, causes>>

Spec == Init /\ [][Next]_vars

-----------------------------------------------------------------------------
(***************************************************************************)
(* Properties                                                              *)
(***************************************************************************)

\* Each key has the value of the last request that wrote it, and so the four
\* keys of an account belong together, whenever none of its writers is at work:
\* unless the last ones overlapped or stopped (settings.controller.ts:124-131).
SettingsAreLastWritten ==
  \A k \in Setting :
    \/ k \in suspect
    \/ \E r \in Request : Writing(r) /\ k \in Keys(req[r].op)
    \/ row[k].value = wanted[k]

\* A handler that reads several keys gets what was written last of each, or the
\* environment's value for what was removed, with which `list` and `status` go
\* on to SePay as with a stored one, unless a writer of one of them ran meanwhile,
\* one of its queries failed or suspect keys were there
\* (settings.service.ts:91-109).
ReadsFollowWrites ==
  [][\A r \in Request :
       pc[r] = "read" /\ pc'[r] \in {"ok", "sepay"} /\ r \notin disturbed' =>
         \A k \in Keys(req[r].op) :
           req'[r].got[k] = IF wanted[k] = None THEN Env(k) ELSE wanted[k]]_vars

\* The stored account is one SePay lists for the stored key: changing the key on
\* the page removes the account first, also when the environment has a key with
\* which the page lists and stores accounts meanwhile. Unless a key was saved while
\* the page did not know that there is one, stored or the environment's, the
\* page was left while it waited, a request failed, or a list was made with the
\* environment's key because the stored one could not be read
\* (settings.service.ts:93-106, SettingsPage.tsx:92-176).
AccountBelongsToKey ==
  \/ causes # {} \/ suspect # {}
  \/ \E r \in Request : Writing(r)
  \/ row["apiKey"].value \notin ApiKey \/ row["number"].value = None
  \/ Owner[row["number"].value] = row["apiKey"].value
=============================================================================
