------------------------------ MODULE Settings -------------------------------
(***************************************************************************)
(* SettingsService and SettingsController (src/backend/src/settings) with  *)
(* the handlers that read settings. A handler takes its keys one by one:   *)
(* get is a SELECT, set a SELECT by key and a save, which is a SELECT by   *)
(* id and an UPDATE, or an INSERT. A key's value is the API key or the     *)
(* account it belongs to. A request is used once; a row is known by the    *)
(* request that inserted it. The bank's bin and the account's holder are   *)
(* left out: they are written, read and removed after the bank's name in   *)
(* the same way.                                                           *)
(***************************************************************************)
EXTENDS Naturals, Sequences

CONSTANTS
  Request, ApiKey, Account,
  EnvKey,      \* SEPAY_API_KEY, or None
  EnvAccount,  \* what SEPAY_ACCOUNT_NUMBER and SEPAY_BANK_NAME name, or None
  None

Garbled == "GARBLED"   \* an API key that cannot be decrypted
First   == "FIRST"     \* the id of the rows that were there at first

ASSUME ValueAssumption ==
  /\ EnvKey \in ApiKey \cup {None} /\ EnvAccount \in Account \cup {None}
  /\ None \notin ApiKey \cup Account \cup Request /\ First \notin Request \cup {None}
  /\ Garbled \notin ApiKey \cup Account \cup {None}
  /\ ApiKey \cap Account = {}

AccountKeys == <<"number", "bank">>
AllKeys     == <<"apiKey">> \o AccountKeys
Setting     == {"apiKey", "number", "bank"}
Value       == ApiKey \cup Account \cup {Garbled}

VARIABLES
  row,       \* the row of a key: its id (None: no row) and its value
  pc,        \* the call a request awaits
  req,       \* its operation and argument, the keys it has yet to treat, the
             \* id of the row it holds, and what it has read
  wanted,    \* history: what the writers asked for last
  suspect,   \* history: keys that overlapping or stopped writers left behind
  disturbed  \* history: requests that overlapped a writer of their keys

settingVars == <<row, pc, req, wanted, suspect, disturbed>>

Reads  == [qr |-> <<"number", "bank">>, config |-> AllKeys,
           status |-> <<"apiKey", "number">>, list |-> <<"apiKey">>]
Writes == [putKey |-> <<"apiKey">>, putAccount |-> AccountKeys, remove |-> AllKeys,
           putOne |-> <<"number">>]   \* PUT /settings, with this key for example

Op    == DOMAIN Reads \cup DOMAIN Writes
Keys(op) == LET s == IF op \in DOMAIN Reads THEN Reads[op] ELSE Writes[op]
            IN  {s[n] : n \in DOMAIN s}

Nothing == [k \in Setting |-> None]
Idle == [op |-> "none", arg |-> None, todo |-> <<>>, id |-> None, got |-> Nothing]
Ids  == Request \cup {First, None}

SettingsTypeOK ==
  /\ row \in [Setting -> [id : Ids, value : Value \cup {None}]]
  /\ \A k \in Setting : row[k].id = None <=> row[k].value = None
  /\ pc \in [Request -> {"new", "read", "find", "save", "update", "insert",
                         "delete", "sepay", "ok", "failed", "done"}]
  /\ \A r \in Request :
       /\ req[r].op \in Op \cup {"none"} /\ (req[r].op = "none" <=> pc[r] \in {"new", "done"})
       /\ req[r].arg \in Value \cup {None}
       /\ req[r].todo \in Seq(Setting) /\ req[r].id \in Ids
       /\ req[r].got \in [Setting -> Value \cup {None}]
       /\ pc[r] \in {"read", "find", "save", "update", "insert", "delete"} => req[r].todo # <<>>
  /\ wanted \in [Setting -> Value \cup {None}]
  /\ suspect \in SUBSET Setting /\ disturbed \in SUBSET Request

\* Nothing is configured yet, or a key and an account are.
SettingsInit ==
  /\ \E k \in ApiKey, a \in Account :
       row \in {[s \in Setting |-> [id |-> None, value |-> None]],
                [s \in Setting |-> [id |-> First, value |-> IF s = "apiKey" THEN k ELSE a]]}
  /\ wanted = [s \in Setting |-> row[s].value]
  /\ pc = [r \in Request |-> "new"] /\ req = [r \in Request |-> Idle]
  /\ suspect = {} /\ disturbed = {}

-----------------------------------------------------------------------------

Goto(r, to) == pc' = [pc EXCEPT ![r] = to]

Running(r) == pc[r] \notin {"new", "ok", "failed", "done"}
Writing(r) == Running(r) /\ req[r].op \in DOMAIN Writes

\* The key a request is at, and the row it finds there.
At(r)   == Head(req[r].todo)
Mine(r) == row[At(r)].id = req[r].id

\* The writer goes on to its next key.
Advance(r, here) ==
  /\ Goto(r, IF Len(req[r].todo) > 1 THEN here ELSE "ok")
  /\ req' = [req EXCEPT ![r].todo = Tail(@), ![r].id = None]

\* A writer has done its last key. What it wrote is what is wanted, unless
\* another writer of its keys was at work.
Settled(r) ==
  IF Len(req[r].todo) > 1 THEN UNCHANGED <<wanted, suspect, disturbed>>
  ELSE /\ disturbed' = disturbed \ {r}
       /\ IF r \in disturbed
            THEN suspect' = suspect \cup Keys(req[r].op) /\ UNCHANGED wanted
            ELSE /\ suspect' = suspect \ Keys(req[r].op)
                 /\ wanted' = [k \in Setting |->
                      IF k \in Keys(req[r].op) THEN req[r].arg ELSE wanted[k]]

\* A request arrives. A reader is disturbed by suspect keys, too.
Ask(r, op, arg) ==
  LET others == {q \in Request : Running(q) /\ Keys(req[q].op) \cap Keys(op) # {}}
      write  == op \in DOMAIN Writes
      hit    == {q \in others : write \/ Writing(q)}
  IN  /\ pc[r] = "new"
      /\ req' = [req EXCEPT ![r] = [Idle EXCEPT !.op = op, !.arg = arg,
                   !.todo = IF write THEN Writes[op] ELSE Reads[op]]]
      /\ Goto(r, IF ~write THEN "read" ELSE IF op = "remove" THEN "delete" ELSE "find")
      /\ disturbed' = (disturbed \ {r})
           \cup (IF write THEN hit ELSE {})
           \cup (IF \/ \E q \in hit : Writing(q)
                    \/ ~write /\ Keys(op) \cap suspect # {} THEN {r} ELSE {})
      /\ UNCHANGED <<row, wanted, suspect>>

-----------------------------------------------------------------------------
(***************************************************************************)
(* Readers                                                                 *)
(***************************************************************************)

Env(k) == IF k = "apiKey" THEN EnvKey ELSE EnvAccount

\* Variant: the environment goes first.
ReadEnvFirst(r, fails) ==
  LET k == At(r)
      v == IF Env(k) # None THEN Env(k) ELSE row[k].value
  IN  /\ pc[r] = "read"
      /\ Goto(r, IF Len(req[r].todo) > 1 THEN "read" ELSE "ok")
      /\ req' = [req EXCEPT ![r].todo = Tail(@), ![r].got[k] = v]
      /\ UNCHANGED <<row, wanted, suspect, disturbed>>

\* get, whose query may fail: then, too, the environment answers. `status` and
\* `list` ask SePay next, when they have what they need for it.
Read(r, fails) ==
  LET k   == At(r)
      v   == IF row[k].id # None /\ ~fails THEN row[k].value ELSE Env(k)
      got == [req[r].got EXCEPT ![k] = v]
      end == IF req[r].op \in {"qr", "config"} THEN "ok"
             ELSE IF \A x \in Keys(req[r].op) : got[x] # None THEN "sepay"
             ELSE IF req[r].op = "status" THEN "ok" ELSE "failed"
  IN  /\ pc[r] = "read"
      /\ Goto(r, IF Len(req[r].todo) > 1 THEN "read" ELSE end)
      /\ req' = [req EXCEPT ![r].todo = Tail(@), ![r].got = got]
      /\ disturbed' = IF fails THEN disturbed \cup {r} ELSE disturbed
      /\ UNCHANGED <<row, wanted, suspect>>

\* The list of bank accounts; a wrong key or SePay itself may fail it. To
\* `status` that is an answer, too.
Sepay(r, answers) ==
  /\ pc[r] = "sepay"
  /\ Goto(r, IF req[r].op = "status" \/ (answers /\ req[r].got["apiKey"] \in ApiKey)
               THEN "ok" ELSE "failed")
  /\ UNCHANGED <<row, req, wanted, suspect, disturbed>>

-----------------------------------------------------------------------------
(***************************************************************************)
(* Writers                                                                 *)
(***************************************************************************)

\* set: findOne by key. Without a row save does not look again.
Find(r) ==
  /\ pc[r] = "find"
  /\ req' = [req EXCEPT ![r].id = row[At(r)].id]
  /\ Goto(r, IF row[At(r)].id = None THEN "insert" ELSE "save")
  /\ UNCHANGED <<row, wanted, suspect, disturbed>>

\* Variant: a setting that is there is left as it is.
ReloadOnly(r) ==
  /\ pc[r] = "save"
  /\ IF Mine(r) THEN Advance(r, "find") /\ Settled(r)
     ELSE Goto(r, "insert") /\ UNCHANGED <<req, wanted, suspect, disturbed>>
  /\ UNCHANGED row

\* save: SELECT by id. An encrypted value always differs.
Reload(r) ==
  /\ pc[r] = "save"
  /\ IF Mine(r) /\ At(r) # "apiKey" /\ row[At(r)].value = req[r].arg
       THEN Advance(r, "find") /\ Settled(r)
       ELSE /\ Goto(r, IF Mine(r) THEN "update" ELSE "insert")
            /\ UNCHANGED <<req, wanted, suspect, disturbed>>
  /\ UNCHANGED row

\* Variant: the UPDATE does not ask whether the row is still there.
UpdateAnyway(r) ==
  /\ pc[r] = "update"
  /\ row' = [row EXCEPT ![At(r)].value = req[r].arg]
  /\ Advance(r, "find") /\ Settled(r)

\* A row that is gone is not updated.
Update(r) ==
  /\ pc[r] = "update"
  /\ row' = [row EXCEPT ![At(r)].value = IF Mine(r) THEN req[r].arg ELSE @]
  /\ Advance(r, "find") /\ Settled(r)

\* The key is unique: another row makes the INSERT, and the request, fail.
Insert(r) ==
  LET fail == /\ Goto(r, "failed")
               /\ req' = [req EXCEPT ![r].id = None]
               /\ suspect' = suspect \cup Keys(req[r].op)
               /\ disturbed' = disturbed \ {r}
               /\ UNCHANGED <<row, wanted>>
  IN  /\ pc[r] = "insert"
      /\ IF row[At(r)].id # None THEN fail
         ELSE /\ row' = [row EXCEPT ![At(r)] = [value |-> req[r].arg,
                           id |-> IF req[r].id = None THEN r ELSE req[r].id]]
              /\ Advance(r, "find") /\ Settled(r)

Delete(r) ==
  /\ pc[r] = "delete"
  /\ row' = [row EXCEPT ![At(r)] = [id |-> None, value |-> None]]
  /\ Advance(r, "delete") /\ Settled(r)

-----------------------------------------------------------------------------

\* A call of the database fails a writer. (A reader's is in Read.)
Stop(r) ==
  /\ Writing(r)
  /\ Goto(r, "failed")
  /\ req' = [req EXCEPT ![r].id = None]
  /\ suspect' = suspect \cup Keys(req[r].op)
  /\ disturbed' = disturbed \ {r}
  /\ UNCHANGED <<row, wanted>>

\* The process restarts with another secret: what was encrypted with the old
\* one cannot be read. (A restart with the same one stops the writers.)
Restart ==
  /\ row' = IF row["apiKey"].id = None THEN row
            ELSE [row EXCEPT !["apiKey"].value = Garbled]
  /\ wanted' = IF wanted["apiKey"] = None THEN wanted
               ELSE [wanted EXCEPT !["apiKey"] = Garbled]
  /\ suspect' = suspect \cup UNION {Keys(req[r].op) : r \in {q \in Request : Writing(q)}}
  /\ pc' = [r \in Request |-> IF Running(r) THEN "failed" ELSE pc[r]]
  /\ req' = [r \in Request |-> [req[r] EXCEPT !.id = None]]
  /\ disturbed' = {}

Proceed(r) ==
  \/ \E fails \in BOOLEAN : Read(r, fails)
  \/ \E answers \in BOOLEAN : Sepay(r, answers)
  \/ Find(r) \/ Reload(r) \/ Update(r) \/ Insert(r) \/ Delete(r) \/ Stop(r)
=============================================================================
