---------------------------- MODULE Transactions ----------------------------
(***************************************************************************)
(* The transaction log and its copy: TransactionsService, ImmudbService,   *)
(* SePayService and the reverify route (src/backend/src/transactions).     *)
(*                                                                         *)
(* A transaction is logged by one request, which is known by the id MySQL  *)
(* gives it: INSERT the row, set two immudb keys, save the row with        *)
(* immudb's id. A reverification is a request of its own. A save is a      *)
(* SELECT (Reload) and an UPDATE of the columns that differed, whichever   *)
(* request wrote them. A save whose SELECT finds no row inserts it again,  *)
(* which the keys refuse unless order and payment are back. Amounts and    *)
(* types are left out.                                                     *)
(***************************************************************************)
EXTENDS Naturals, FiniteSets, FiniteSetsExt

CONSTANTS
  Tx,      \* transactions
  Verify,  \* reverify requests
  SepayId, \* ids SePay answers with
  ScanCap, \* entries a scan of immudb returns at most (2500 in the code)
  None

ASSUME TxAssumption == None \notin Tx /\ None \notin SepayId
ASSUME TxIsFinite == IsFiniteSet(Tx)

VARIABLES
  rows,        \* ids of the transactions rows
  kept,        \* transactions whose order and payment are stored
  sepayId, auditId, reverified,  \* their columns; auditId and reverified say
                                 \* whether immudb_tx_id and reverified_at are set
  verifiedAt,  \* when it was verified: 1, 2, ...; 0 is not yet
  logged,      \* the SePay id a transaction was logged with
  txnKeys,     \* immudb's keys txn:<id> ...
  orderKeys,   \* ... and order:<order>:<id>
  connected,   \* ImmudbService.connected
  coded,       \* transactions with a payment code
  logPc, plan, \* of a log request: next call, what its save found different
  pc, req,     \* of a reverify: next call, what it holds
  answered,    \* history: the id found by the last reverification stored
  crossed,     \* history: what went wrong with a row
  wiped        \* history: ids whose immudb keys were lost

row    == <<rows, kept, sepayId, auditId, reverified>>
immudb == <<txnKeys, orderKeys, connected, wiped>>
work   == <<logPc, plan, pc, req>>
past   == <<answered, crossed>>
vars   == <<row, verifiedAt, logged, immudb, coded, work, past>>

Column == {"sepayId", "auditId", "reverified"}
Diff   == Column \cup {"row"}  \* what a save writes: columns, or the row
Cause  == {"log over reverify", "reverify over reverify", "reverify over log", "stopped"}

Req  == [tx : Tx \cup {None}, id : SepayId \cup {None},
         audit : BOOLEAN,  \* immudbTxId of the entity it saves
         diff : SUBSET Diff]
Idle == [tx |-> None, id |-> None, audit |-> FALSE, diff |-> {}]

TypeOK ==
  /\ rows \in SUBSET Tx /\ kept \in SUBSET Tx /\ coded \in SUBSET Tx
  /\ txnKeys \in SUBSET Tx /\ orderKeys \in SUBSET Tx /\ wiped \in SUBSET Tx
  /\ sepayId \in [Tx -> SepayId \cup {None}] /\ logged \in [Tx -> SepayId \cup {None}]
  /\ auditId \in [Tx -> BOOLEAN] /\ reverified \in [Tx -> BOOLEAN]
  /\ verifiedAt \in [Tx -> Nat]
  /\ connected \in BOOLEAN
  /\ logPc \in [Tx -> {"new", "insert", "txnKey", "orderKey", "save", "write", "done"}]
  /\ plan \in [Tx -> SUBSET Diff]
  /\ pc \in [Verify -> {"new", "sepay", "row", "save", "write", "done"}]
  /\ req \in [Verify -> Req]
  /\ \A r \in Verify : pc[r] \in {"new", "done"} <=> req[r].tx = None
  /\ answered \in [Tx -> SepayId \cup {None}]
  /\ crossed \in [Tx -> SUBSET Cause]

Init ==
  /\ rows = {} /\ kept = Tx /\ txnKeys = {} /\ orderKeys = {} /\ wiped = {}
  /\ sepayId = [t \in Tx |-> None] /\ logged = sepayId /\ answered = sepayId
  /\ auditId = [t \in Tx |-> FALSE] /\ reverified = auditId
  /\ verifiedAt = [t \in Tx |-> 0]
  /\ coded \in SUBSET Tx
  /\ connected \in BOOLEAN
  /\ logPc = [t \in Tx |-> "new"] /\ plan = [t \in Tx |-> {}]
  /\ pc = [r \in Verify |-> "new"] /\ req = [r \in Verify |-> Idle]
  /\ crossed = [t \in Tx |-> {}]

-----------------------------------------------------------------------------

LogGoes(t, to) == logPc' = [logPc EXCEPT ![t] = to]
Goto(r, to)    == pc' = [pc EXCEPT ![r] = to]
Finish(r)      == Goto(r, "done") /\ req' = [req EXCEPT ![r] = Idle]

Now == Cardinality({t \in Tx : verifiedAt[t] > 0})

Blame(t, why) == crossed' = [crossed EXCEPT ![t] = @ \cup why]

-----------------------------------------------------------------------------
(***************************************************************************)
(* logTransaction                                                          *)
(***************************************************************************)

LogStart(t) ==
  /\ logPc[t] = "new"
  /\ verifiedAt' = [verifiedAt EXCEPT ![t] = Now + 1]
  /\ LogGoes(t, "insert")
  /\ UNCHANGED <<row, logged, immudb, coded, plan, pc, req, past>>

\* x is the SePay id the payment was verified with, if any.
LogInsert(t, x) ==
  /\ logPc[t] = "insert" /\ t \in kept
  /\ rows' = rows \cup {t}
  /\ sepayId' = [sepayId EXCEPT ![t] = x] /\ logged' = [logged EXCEPT ![t] = x]
  /\ LogGoes(t, IF connected THEN "txnKey" ELSE "done")
  /\ UNCHANGED <<kept, auditId, reverified, verifiedAt, immudb, coded, plan, pc, req, past>>

\* Variant: the id is stored after the first key.
LogTxnKeyOnly(t) ==
  /\ logPc[t] = "txnKey"
  /\ txnKeys' = txnKeys \cup {t}
  /\ LogGoes(t, "save")
  /\ UNCHANGED <<row, verifiedAt, logged, orderKeys, connected, wiped, coded, plan, pc, req, past>>

LogTxnKey(t) ==
  /\ logPc[t] = "txnKey"
  /\ txnKeys' = txnKeys \cup {t}
  /\ LogGoes(t, "orderKey")
  /\ UNCHANGED <<row, verifiedAt, logged, orderKeys, connected, wiped, coded, plan, pc, req, past>>

LogOrderKey(t) ==
  /\ logPc[t] = "orderKey"
  /\ orderKeys' = orderKeys \cup {t}
  /\ LogGoes(t, "save")
  /\ UNCHANGED <<row, verifiedAt, logged, txnKeys, connected, wiped, coded, plan, pc, req, past>>

\* Variant: the entity is saved before immudb's id is put into it.
LogReloadEarly(t) ==
  /\ logPc[t] = "save"
  /\ plan' = [plan EXCEPT ![t] = IF t \in rows /\ reverified[t] THEN {"reverified"} ELSE {}]
  /\ LogGoes(t, "write")
  /\ UNCHANGED <<row, verifiedAt, logged, immudb, coded, pc, req, past>>

\* save(saved), SELECT: the entity has immudb's id, the SePay id it was
\* inserted with and no reverification.
LogReload(t) ==
  LET diff == {"auditId"} \cup {c \in {"sepayId", "reverified"} :
                 \/ c = "sepayId" /\ sepayId[t] # logged[t]
                 \/ c = "reverified" /\ reverified[t]}
  IN  /\ logPc[t] = "save"
      /\ plan' = [plan EXCEPT ![t] = IF t \in rows THEN diff ELSE {"row"}]
      /\ LogGoes(t, "write")
      /\ UNCHANGED <<row, verifiedAt, logged, immudb, coded, pc, req, past>>

\* ... and the UPDATE, which changes nothing when the row is gone by then.
LogWrite(t) ==
  LET writes(c) == t \in rows /\ c \in plan[t]
  IN  /\ logPc[t] = "write" /\ "row" \notin plan[t]
      /\ auditId' = [auditId EXCEPT ![t] = @ \/ writes("auditId")]
      /\ sepayId' = [sepayId EXCEPT ![t] = IF writes("sepayId") THEN logged[t] ELSE @]
      /\ reverified' = [reverified EXCEPT ![t] = @ /\ ~writes("reverified")]
      /\ Blame(t, IF writes("reverified") \/ writes("sepayId")
                    THEN {"log over reverify"} ELSE {})
      /\ LogGoes(t, "done")
      /\ plan' = [plan EXCEPT ![t] = {}]
      /\ UNCHANGED <<rows, kept, verifiedAt, logged, immudb, coded, pc, req, answered>>

\* The row is inserted again if it can be, as it was logged.
LogReinsert(t) ==
  /\ logPc[t] = "write" /\ "row" \in plan[t]
  /\ t \in kept /\ t \notin rows
  /\ rows' = rows \cup {t}
  /\ auditId' = [auditId EXCEPT ![t] = TRUE]
  /\ sepayId' = [sepayId EXCEPT ![t] = logged[t]]
  /\ reverified' = [reverified EXCEPT ![t] = FALSE]
  /\ Blame(t, {"log over reverify"})
  /\ LogGoes(t, "done")
  /\ plan' = [plan EXCEPT ![t] = {}]
  /\ UNCHANGED <<kept, verifiedAt, logged, immudb, coded, pc, req, answered>>

\* MySQL or immudb refuses, at any call: logTransaction swallows it.
LogFails(t) ==
  /\ logPc[t] \in {"insert", "txnKey", "orderKey", "save", "write"}
  /\ Blame(t, {"stopped"})
  /\ LogGoes(t, "done")
  /\ plan' = [plan EXCEPT ![t] = {}]
  /\ UNCHANGED <<row, verifiedAt, logged, immudb, coded, pc, req, answered>>

-----------------------------------------------------------------------------
(***************************************************************************)
(* findById, and the reverify route                                        *)
(***************************************************************************)

\* getTransaction: the key, if immudb can be asked.
InImmudb(t) == connected /\ t \in txnKeys

Found(t) == t \in rows \/ InImmudb(t)

\* findById; a transaction without a payment code cannot be reverified.
VerifyFind(r, t) ==
  /\ pc[r] = "new" /\ Found(t) /\ t \in coded
  /\ req' = [req EXCEPT ![r].tx = t]
  /\ Goto(r, "sepay")
  /\ UNCHANGED <<row, verifiedAt, logged, immudb, coded, logPc, plan, past>>

\* findTransactionByCode: SePay's match is x.
SepayMatches(r, x) ==
  /\ pc[r] = "sepay"
  /\ req' = [req EXCEPT ![r].id = x]
  /\ Goto(r, "row")
  /\ UNCHANGED <<row, verifiedAt, logged, immudb, coded, logPc, plan, past>>

\* updateReverified: findById once more, then the row. What only immudb has is
\* answered and not stored. Between the two reads nothing matters: what one of
\* them misses is in MySQL for neither.
VerifyFindRow(r) ==
  LET t == req[r].tx
  IN  /\ pc[r] = "row"
      /\ IF t \in rows THEN req' = [req EXCEPT ![r].audit = auditId[t]] /\ Goto(r, "save")
         ELSE Finish(r)
      /\ UNCHANGED <<row, verifiedAt, logged, immudb, coded, logPc, plan, past>>

\* save(existing), SELECT. The time of the reverification is always new.
VerifyReload(r) ==
  LET t == req[r].tx
      diff == {"reverified"} \cup {c \in {"sepayId", "auditId"} :
                 \/ c = "sepayId" /\ sepayId[t] # req[r].id
                 \/ c = "auditId" /\ auditId[t] # req[r].audit}
  IN  /\ pc[r] = "save"
      /\ req' = [req EXCEPT ![r].diff = IF t \in rows THEN diff ELSE {"row"}]
      /\ Goto(r, "write")
      /\ UNCHANGED <<row, verifiedAt, logged, immudb, coded, logPc, plan, past>>

\* Another reverification that found another id has already compared the row and
\* will not write its id.
Crosses(r) ==
  \E q \in Verify \ {r} :
    /\ pc[q] = "write" /\ req[q].tx = req[r].tx
    /\ req[q].id # req[r].id /\ req[q].diff \cap {"sepayId", "row"} = {}

\* r has stored a reverification of t. Its answer is the id it found; what had
\* gone wrong with an earlier answer no longer matters.
Answers(r, t, why) ==
  /\ answered' = [answered EXCEPT ![t] = req[r].id]
  /\ crossed' = [crossed EXCEPT ![t] =
       (IF sepayId'[t] = req[r].id
          THEN @ \ {"log over reverify", "reverify over reverify"} ELSE @)
       \cup (IF Crosses(r) THEN {"reverify over reverify"} ELSE {}) \cup why]

\* Variant: the columns are written and the time is not.
VerifyWriteIdOnly(r) ==
  LET t == req[r].tx
  IN  /\ pc[r] = "write" /\ "row" \notin req[r].diff
      /\ sepayId' = [sepayId EXCEPT ![t] = IF t \in rows THEN req[r].id ELSE @]
      /\ IF t \in rows THEN Answers(r, t, {}) ELSE UNCHANGED past
      /\ Finish(r)
      /\ UNCHANGED <<rows, kept, reverified, auditId, verifiedAt, logged, immudb, coded, logPc,
                     plan>>

\* ... and the UPDATE of the columns that differed then.
VerifyWrite(r) ==
  LET t == req[r].tx
      writes(c) == t \in rows /\ c \in req[r].diff
  IN  /\ pc[r] = "write" /\ "row" \notin req[r].diff
      /\ reverified' = [reverified EXCEPT ![t] = @ \/ writes("reverified")]
      /\ sepayId' = [sepayId EXCEPT ![t] = IF writes("sepayId") THEN req[r].id ELSE @]
      /\ auditId' = [auditId EXCEPT ![t] = IF writes("auditId") THEN req[r].audit ELSE @]
      /\ IF t \in rows
           THEN Answers(r, t, IF writes("auditId") THEN {"reverify over log"} ELSE {})
           ELSE UNCHANGED past
      /\ Finish(r)
      /\ UNCHANGED <<rows, kept, verifiedAt, logged, immudb, coded, logPc, plan>>

\* The row is inserted again if it can be, with the immudb id it was read with.
VerifyReinsert(r) ==
  LET t == req[r].tx
  IN  /\ pc[r] = "write" /\ "row" \in req[r].diff
      /\ t \in kept /\ t \notin rows
      /\ rows' = rows \cup {t}
      /\ reverified' = [reverified EXCEPT ![t] = TRUE]
      /\ sepayId' = [sepayId EXCEPT ![t] = req[r].id]
      /\ auditId' = [auditId EXCEPT ![t] = req[r].audit]
      /\ Answers(r, t, {"reverify over log"})
      /\ Finish(r)
      /\ UNCHANGED <<kept, verifiedAt, logged, immudb, coded, logPc, plan>>

\* SePay has no match, its settings are missing, it or MySQL fails.
VerifyEnds(r) ==
  /\ pc[r] \notin {"new", "done"}
  /\ Finish(r)
  /\ UNCHANGED <<row, verifiedAt, logged, immudb, coded, logPc, plan, past>>

-----------------------------------------------------------------------------
(***************************************************************************)
(* Around it                                                               *)
(***************************************************************************)

\* The order is deleted, with its payments; the row goes by cascade, immudb keeps
\* its keys.
DeleteOrder(t) ==
  /\ t \in kept
  /\ kept' = kept \ {t} /\ rows' = rows \ {t}
  /\ UNCHANGED <<sepayId, auditId, reverified, verifiedAt, logged, immudb, coded, work, past>>

\* A PATCH and a payment request that had read order and payment before save
\* them again (RestoreOrder and ReinsertPayment in Payments).
RestoreOrder(t) ==
  /\ t \notin kept
  /\ kept' = kept \cup {t}
  /\ UNCHANGED <<rows, sepayId, auditId, reverified, verifiedAt, logged, immudb, coded, work,
                 past>>

\* Variant: requests live on in the new process, at their start.
RestartKeeping(c, lost) ==
  /\ connected' = c
  /\ txnKeys' = txnKeys \ lost /\ orderKeys' = orderKeys \ lost
  /\ wiped' = wiped \cup lost
  /\ pc' = [r \in Verify |-> "new"]
  /\ UNCHANGED <<row, verifiedAt, logged, coded, logPc, plan, req, past>>

\* The process restarts (onModuleInit connects or not); with the container
\* immudb ran in, its data may be lost.
Restart(c, lost) ==
  /\ connected' = c
  /\ txnKeys' = txnKeys \ lost /\ orderKeys' = orderKeys \ lost
  /\ wiped' = wiped \cup lost
  /\ crossed' = [t \in Tx |-> IF logPc[t] \in {"new", "done"} THEN crossed[t]
                              ELSE crossed[t] \cup {"stopped"}]
  /\ logPc' = [t \in Tx |-> IF logPc[t] = "new" THEN "new" ELSE "done"]
  /\ plan' = [t \in Tx |-> {}]
  /\ pc' = [r \in Verify |-> IF pc[r] = "new" THEN "new" ELSE "done"]
  /\ req' = [r \in Verify |-> Idle]
  /\ UNCHANGED <<row, verifiedAt, logged, coded, answered>>

LogRequest(t) ==
  \/ LogStart(t)
  \/ \E x \in SepayId \cup {None} : LogInsert(t, x)
  \/ LogTxnKey(t) \/ LogOrderKey(t) \/ LogReload(t) \/ LogWrite(t)
  \/ LogReinsert(t) \/ LogFails(t)

\* POST /transactions/:id/reverify.
Reverify(r) ==
  \/ \E t \in Tx : VerifyFind(r, t)
  \/ \E x \in SepayId : SepayMatches(r, x)
  \/ VerifyFindRow(r) \/ VerifyReload(r) \/ VerifyWrite(r) \/ VerifyReinsert(r)
  \/ VerifyEnds(r)

Next ==
  \/ \E t \in Tx : LogRequest(t) \/ DeleteOrder(t) \/ RestoreOrder(t)
  \/ \E r \in Verify : Reverify(r)
  \/ \E c \in BOOLEAN, lost \in {{}, txnKeys \cup orderKeys} : Restart(c, lost)

Spec == Init /\ [][Next]_vars

-----------------------------------------------------------------------------
(***************************************************************************)
(* findAll when MySQL does not answer (or has nothing in the range): at    *)
(* most n transactions verified in from..to; rank is the order of the keys *)
(* in immudb, which is that of the random ids and not of time              *)
(***************************************************************************)

\* The n members of S with the largest, or the smallest, numbers.
Newest(S, at, n) == {t \in S : Cardinality({u \in S : at[u] > at[t]}) < n}
First(S, at, n)  == {t \in S : Cardinality({u \in S : at[u] < at[t]}) < n}

Within(S, from, to) == {t \in S : verifiedAt[t] \in from .. to}

\* scanTransactions: the first keys, before anything is known of the dates.
Scan(n, rank) == IF connected THEN First(txnKeys, rank, Min({n, ScanCap})) ELSE {}

FindAllFromImmudb(n, from, to, rank) ==
  Newest(Within(Scan(n, rank), from, to), verifiedAt, n)

-----------------------------------------------------------------------------
(***************************************************************************)
(* Properties                                                              *)
(***************************************************************************)

\* A row with an immudb id has both its keys there: no failure between the
\* two sets and no crossing of two saves makes a row point to an entry that
\* was never written (immudb.service.ts:55-67).
IdMeansEntry ==
  \A t \in rows : auditId[t] => t \in wiped \/ (t \in txnKeys /\ t \in orderKeys)

\* A row whose entry is in immudb has no id for one of three reasons: it is
\* still being logged, a call or the process stopped, or a reverification
\* saved the row as it was before (transactions.service.ts:65,173-180).
MissingIdIsExplained ==
  \A t \in rows \cap txnKeys :
    \/ auditId[t]
    \/ crossed[t] \cap {"stopped", "reverify over log"} # {}
    \/ logPc[t] \in {"orderKey", "save", "write"}

\* What a reverification found stays: the row has the time and the id of the last
\* one stored, unless the request that logged the row saved it as it had inserted
\* it, or two reverifications that found different ids overlap, of which one
\* then leaves its time with the other's id (transactions.service.ts:65, 173-180).
ReverifyIsKept ==
  \A t \in rows : answered[t] # None =>
    \/ reverified[t] /\ sepayId[t] = answered[t]
    \/ crossed[t] \cap {"log over reverify", "reverify over reverify"} # {}

\* The log survives the loss of MySQL (README.md:64): a listing from immudb has
\* every transaction of the range it holds, when those are no more than asked
\* for (transactions.service.ts:107-134, immudb.service.ts:85-86).
LogSurvivesMysqlLoss ==
  \A from, to \in 0 .. Now, n \in 1 .. ScanCap :
  \A rank \in [Tx -> 1 .. Cardinality(Tx)] :
    LET held == Within(txnKeys, from, to) IN
    /\ connected /\ Cardinality(held) <= n
    /\ \A t, u \in Tx : rank[t] = rank[u] => t = u
    => held \subseteq FindAllFromImmudb(n, from, to, rank)
=============================================================================
