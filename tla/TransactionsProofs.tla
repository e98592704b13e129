-------------------------- MODULE TransactionsProofs --------------------------
(***************************************************************************)
(* Proofs about Transactions, for any number of transactions, reverify     *)
(* requests and SePay ids. What a reverify request holds is kept apart     *)
(* from the rows: a step changes one request, and what it holds must fit   *)
(* its next call.                                                          *)
(***************************************************************************)
EXTENDS Transactions, FiniteSetTheorems, TLAPS

LogLabel == {"new", "insert", "txnKey", "orderKey", "save", "write", "done"}
Label    == {"new", "sepay", "row", "save", "write", "done"}

\* What immudb has, or had, of a transaction.
Entry(t) == t \in wiped \/ (t \in txnKeys /\ t \in orderKeys)

\* w is what a reverify request at call p holds.
Fits(p, w) ==
  /\ p \in Label /\ w \in Req
  /\ p \in {"new", "done"} <=> w.tx = None
  /\ p \in {"new", "done"} => ~w.audit
  /\ p \in {"row", "save", "write"} => w.id # None
  /\ p = "write" => "reverified" \in w.diff \/ w.diff = {"row"}

\* It is about a transaction that was inserted, and its immudb id is right.
Backed(w) ==
  w.tx # None => /\ logPc[w.tx] \notin {"new", "insert"}
                 /\ w.audit => Entry(w.tx)

RequestsOK ==
  /\ pc \in [Verify -> Label] /\ req \in [Verify -> Req]
  /\ \A r \in Verify : Fits(pc[r], req[r]) /\ Backed(req[r])

RowsOK ==
  /\ rows \in SUBSET Tx /\ kept \in SUBSET Tx /\ coded \in SUBSET Tx
  /\ txnKeys \in SUBSET Tx /\ orderKeys \in SUBSET Tx /\ wiped \in SUBSET Tx
  /\ sepayId \in [Tx -> SepayId \cup {None}] /\ logged \in [Tx -> SepayId \cup {None}]
  /\ auditId \in [Tx -> BOOLEAN] /\ reverified \in [Tx -> BOOLEAN]
  /\ verifiedAt \in [Tx -> Nat]
  /\ connected \in BOOLEAN
  /\ answered \in [Tx -> SepayId \cup {None}]
  /\ crossed \in [Tx -> SUBSET Cause]

\* How far the log request of a transaction is.
LogOK ==
  /\ logPc \in [Tx -> LogLabel] /\ plan \in [Tx -> SUBSET Diff]
  /\ \A t \in Tx :
       /\ logPc[t] \in {"new", "insert"} => t \notin rows /\ answered[t] = None
       /\ logPc[t] \in {"new", "insert", "txnKey"} => t \notin txnKeys
       /\ logPc[t] = "orderKey" => t \in wiped \/ t \in txnKeys
       /\ logPc[t] \in {"save", "write"} => Entry(t)
       /\ logPc[t] = "write" => "auditId" \in plan[t] \/ "row" \in plan[t]

\* An id in MySQL is of something immudb had.
IdsOK == \A t \in Tx : auditId[t] => Entry(t)

\* The row has the id of the last answer, or one of these.
Lost == {"log over reverify", "reverify over reverify"}

\* A reverification that will not write its id leaves it in the row all the same,
\* or what went wrong is recorded.
WritesOK ==
  \A q \in Verify :
    LET t == req[q].tx IN
    pc[q] = "write" /\ t \in rows =>
      \/ req[q].diff \cap {"sepayId", "row"} # {}
      \/ sepayId[t] = req[q].id
      \/ crossed[t] \cap Lost # {}

\* The inductive invariant.
IInv == /\ RowsOK /\ LogOK /\ IdsOK /\ RequestsOK /\ WritesOK
        /\ MissingIdIsExplained /\ ReverifyIsKept

-----------------------------------------------------------------------------

\* How many transactions were verified is a number.
LEMMA NowIsANumber == Now \in Nat
<1>1. IsFiniteSet({t \in Tx : verifiedAt[t] > 0})
  BY TxIsFinite, FS_Subset
<1> QED
  BY <1>1, FS_CardinalityType DEF Now

LEMMA Blank ==
  /\ Idle \in Req /\ Idle.tx = None /\ Idle.id = None /\ Idle.audit = FALSE /\ Idle.diff = {}
BY DEF Idle, Req, Diff, Column

LEMMA InitInv == Init => IInv
<1> SUFFICES ASSUME Init PROVE IInv
  OBVIOUS
<1> USE TxAssumption, Blank DEF Init
<1>1. RowsOK
  BY DEF RowsOK, Cause
<1>2. LogOK
  BY <1>1 DEF LogOK, LogLabel, RowsOK
<1>3. IdsOK
  BY DEF IdsOK
<1>4. RequestsOK
  BY DEF RequestsOK, Fits, Backed, Label
<1>5. MissingIdIsExplained /\ ReverifyIsKept /\ WritesOK
  BY DEF MissingIdIsExplained, ReverifyIsKept, WritesOK
<1> QED
  BY <1>1, <1>2, <1>3, <1>4, <1>5 DEF IInv

\* One request moves on, and what it holds then fits and is backed.
LEMMA OneMoves ==
  ASSUME RequestsOK, NEW r \in Verify, NEW p, NEW w, Fits(p, w), Backed(w),
         pc' = [pc EXCEPT ![r] = p], req' = [req EXCEPT ![r] = w],
         UNCHANGED <<logPc, immudb>>
  PROVE  RequestsOK'
<1>1. pc' \in [Verify -> Label] /\ req' \in [Verify -> Req]
  BY DEF RequestsOK, Fits
<1>2. ASSUME NEW q \in Verify PROVE Fits(pc'[q], req'[q]) /\ Backed(req[q])'
  <2>1. Fits(pc'[q], req'[q]) /\ Backed(req'[q])
    <3>1. CASE q = r
      <4>1. pc'[q] = p /\ req'[q] = w
        BY <3>1 DEF RequestsOK
      <4> QED
        BY <4>1
    <3>2. CASE q # r
      <4>1. pc'[q] = pc[q] /\ req'[q] = req[q]
        BY <3>2 DEF RequestsOK
      <4> QED
        BY <4>1 DEF RequestsOK
    <3> QED
      BY <3>1, <3>2
  <2> QED
    BY <2>1 DEF Backed, Entry, immudb
<1> QED
  BY <1>1, <1>2 DEF RequestsOK

LEMMA OneFinishes ==
  ASSUME RequestsOK, NEW r \in Verify, Finish(r), UNCHANGED <<logPc, immudb>>
  PROVE  RequestsOK'
<1>1. Fits("done", Idle) /\ Backed(Idle)
  BY Blank DEF Fits, Backed, Label
<1> QED
  BY <1>1, OneMoves DEF Finish, Goto

\* The requests stay, and what backs them does.
LEMMA AllStay ==
  ASSUME RequestsOK, UNCHANGED <<pc, req>>,
         \A t \in Tx : /\ logPc[t] \notin {"new", "insert"} => logPc'[t] \notin {"new", "insert"}
                       /\ Entry(t) => Entry(t)'
  PROVE  RequestsOK'
<1>1. ASSUME NEW r \in Verify PROVE Fits(pc'[r], req'[r]) /\ Backed(req[r])'
  <2>1. req[r].tx \in Tx \cup {None} /\ Backed(req[r]) /\ Fits(pc[r], req[r])
    BY DEF RequestsOK, Req
  <2> QED
    BY <2>1 DEF Backed
<1> QED
  BY <1>1 DEF RequestsOK

\* The requests stay, and what they leave in a row does, or it is recorded.
LEMMA WritesStay ==
  ASSUME WritesOK, RequestsOK, UNCHANGED <<pc, req>>,
         \A t \in Tx : t \in rows' =>
           \/ t \in rows /\ sepayId'[t] = sepayId[t] /\ crossed[t] \subseteq crossed'[t]
           \/ crossed'[t] \cap Lost # {}
           \/ logPc[t] \in {"new", "insert"}
  PROVE  WritesOK'
<1> SUFFICES ASSUME NEW q \in Verify, pc[q] = "write", req[q].tx \in rows'
             PROVE  \/ req[q].diff \cap {"sepayId", "row"} # {}
                    \/ sepayId'[req[q].tx] = req[q].id
                    \/ crossed'[req[q].tx] \cap Lost # {}
  BY DEF WritesOK
<1>1. Fits(pc[q], req[q]) /\ Backed(req[q])
  BY DEF RequestsOK
<1>2. req[q].tx \in Tx /\ logPc[req[q].tx] \notin {"new", "insert"}
  BY <1>1 DEF Fits, Backed, Req
<1> QED
  BY <1>2 DEF WritesOK

-----------------------------------------------------------------------------

\* A log request that ends, well or not, leaves what the others did.
LEMMA LogEnds ==
  ASSUME RowsOK, LogOK, NEW t \in Tx,
         logPc' = [logPc EXCEPT ![t] = "done"], plan' = [plan EXCEPT ![t] = {}],
         rows' \subseteq rows \cup {t},
         UNCHANGED <<txnKeys, orderKeys, wiped, answered>>
  PROVE  LogOK'
<1>1. logPc' \in [Tx -> LogLabel] /\ plan' \in [Tx -> SUBSET Diff]
  BY DEF LogOK, LogLabel
<1>2. logPc'[t] = "done" /\ \A u \in Tx \ {t} : logPc'[u] = logPc[u] /\ plan'[u] = plan[u]
  BY DEF LogOK
<1>3. \A u \in Tx : Entry(u)' = Entry(u)
  BY DEF Entry
<1>4. ASSUME NEW u \in Tx
      PROVE  /\ logPc'[u] \in {"new", "insert"} => u \notin rows' /\ answered'[u] = None
             /\ logPc'[u] \in {"new", "insert", "txnKey"} => u \notin txnKeys'
             /\ logPc'[u] = "orderKey" => u \in wiped' \/ u \in txnKeys'
             /\ logPc'[u] \in {"save", "write"} => Entry(u)'
             /\ logPc'[u] = "write" => "auditId" \in plan'[u] \/ "row" \in plan'[u]
  BY <1>2, <1>3, <1>4 DEF LogOK
<1> QED
  BY <1>1, <1>4 DEF LogOK

\* The steps of a request that logs a transaction.
LEMMA LogStep ==
  ASSUME IInv, NEW t \in Tx, LogRequest(t)
  PROVE  IInv'
<1> USE TxAssumption
    DEF row, immudb, work, past, Diff, Column, Cause, LogLabel, LogGoes, Blame, Entry
<1>1. ASSUME LogStart(t)
      PROVE  IInv'
  <2>1. RowsOK'
    <3>1. Now + 1 \in Nat
      BY NowIsANumber
    <3> QED
      BY <1>1, <3>1 DEF LogStart, IInv, RowsOK
  <2>2. LogOK'
    <3>1. /\ logPc[t] = "new" /\ LogOK /\ logPc'[t] = "insert" /\ logPc' \in [Tx -> LogLabel]
          /\ \A u \in Tx \ {t} : logPc'[u] = logPc[u]
      BY <1>1 DEF LogStart, IInv, LogOK
    <3>2. UNCHANGED <<rows, txnKeys, orderKeys, wiped, answered, plan>>
      BY <1>1 DEF LogStart
    <3>3. \A u \in Tx : Entry(u) => Entry(u)'
      BY <3>2
    <3> HIDE DEF Entry, LogLabel, Diff, Column
    <3> QED
      BY <3>1, <3>2, <3>3 DEF LogOK
  <2>3. IdsOK'
    BY <1>1 DEF LogStart, IInv, RowsOK, LogOK, IdsOK
  <2>4. RequestsOK'
    <3>1. \A u \in Tx :
            /\ logPc[u] \notin {"new", "insert"} => logPc'[u] \notin {"new", "insert"}
            /\ Entry(u) => Entry(u)'
      BY <1>1 DEF LogStart, IInv, LogOK
    <3>2. UNCHANGED <<pc, req>>
      BY <1>1 DEF LogStart
    <3> HIDE DEF Entry
    <3> QED
      BY <3>1, <3>2, AllStay DEF IInv
  <2>5. MissingIdIsExplained'
    <3>1. /\ UNCHANGED <<rows, txnKeys, auditId, crossed>>
          /\ \A u \in Tx \ {t} : logPc'[u] = logPc[u]
          /\ t \notin rows
      BY <1>1 DEF LogStart, IInv, LogOK
    <3> QED
      BY <3>1 DEF IInv, MissingIdIsExplained, RowsOK
  <2>6. ReverifyIsKept'
    BY <1>1 DEF LogStart, IInv, RowsOK, LogOK, ReverifyIsKept
  <2>7. WritesOK'
    <3>1. UNCHANGED <<pc, req>>
      BY <1>1 DEF LogStart
    <3>2. \A u \in Tx : u \in rows' =>
            \/ u \in rows /\ sepayId'[u] = sepayId[u] /\ crossed[u] \subseteq crossed'[u]
            \/ crossed'[u] \cap Lost # {}
            \/ logPc[u] \in {"new", "insert"}
      BY <1>1 DEF LogStart, IInv, RowsOK, Lost
    <3> QED
      BY <3>1, <3>2, WritesStay DEF IInv
  <2> QED
    BY <2>1, <2>2, <2>3, <2>4, <2>5, <2>6, <2>7 DEF IInv
<1>2. ASSUME NEW x \in SepayId \cup {None}, LogInsert(t, x)
      PROVE  IInv'
  <2>1. RowsOK'
    BY <1>2 DEF LogInsert, IInv, RowsOK
  <2>2. LogOK'
    <3>1. /\ logPc[t] = "insert" /\ LogOK /\ logPc'[t] \in {"txnKey", "done"} /\ logPc' \in [Tx -> LogLabel]
          /\ \A u \in Tx \ {t} : logPc'[u] = logPc[u]
      BY <1>2 DEF LogInsert, IInv, LogOK
    <3>2. rows' = rows \cup {t} /\ UNCHANGED <<txnKeys, orderKeys, wiped, answered, plan>>
      BY <1>2 DEF LogInsert
    <3>3. \A u \in Tx : Entry(u) => Entry(u)'
      BY <3>2
    <3> HIDE DEF Entry, LogLabel, Diff, Column
    <3> QED
      BY <3>1, <3>2, <3>3 DEF LogOK
  <2>3. IdsOK'
    BY <1>2 DEF LogInsert, IInv, RowsOK, LogOK, IdsOK
  <2>4. RequestsOK'
    <3>1. \A u \in Tx :
            /\ logPc[u] \notin {"new", "insert"} => logPc'[u] \notin {"new", "insert"}
            /\ Entry(u) => Entry(u)'
      BY <1>2 DEF LogInsert, IInv, LogOK
    <3>2. UNCHANGED <<pc, req>>
      BY <1>2 DEF LogInsert
    <3> HIDE DEF Entry
    <3> QED
      BY <3>1, <3>2, AllStay DEF IInv
  <2>5. MissingIdIsExplained'
    BY <1>2 DEF LogInsert, IInv, RowsOK, LogOK, MissingIdIsExplained
  <2>6. ReverifyIsKept'
    BY <1>2 DEF LogInsert, IInv, RowsOK, LogOK, ReverifyIsKept
  <2>7. WritesOK'
    <3>1. UNCHANGED <<pc, req>>
      BY <1>2 DEF LogInsert
    <3>2. \A u \in Tx : u \in rows' =>
            \/ u \in rows /\ sepayId'[u] = sepayId[u] /\ crossed[u] \subseteq crossed'[u]
            \/ crossed'[u] \cap Lost # {}
            \/ logPc[u] \in {"new", "insert"}
      BY <1>2 DEF LogInsert, IInv, RowsOK, Lost
    <3> QED
      BY <3>1, <3>2, WritesStay DEF IInv
  <2> QED
    BY <2>1, <2>2, <2>3, <2>4, <2>5, <2>6, <2>7 DEF IInv
<1>3. ASSUME LogTxnKey(t)
      PROVE  IInv'
  <2>1. RowsOK'
    BY <1>3 DEF LogTxnKey, IInv, RowsOK
  <2>2. LogOK'
    <3>1. /\ logPc[t] = "txnKey" /\ LogOK /\ logPc'[t] = "orderKey" /\ logPc' \in [Tx -> LogLabel]
          /\ \A u \in Tx \ {t} : logPc'[u] = logPc[u]
      BY <1>3 DEF LogTxnKey, IInv, LogOK
    <3>2. txnKeys' = txnKeys \cup {t} /\ UNCHANGED <<rows, orderKeys, wiped, answered, plan>>
      BY <1>3 DEF LogTxnKey
    <3>3. \A u \in Tx : Entry(u) => Entry(u)'
      BY <3>2
    <3> HIDE DEF Entry, LogLabel, Diff, Column
    <3> QED
      BY <3>1, <3>2, <3>3 DEF LogOK
  <2>3. IdsOK'
    BY <1>3 DEF LogTxnKey, IInv, RowsOK, LogOK, IdsOK
  <2>4. RequestsOK'
    <3>1. \A u \in Tx :
            /\ logPc[u] \notin {"new", "insert"} => logPc'[u] \notin {"new", "insert"}
            /\ Entry(u) => Entry(u)'
      BY <1>3 DEF LogTxnKey, IInv, LogOK
    <3>2. UNCHANGED <<pc, req>>
      BY <1>3 DEF LogTxnKey
    <3> HIDE DEF Entry
    <3> QED
      BY <3>1, <3>2, AllStay DEF IInv
  <2>5. MissingIdIsExplained'
    BY <1>3 DEF LogTxnKey, IInv, RowsOK, LogOK, MissingIdIsExplained
  <2>6. ReverifyIsKept'
    BY <1>3 DEF LogTxnKey, IInv, RowsOK, LogOK, ReverifyIsKept
  <2>7. WritesOK'
    <3>1. UNCHANGED <<pc, req>>
      BY <1>3 DEF LogTxnKey
    <3>2. \A u \in Tx : u \in rows' =>
            \/ u \in rows /\ sepayId'[u] = sepayId[u] /\ crossed[u] \subseteq crossed'[u]
            \/ crossed'[u] \cap Lost # {}
            \/ logPc[u] \in {"new", "insert"}
      BY <1>3 DEF LogTxnKey, IInv, RowsOK, Lost
    <3> QED
      BY <3>1, <3>2, WritesStay DEF IInv
  <2> QED
    BY <2>1, <2>2, <2>3, <2>4, <2>5, <2>6, <2>7 DEF IInv
<1>4. ASSUME LogOrderKey(t)
      PROVE  IInv'
  <2>1. RowsOK'
    BY <1>4 DEF LogOrderKey, IInv, RowsOK
  <2>2. LogOK'
    <3>1. /\ logPc[t] = "orderKey" /\ logPc' = [logPc EXCEPT ![t] = "save"]
          /\ orderKeys' = orderKeys \cup {t}
          /\ UNCHANGED <<rows, txnKeys, wiped, answered, plan>>
      BY <1>4 DEF LogOrderKey
    <3>2. logPc'[t] = "save" /\ \A u \in Tx \ {t} : logPc'[u] = logPc[u]
      BY <3>1 DEF IInv, LogOK
    <3>3. Entry(t)' /\ \A u \in Tx : Entry(u) => Entry(u)'
      BY <3>1 DEF IInv, LogOK
    <3>4. logPc' \in [Tx -> LogLabel]
      BY <3>1 DEF IInv, LogOK
    <3> HIDE DEF Entry, LogLabel
    <3> QED
      BY <3>1, <3>2, <3>3, <3>4 DEF IInv, LogOK
  <2>3. IdsOK'
    BY <1>4 DEF LogOrderKey, IInv, RowsOK, LogOK, IdsOK
  <2>4. RequestsOK'
    <3>1. \A u \in Tx :
            /\ logPc[u] \notin {"new", "insert"} => logPc'[u] \notin {"new", "insert"}
            /\ Entry(u) => Entry(u)'
      BY <1>4 DEF LogOrderKey, IInv, LogOK
    <3>2. UNCHANGED <<pc, req>>
      BY <1>4 DEF LogOrderKey
    <3> HIDE DEF Entry
    <3> QED
      BY <3>1, <3>2, AllStay DEF IInv
  <2>5. MissingIdIsExplained'
    BY <1>4 DEF LogOrderKey, IInv, RowsOK, LogOK, MissingIdIsExplained
  <2>6. ReverifyIsKept'
    BY <1>4 DEF LogOrderKey, IInv, RowsOK, LogOK, ReverifyIsKept
  <2>7. WritesOK'
    <3>1. UNCHANGED <<pc, req>>
      BY <1>4 DEF LogOrderKey
    <3>2. \A u \in Tx : u \in rows' =>
            \/ u \in rows /\ sepayId'[u] = sepayId[u] /\ crossed[u] \subseteq crossed'[u]
            \/ crossed'[u] \cap Lost # {}
            \/ logPc[u] \in {"new", "insert"}
      BY <1>4 DEF LogOrderKey, IInv, RowsOK, Lost
    <3> QED
      BY <3>1, <3>2, WritesStay DEF IInv
  <2> QED
    BY <2>1, <2>2, <2>3, <2>4, <2>5, <2>6, <2>7 DEF IInv
<1>5. ASSUME LogReload(t)
      PROVE  IInv'
  <2>1. RowsOK'
    BY <1>5 DEF LogReload, IInv, RowsOK
  <2>2. LogOK'
    BY <1>5 DEF LogReload, IInv, RowsOK, LogOK
  <2>3. IdsOK'
    BY <1>5 DEF LogReload, IInv, RowsOK, LogOK, IdsOK
  <2>4. RequestsOK'
    <3>1. \A u \in Tx :
            /\ logPc[u] \notin {"new", "insert"} => logPc'[u] \notin {"new", "insert"}
            /\ Entry(u) => Entry(u)'
      BY <1>5 DEF LogReload, IInv, LogOK
    <3>2. UNCHANGED <<pc, req>>
      BY <1>5 DEF LogReload
    <3> HIDE DEF Entry
    <3> QED
      BY <3>1, <3>2, AllStay DEF IInv
  <2>5. MissingIdIsExplained'
    <3>1. /\ UNCHANGED <<rows, txnKeys, auditId, crossed>>
          /\ logPc' = [logPc EXCEPT ![t] = "write"]
      BY <1>5 DEF LogReload
    <3>2. logPc \in [Tx -> LogLabel] /\ rows \subseteq Tx
      BY DEF IInv, LogOK, RowsOK
    <3>3. \A u \in rows : logPc[u] \in {"orderKey", "save", "write"} =>
                              logPc'[u] \in {"orderKey", "save", "write"}
      BY <3>1, <3>2
    <3> QED
      BY <3>1, <3>3 DEF IInv, MissingIdIsExplained
  <2>6. ReverifyIsKept'
    BY <1>5 DEF LogReload, IInv, RowsOK, LogOK, ReverifyIsKept
  <2>7. WritesOK'
    <3>1. UNCHANGED <<pc, req>>
      BY <1>5 DEF LogReload
    <3>2. \A u \in Tx : u \in rows' =>
            \/ u \in rows /\ sepayId'[u] = sepayId[u] /\ crossed[u] \subseteq crossed'[u]
            \/ crossed'[u] \cap Lost # {}
            \/ logPc[u] \in {"new", "insert"}
      BY <1>5 DEF LogReload, IInv, RowsOK, Lost
    <3> QED
      BY <3>1, <3>2, WritesStay DEF IInv
  <2> QED
    BY <2>1, <2>2, <2>3, <2>4, <2>5, <2>6, <2>7 DEF IInv
<1>6. ASSUME LogWrite(t)
      PROVE  IInv'
  <2>1. RowsOK'
    BY <1>6 DEF LogWrite, IInv, RowsOK
  <2>2. LogOK'
    <3>1. /\ logPc' = [logPc EXCEPT ![t] = "done"] /\ plan' = [plan EXCEPT ![t] = {}]
          /\ UNCHANGED <<rows, txnKeys, orderKeys, wiped, answered>>
      BY <1>6 DEF LogWrite
    <3> QED
      BY <3>1, LogEnds DEF IInv
  <2>3. IdsOK'
    <3>1. /\ UNCHANGED <<rows, txnKeys, orderKeys, wiped, answered>>
          /\ logPc[t] = "write" /\ "auditId" \in plan[t] /\ Entry(t)
          /\ auditId' = [auditId EXCEPT ![t] = @ \/ (t \in rows /\ "auditId" \in plan[t])]
      BY <1>6 DEF LogWrite, IInv, LogOK
    <3>2. auditId \in [Tx -> BOOLEAN] /\ rows \subseteq Tx
      BY DEF IInv, RowsOK
    <3> QED
      BY <3>1, <3>2 DEF IInv, IdsOK
  <2>4. RequestsOK'
    <3>1. \A u \in Tx :
            /\ logPc[u] \notin {"new", "insert"} => logPc'[u] \notin {"new", "insert"}
            /\ Entry(u) => Entry(u)'
      BY <1>6 DEF LogWrite, IInv, LogOK
    <3>2. UNCHANGED <<pc, req>>
      BY <1>6 DEF LogWrite
    <3> HIDE DEF Entry
    <3> QED
      BY <3>1, <3>2, AllStay DEF IInv
  <2>5. MissingIdIsExplained'
    <3>1. /\ UNCHANGED <<rows, txnKeys, orderKeys, wiped, answered>>
          /\ logPc[t] = "write" /\ "auditId" \in plan[t] /\ Entry(t)
          /\ auditId' = [auditId EXCEPT ![t] = @ \/ (t \in rows /\ "auditId" \in plan[t])]
      BY <1>6 DEF LogWrite, IInv, LogOK
    <3>2. auditId \in [Tx -> BOOLEAN] /\ rows \subseteq Tx
      BY DEF IInv, RowsOK
    <3>3. \A u \in Tx \ {t} : logPc'[u] = logPc[u] /\ crossed'[u] = crossed[u]
      <4>1. logPc \in [Tx -> LogLabel] /\ crossed \in [Tx -> SUBSET Cause]
        BY DEF IInv, LogOK, RowsOK
      <4> QED
        BY <1>6, <4>1 DEF LogWrite
    <3>4. t \in rows => auditId'[t]
      BY <3>1, <3>2
    <3>5. \A u \in Tx \ {t} : auditId'[u] = auditId[u]
      BY <3>1, <3>2
    <3> QED
      BY <3>1, <3>2, <3>3, <3>4, <3>5 DEF IInv, MissingIdIsExplained
  <2>6. ReverifyIsKept'
    <3> DEFINE writes(c) == t \in rows /\ c \in plan[t]
    <3>1. /\ UNCHANGED <<rows, answered>>
          /\ sepayId' = [sepayId EXCEPT ![t] = IF writes("sepayId") THEN logged[t] ELSE @]
          /\ reverified' = [reverified EXCEPT ![t] = @ /\ ~writes("reverified")]
          /\ crossed' = [crossed EXCEPT ![t] = @ \cup
                           (IF writes("reverified") \/ writes("sepayId")
                              THEN {"log over reverify"} ELSE {})]
      BY <1>6 DEF LogWrite
    <3>2. /\ sepayId \in [Tx -> SepayId \cup {None}] /\ reverified \in [Tx -> BOOLEAN]
          /\ crossed \in [Tx -> SUBSET Cause] /\ rows \subseteq Tx
      BY DEF IInv, RowsOK
    <3>3. \A u \in Tx \ {t} : /\ sepayId'[u] = sepayId[u] /\ reverified'[u] = reverified[u]
                              /\ crossed'[u] = crossed[u]
      BY <3>1, <3>2
    <3>4. \/ sepayId'[t] = sepayId[t] /\ reverified'[t] = reverified[t]
          \/ "log over reverify" \in crossed'[t]
      BY <3>1, <3>2
    <3>5. crossed[t] \subseteq crossed'[t]
      BY <3>1, <3>2
    <3> QED
      BY <3>1, <3>2, <3>3, <3>4, <3>5 DEF IInv, ReverifyIsKept
  <2>7. WritesOK'
    <3>1. UNCHANGED <<pc, req>>
      BY <1>6 DEF LogWrite
    <3>2. \A u \in Tx : u \in rows' =>
            \/ u \in rows /\ sepayId'[u] = sepayId[u] /\ crossed[u] \subseteq crossed'[u]
            \/ crossed'[u] \cap Lost # {}
            \/ logPc[u] \in {"new", "insert"}
      BY <1>6 DEF LogWrite, IInv, RowsOK, Lost
    <3> QED
      BY <3>1, <3>2, WritesStay DEF IInv
  <2> QED
    BY <2>1, <2>2, <2>3, <2>4, <2>5, <2>6, <2>7 DEF IInv
<1>7. ASSUME LogFails(t)
      PROVE  IInv'
  <2>1. RowsOK'
    BY <1>7 DEF LogFails, IInv, RowsOK
  <2>2. LogOK'
    <3>1. /\ logPc' = [logPc EXCEPT ![t] = "done"] /\ plan' = [plan EXCEPT ![t] = {}]
          /\ UNCHANGED <<rows, txnKeys, orderKeys, wiped, answered>>
      BY <1>7 DEF LogFails
    <3> QED
      BY <3>1, LogEnds DEF IInv
  <2>3. IdsOK'
    BY <1>7 DEF LogFails, IInv, RowsOK, LogOK, IdsOK
  <2>4. RequestsOK'
    <3>1. \A u \in Tx :
            /\ logPc[u] \notin {"new", "insert"} => logPc'[u] \notin {"new", "insert"}
            /\ Entry(u) => Entry(u)'
      BY <1>7 DEF LogFails, IInv, LogOK
    <3>2. UNCHANGED <<pc, req>>
      BY <1>7 DEF LogFails
    <3> HIDE DEF Entry
    <3> QED
      BY <3>1, <3>2, AllStay DEF IInv
  <2>5. MissingIdIsExplained'
    BY <1>7 DEF LogFails, IInv, RowsOK, LogOK, MissingIdIsExplained
  <2>6. ReverifyIsKept'
    <3>1. UNCHANGED <<rows, answered, reverified, sepayId>>
      BY <1>7 DEF LogFails
    <3>2. \A u \in Tx : crossed[u] \subseteq crossed'[u]
      BY <1>7 DEF LogFails, IInv, RowsOK
    <3> QED
      BY <3>1, <3>2 DEF IInv, RowsOK, ReverifyIsKept
  <2>7. WritesOK'
    <3>1. UNCHANGED <<pc, req>>
      BY <1>7 DEF LogFails
    <3>2. \A u \in Tx : u \in rows' =>
            \/ u \in rows /\ sepayId'[u] = sepayId[u] /\ crossed[u] \subseteq crossed'[u]
            \/ crossed'[u] \cap Lost # {}
            \/ logPc[u] \in {"new", "insert"}
      BY <1>7 DEF LogFails, IInv, RowsOK, Lost
    <3> QED
      BY <3>1, <3>2, WritesStay DEF IInv
  <2> QED
    BY <2>1, <2>2, <2>3, <2>4, <2>5, <2>6, <2>7 DEF IInv
<1>8. ASSUME LogReinsert(t)
      PROVE  IInv'
  <2>0. /\ logPc[t] = "write" /\ t \notin rows /\ Entry(t)
        /\ RowsOK /\ LogOK /\ IdsOK /\ RequestsOK /\ WritesOK
        /\ MissingIdIsExplained /\ ReverifyIsKept
    BY <1>8 DEF LogReinsert, IInv, LogOK
  <2>1. RowsOK'
    BY <1>8, <2>0 DEF LogReinsert, RowsOK
  <2>2. LogOK'
    <3>1. /\ logPc' = [logPc EXCEPT ![t] = "done"] /\ plan' = [plan EXCEPT ![t] = {}]
          /\ rows' = rows \cup {t} /\ UNCHANGED <<txnKeys, orderKeys, wiped, answered>>
      BY <1>8 DEF LogReinsert
    <3> QED
      BY <2>0, <3>1, LogEnds
  <2>3. IdsOK'
    BY <1>8, <2>0 DEF LogReinsert, RowsOK, IdsOK
  <2>4. RequestsOK'
    <3>1. \A u \in Tx :
            /\ logPc[u] \notin {"new", "insert"} => logPc'[u] \notin {"new", "insert"}
            /\ Entry(u) => Entry(u)'
      BY <1>8, <2>0 DEF LogReinsert, LogOK
    <3>2. UNCHANGED <<pc, req>>
      BY <1>8 DEF LogReinsert
    <3> HIDE DEF Entry
    <3> QED
      BY <2>0, <3>1, <3>2, AllStay
  <2>5. /\ auditId'[t] /\ "log over reverify" \in crossed'[t]
        /\ \A u \in Tx \ {t} : /\ auditId'[u] = auditId[u] /\ crossed'[u] = crossed[u]
                              /\ reverified'[u] = reverified[u] /\ sepayId'[u] = sepayId[u]
                              /\ logPc'[u] = logPc[u]
        /\ rows' = rows \cup {t} /\ UNCHANGED <<pc, req, answered, txnKeys>>
    <3>1. /\ auditId \in [Tx -> BOOLEAN] /\ crossed \in [Tx -> SUBSET Cause]
          /\ reverified \in [Tx -> BOOLEAN] /\ sepayId \in [Tx -> SepayId \cup {None}]
          /\ logPc \in [Tx -> LogLabel]
      BY <2>0 DEF RowsOK, LogOK
    <3> HIDE DEF Entry, LogLabel, Cause, Diff, Column
    <3>2. /\ auditId'[t] /\ "log over reverify" \in crossed'[t]
      BY <1>8, <3>1 DEF LogReinsert
    <3>3. UNCHANGED <<pc, req, answered, txnKeys>> /\ rows' = rows \cup {t}
      BY <1>8 DEF LogReinsert
    <3>4. \A u \in Tx \ {t} : /\ auditId'[u] = auditId[u] /\ crossed'[u] = crossed[u]
                              /\ reverified'[u] = reverified[u] /\ sepayId'[u] = sepayId[u]
                              /\ logPc'[u] = logPc[u]
      BY <1>8, <3>1 DEF LogReinsert
    <3> QED
      BY <3>2, <3>3, <3>4
  <2>6. WritesOK'
    <3>1. \A u \in Tx : u \in rows' =>
            \/ u \in rows /\ sepayId'[u] = sepayId[u] /\ crossed[u] \subseteq crossed'[u]
            \/ crossed'[u] \cap Lost # {}
      BY <2>5 DEF Lost
    <3> QED
      BY <2>0, <2>5, <3>1, WritesStay
  <2>7. MissingIdIsExplained'
    BY <2>0, <2>5 DEF MissingIdIsExplained, RowsOK
  <2>8. ReverifyIsKept'
    BY <2>0, <2>5 DEF ReverifyIsKept, RowsOK
  <2> QED
    BY <2>1, <2>2, <2>3, <2>4, <2>6, <2>7, <2>8 DEF IInv
<1> QED
  BY <1>1, <1>2, <1>3, <1>4, <1>5, <1>6, <1>7, <1>8 DEF LogRequest

-----------------------------------------------------------------------------

\* The steps of a reverification that only read.
LEMMA ReadStep ==
  ASSUME IInv, NEW r \in Verify,
         \/ \E t \in Tx : VerifyFind(r, t)
         \/ \E x \in SepayId : SepayMatches(r, x)
         \/ VerifyFindRow(r) \/ VerifyReload(r) \/ VerifyEnds(r)
  PROVE  IInv'
<1>0. Fits(pc[r], req[r]) /\ Backed(req[r]) /\ RequestsOK
  BY DEF IInv, RequestsOK
<1>1. UNCHANGED <<row, verifiedAt, logged, immudb, coded, logPc, plan, past>>
  BY DEF VerifyFind, SepayMatches, VerifyFindRow, VerifyReload, VerifyEnds
<1>2. RowsOK' /\ LogOK' /\ IdsOK' /\ MissingIdIsExplained' /\ ReverifyIsKept'
  BY <1>1 DEF row, immudb, past, IInv, RowsOK, LogOK, IdsOK, MissingIdIsExplained,
     ReverifyIsKept, Entry
<1>3. ASSUME NEW p, NEW w, Fits(p, w), Backed(w), Goto(r, p), req' = [req EXCEPT ![r] = w],
             p = "write" /\ w.tx \in rows =>
               w.diff \cap {"sepayId", "row"} # {} \/ sepayId[w.tx] = w.id
      PROVE  IInv'
  <2>1. RequestsOK'
    BY <1>0, <1>1, <1>3, OneMoves DEF Goto
  <2>2. ASSUME NEW q \in Verify, pc'[q] = "write", req'[q].tx \in rows
        PROVE  \/ req'[q].diff \cap {"sepayId", "row"} # {}
               \/ sepayId[req'[q].tx] = req'[q].id
               \/ crossed[req'[q].tx] \cap Lost # {}
    <3>1. CASE q = r
      <4>1. pc'[q] = p /\ req'[q] = w
        BY <1>0, <1>3, <3>1 DEF RequestsOK, Goto
      <4> QED
        BY <1>3, <2>2, <4>1
    <3>2. CASE q # r
      <4>1. pc'[q] = pc[q] /\ req'[q] = req[q]
        BY <1>0, <1>3, <3>2 DEF RequestsOK, Goto
      <4> QED
        BY <2>2, <4>1 DEF IInv, WritesOK
    <3> QED
      BY <3>1, <3>2
  <2>3. WritesOK'
    BY <1>1, <2>2 DEF WritesOK, row, past
  <2> QED
    BY <1>2, <2>1, <2>3 DEF IInv
<1>4. ASSUME Finish(r) PROVE IInv'
  <2>1. Fits("done", Idle) /\ Backed(Idle)
    BY Blank DEF Fits, Backed, Label
  <2> QED
    BY <1>3, <1>4, <2>1 DEF Finish
<1>5. ASSUME NEW t \in Tx, VerifyFind(r, t) PROVE IInv'
  <2>1. logPc[t] \notin {"new", "insert"}
    BY <1>5 DEF VerifyFind, Found, InImmudb, IInv, LogOK
  <2> DEFINE w == [req[r] EXCEPT !.tx = t]
  <2>2. pc[r] = "new" /\ Goto(r, "sepay") /\ req' = [req EXCEPT ![r] = w]
    BY <1>5 DEF VerifyFind
  <2>3. Fits("sepay", w)
    BY <1>0, <2>2, TxAssumption DEF Fits, Label, Req
  <2>4. w.tx = t /\ w.audit = req[r].audit
    BY <1>0 DEF Fits, Req
  <2>5. Backed(w)
    BY <2>1, <2>4, <2>2, <1>0 DEF Backed, Fits
  <2> QED
    BY <1>3, <2>2, <2>3, <2>5
<1>6. ASSUME NEW x \in SepayId, SepayMatches(r, x) PROVE IInv'
  <2> DEFINE w == [req[r] EXCEPT !.id = x]
  <2>1. pc[r] = "sepay" /\ Goto(r, "row") /\ req' = [req EXCEPT ![r] = w]
    BY <1>6 DEF SepayMatches
  <2>2. Fits("row", w)
    BY <1>0, <2>1, TxAssumption DEF Fits, Label, Req
  <2>3. Backed(w)
    BY <1>0 DEF Fits, Req, Backed
  <2> QED
    BY <1>3, <2>1, <2>2, <2>3
<1>7. CASE VerifyFindRow(r)
  <2> DEFINE w == [req[r] EXCEPT !.audit = auditId[req[r].tx]]
  <2>1. pc[r] = "row" /\ (Finish(r) \/ (Goto(r, "save") /\ req' = [req EXCEPT ![r] = w]))
    BY <1>7 DEF VerifyFindRow
  <2>2. req[r].tx \in Tx
    BY <1>0, <2>1 DEF Fits, Req
  <2>3. Fits("save", w)
    BY <1>0, <2>1, <2>2 DEF Fits, Label, Req, IInv, RowsOK
  <2>4. w.tx = req[r].tx /\ w.audit = auditId[req[r].tx]
    BY <1>0 DEF Fits, Req
  <2>5. Backed(w)
    BY <1>0, <2>2, <2>4 DEF Backed, IInv, IdsOK
  <2> QED
    BY <1>3, <1>4, <2>1, <2>3, <2>5
<1>8. CASE VerifyReload(r)
  <2> DEFINE t == req[r].tx
             columns == {"reverified"} \cup {c \in {"sepayId", "auditId"} :
                           \/ c = "sepayId" /\ sepayId[t] # req[r].id
                           \/ c = "auditId" /\ auditId[t] # req[r].audit}
             diff == IF t \in rows THEN columns ELSE {"row"}
             w == [req[r] EXCEPT !.diff = diff]
  <2>1. pc[r] = "save" /\ Goto(r, "write") /\ req' = [req EXCEPT ![r] = w]
    BY <1>8 DEF VerifyReload
  <2>2. /\ diff \in SUBSET Diff /\ ("reverified" \in diff \/ diff = {"row"})
        /\ diff \cap {"sepayId", "row"} # {} \/ sepayId[t] = req[r].id
    BY DEF Diff, Column
  <2> HIDE DEF diff
  <2>3. w.diff = diff /\ w.tx = t /\ w.id = req[r].id /\ w.audit = req[r].audit
    BY <1>0 DEF Fits, Req
  <2>4. Fits("write", w)
    BY <1>0, <2>1, <2>2, <2>3 DEF Fits, Label, Req
  <2>5. Backed(w)
    BY <1>0, <2>3 DEF Backed
  <2> QED
    BY <1>3, <2>1, <2>2, <2>3, <2>4, <2>5
<1>9. CASE VerifyEnds(r)
  BY <1>4, <1>9 DEF VerifyEnds
<1> QED
  BY <1>5, <1>6, <1>7, <1>8, <1>9

\* A reverification that is stored: r ends, and its id is the answer.
LEMMA AnswerStep ==
  ASSUME IInv, NEW r \in Verify, NEW t, t = req[r].tx, pc[r] = "write", Finish(r),
         UNCHANGED <<kept, verifiedAt, logged, immudb, coded, logPc, plan>>,
         rows' = rows \cup {t}, reverified' = [reverified EXCEPT ![t] = TRUE],
         NEW a \in BOOLEAN, auditId' = [auditId EXCEPT ![t] = a], a => Entry(t),
         NEW why \in SUBSET Cause, Answers(r, t, why),
         t \in rows => (auditId[t] => a \/ "reverify over log" \in why),
         t \notin rows => "reverify over log" \in why,
         NEW x, sepayId' = [sepayId EXCEPT ![t] = x],
         \/ x = req[r].id
         \/ t \in rows /\ x = sepayId[t] /\ req[r].diff \cap {"sepayId", "row"} = {}
  PROVE  IInv'
<1>0. /\ Fits(pc[r], req[r]) /\ Backed(req[r]) /\ RequestsOK /\ WritesOK
      /\ RowsOK /\ LogOK /\ IdsOK /\ MissingIdIsExplained /\ ReverifyIsKept
  BY DEF IInv, RequestsOK
<1>1. /\ t \in Tx /\ req[r].id \in SepayId /\ req[r].id # None
      /\ logPc[t] \notin {"new", "insert"}
  BY <1>0, TxAssumption DEF Fits, Req, Backed
<1>2. RequestsOK'
  BY <1>0, OneFinishes
<1> DEFINE here == sepayId'[t] = req[r].id
<1>3. /\ sepayId'[t] = x /\ reverified'[t] /\ auditId'[t] = a /\ answered'[t] = req[r].id
      /\ why \subseteq crossed'[t]
      /\ Crosses(r) => "reverify over reverify" \in crossed'[t]
      /\ crossed[t] \ Lost \subseteq crossed'[t]
      /\ ~here => crossed[t] \subseteq crossed'[t]
  BY <1>0, <1>1 DEF Answers, RowsOK, Lost
<1>4. \A u \in Tx \ {t} : /\ sepayId'[u] = sepayId[u] /\ reverified'[u] = reverified[u]
                          /\ auditId'[u] = auditId[u] /\ answered'[u] = answered[u]
                          /\ crossed'[u] = crossed[u]
  BY <1>0, <1>1 DEF Answers, RowsOK
<1>5. RowsOK'
  <2>1. crossed'[t] \in SUBSET Cause
    BY <1>0, <1>1 DEF Answers, RowsOK, Cause
  <2>2. crossed' \in [Tx -> SUBSET Cause]
    BY <1>0, <1>1, <2>1 DEF Answers, RowsOK, Cause
  <2>3. x \in SepayId \cup {None}
    BY <1>0, <1>1 DEF RowsOK
  <2> QED
    BY <1>0, <1>1, <2>2, <2>3 DEF Answers, RowsOK, immudb
<1>6. LogOK'
  BY <1>0, <1>1, <1>4 DEF LogOK, Entry, immudb
<1>7. IdsOK'
  BY <1>0, <1>1, <1>3, <1>4 DEF IdsOK, Entry, immudb
<1>8. ~here => t \in rows /\ crossed[t] \cap Lost # {}
  BY <1>0, <1>3 DEF WritesOK
<1>9. WritesOK'
  <2> SUFFICES ASSUME NEW q \in Verify, pc'[q] = "write", req'[q].tx \in rows'
               PROVE  \/ req'[q].diff \cap {"sepayId", "row"} # {}
                      \/ sepayId'[req'[q].tx] = req'[q].id
                      \/ crossed'[req'[q].tx] \cap Lost # {}
    BY DEF WritesOK
  <2>1. q # r /\ pc[q] = "write" /\ req'[q] = req[q]
    BY <1>0 DEF Finish, Goto, RequestsOK
  <2>2. req[q].tx \in Tx
    BY <1>0, <2>1 DEF RequestsOK, Fits, Req
  <2>3. CASE req[q].tx # t
    <3> DEFINE u == req[q].tx
    <3>1. sepayId'[u] = sepayId[u] /\ crossed'[u] = crossed[u] /\ u \in rows
      BY <1>4, <2>1, <2>2, <2>3
    <3> QED
      BY <1>0, <2>1, <3>1 DEF WritesOK
  <2>4. CASE req[q].tx = t /\ ~here
    BY <1>3, <1>8, <2>1, <2>4
  <2>5. CASE req[q].tx = t /\ here
    BY <1>3, <2>1, <2>5 DEF Crosses, Lost
  <2> QED
    BY <2>3, <2>4, <2>5
<1>10. MissingIdIsExplained'
  <2> DEFINE Fine(u) == \/ auditId[u]
                        \/ crossed[u] \cap {"stopped", "reverify over log"} # {}
                        \/ logPc[u] \in {"orderKey", "save", "write"}
  <2>1. UNCHANGED <<txnKeys, logPc>> /\ rows \subseteq Tx
    BY <1>0 DEF immudb, RowsOK
  <2>2. \A u \in rows \cap txnKeys : Fine(u)
    BY <1>0 DEF MissingIdIsExplained
  <2>3. \A u \in (rows \cap txnKeys) \ {t} : Fine(u)'
    BY <1>4, <2>1, <2>2
  <2>4. t \in txnKeys => Fine(t)'
    <3>1. CASE t \notin rows
      BY <1>3, <3>1
    <3>2. CASE t \in rows /\ ~auditId[t]
      BY <1>3, <2>1, <2>2, <3>2 DEF Lost
    <3>3. CASE t \in rows /\ auditId[t]
      BY <1>3, <3>3
    <3> QED
      BY <3>1, <3>2, <3>3
  <2> QED
    BY <2>1, <2>3, <2>4 DEF MissingIdIsExplained
<1>11. ReverifyIsKept'
  <2>1. ASSUME NEW u \in rows', answered'[u] # None
        PROVE  \/ reverified'[u] /\ sepayId'[u] = answered'[u]
               \/ crossed'[u] \cap Lost # {}
    <3>1. CASE u = t
      BY <1>3, <1>8, <3>1
    <3>2. CASE u # t
      BY <1>0, <1>4, <2>1, <3>2 DEF ReverifyIsKept, RowsOK, Lost
    <3> QED
      BY <3>1, <3>2
  <2> QED
    BY <2>1 DEF ReverifyIsKept, Lost
<1> QED
  BY <1>2, <1>5, <1>6, <1>7, <1>9, <1>10, <1>11 DEF IInv

\* The steps that store a reverification.
LEMMA StoreStep ==
  ASSUME IInv, NEW r \in Verify, VerifyWrite(r) \/ VerifyReinsert(r)
  PROVE  IInv'
<1> DEFINE t == req[r].tx
<1>0. Fits(pc[r], req[r]) /\ Backed(req[r]) /\ RequestsOK /\ RowsOK
  BY DEF IInv, RequestsOK
<1>1. /\ pc[r] = "write" /\ Finish(r)
      /\ UNCHANGED <<kept, verifiedAt, logged, immudb, coded, logPc, plan>>
  BY DEF VerifyWrite, VerifyReinsert
<1>2. t \in Tx /\ req[r].audit \in BOOLEAN /\ (req[r].audit => Entry(t))
  BY <1>0, <1>1 DEF Fits, Req, Backed
<1>3. CASE VerifyReinsert(r)
  <2> DEFINE why == {"reverify over log"}
  <2>1. why \in SUBSET Cause
    BY DEF Cause
  <2>2. /\ rows' = rows \cup {t} /\ reverified' = [reverified EXCEPT ![t] = TRUE]
        /\ auditId' = [auditId EXCEPT ![t] = req[r].audit] /\ Answers(r, t, why)
        /\ sepayId' = [sepayId EXCEPT ![t] = req[r].id]
    BY <1>3 DEF VerifyReinsert
  <2> HIDE DEF t, why
  <2>3. "reverify over log" \in why
    BY DEF why
  <2> QED
    BY <1>1, <1>2, <2>1, <2>2, <2>3, AnswerStep DEF t
<1>4. CASE VerifyWrite(r) /\ t \in rows
  <2> DEFINE d == req[r].diff
             a == IF "auditId" \in d THEN req[r].audit ELSE auditId[t]
             x == IF "sepayId" \in d THEN req[r].id ELSE sepayId[t]
             why == IF "auditId" \in d THEN {"reverify over log"} ELSE {}
  <2>1. "reverified" \in d /\ "row" \notin d
    BY <1>0, <1>1, <1>4 DEF Fits, VerifyWrite
  <2>2. /\ rows' = rows /\ reverified' = [reverified EXCEPT ![t] = @ \/ "reverified" \in d]
        /\ auditId' = [auditId EXCEPT ![t] = IF "auditId" \in d THEN req[r].audit ELSE @]
        /\ sepayId' = [sepayId EXCEPT ![t] = IF "sepayId" \in d THEN req[r].id ELSE @]
        /\ Answers(r, t, why)
    BY <1>4 DEF VerifyWrite
  <2>3. /\ rows' = rows \cup {t} /\ reverified' = [reverified EXCEPT ![t] = TRUE]
        /\ auditId' = [auditId EXCEPT ![t] = a] /\ sepayId' = [sepayId EXCEPT ![t] = x]
    BY <1>0, <1>2, <1>4, <2>1, <2>2 DEF RowsOK
  <2>4. a \in BOOLEAN /\ (a => Entry(t))
    BY <1>0, <1>2 DEF RowsOK, IInv, IdsOK
  <2>5. why \in SUBSET Cause /\ (auditId[t] => a \/ "reverify over log" \in why)
    BY DEF Cause
  <2>6. x = req[r].id \/ (x = sepayId[t] /\ d \cap {"sepayId", "row"} = {})
    BY <2>1
  <2> HIDE DEF t, a, x, why
  <2> QED
    BY <1>1, <1>4, <2>2, <2>3, <2>4, <2>5, <2>6, AnswerStep DEF t
<1>5. CASE VerifyWrite(r) /\ t \notin rows
  <2>1. UNCHANGED <<rows, answered, crossed>>
    BY <1>5 DEF VerifyWrite, past
  <2>2. UNCHANGED <<reverified, sepayId, auditId>>
    BY <1>0, <1>2, <1>5 DEF VerifyWrite, RowsOK
  <2>3. VerifyEnds(r)
    BY <1>1, <2>1, <2>2 DEF VerifyEnds, row, past
  <2> QED
    BY <2>3, ReadStep
<1> QED
  BY <1>3, <1>4, <1>5

\* An order is deleted, and the process restarts.
LEMMA WorldStep ==
  ASSUME IInv,
         \/ \E t \in Tx : DeleteOrder(t) \/ RestoreOrder(t)
         \/ \E c \in BOOLEAN, lost \in {{}, txnKeys \cup orderKeys} : Restart(c, lost)
  PROVE  IInv'
<1> USE TxAssumption DEF row, immudb, work, past, Diff, Column, Cause, LogLabel, Entry
<1>1. ASSUME NEW t \in Tx, DeleteOrder(t)
      PROVE  IInv'
  <2>1. RowsOK'
    BY <1>1 DEF DeleteOrder, IInv, RowsOK
  <2>2. LogOK'
    BY <1>1 DEF DeleteOrder, IInv, RowsOK, LogOK
  <2>3. IdsOK'
    BY <1>1 DEF DeleteOrder, IInv, RowsOK, LogOK, IdsOK
  <2>4. RequestsOK'
    <3>1. \A u \in Tx :
            /\ logPc[u] \notin {"new", "insert"} => logPc'[u] \notin {"new", "insert"}
            /\ Entry(u) => Entry(u)'
      BY <1>1 DEF DeleteOrder, IInv, LogOK
    <3>2. UNCHANGED <<pc, req>>
      BY <1>1 DEF DeleteOrder
    <3> HIDE DEF Entry
    <3> QED
      BY <3>1, <3>2, AllStay DEF IInv
  <2>5. MissingIdIsExplained'
    BY <1>1 DEF DeleteOrder, IInv, RowsOK, LogOK, MissingIdIsExplained
  <2>6. ReverifyIsKept'
    BY <1>1 DEF DeleteOrder, IInv, RowsOK, LogOK, ReverifyIsKept
  <2>7. WritesOK'
    <3>1. UNCHANGED <<pc, req>>
      BY <1>1 DEF DeleteOrder
    <3>2. \A u \in Tx : u \in rows' =>
            u \in rows /\ sepayId'[u] = sepayId[u] /\ crossed[u] \subseteq crossed'[u]
      BY <1>1 DEF DeleteOrder
    <3> QED
      BY <3>1, <3>2, WritesStay DEF IInv
  <2> QED
    BY <2>1, <2>2, <2>3, <2>4, <2>5, <2>6, <2>7 DEF IInv
<1>2. ASSUME NEW c \in BOOLEAN, NEW lost \in {{}, txnKeys \cup orderKeys}, Restart(c, lost)
      PROVE  IInv'
  <2>1. RowsOK'
    BY <1>2 DEF Restart, IInv, RowsOK
  <2>2. LogOK'
    BY <1>2 DEF Restart, IInv, RowsOK, LogOK
  <2>3. IdsOK'
    BY <1>2 DEF Restart, IInv, RowsOK, LogOK, IdsOK
  <2>4. RequestsOK'
    <3>1. Fits("done", Idle) /\ (\A r \in Verify : pc[r] = "new" => Fits("new", Idle))
      BY Blank DEF Fits, Label
    <3> QED
      BY <1>2, <3>1, Blank DEF Restart, RequestsOK, Backed, Label, IInv
  <2>5. MissingIdIsExplained'
    BY <1>2 DEF Restart, IInv, RowsOK, LogOK, MissingIdIsExplained
  <2>6. ReverifyIsKept'
    <3>1. UNCHANGED <<rows, answered, reverified, sepayId>>
      BY <1>2 DEF Restart
    <3>2. \A u \in Tx : crossed[u] \subseteq crossed'[u]
      BY <1>2 DEF Restart, IInv, RowsOK
    <3> QED
      BY <3>1, <3>2 DEF IInv, RowsOK, ReverifyIsKept
  <2>7. WritesOK'
    BY <1>2 DEF Restart, IInv, RequestsOK, WritesOK
  <2> QED
    BY <2>1, <2>2, <2>3, <2>4, <2>5, <2>6, <2>7 DEF IInv
<1>3. ASSUME NEW t \in Tx, RestoreOrder(t)
      PROVE  IInv'
  <2>1. RowsOK'
    BY <1>3 DEF RestoreOrder, IInv, RowsOK
  <2>2. LogOK'
    BY <1>3 DEF RestoreOrder, IInv, RowsOK, LogOK
  <2>3. IdsOK'
    BY <1>3 DEF RestoreOrder, IInv, RowsOK, LogOK, IdsOK
  <2>4. RequestsOK'
    <3>1. \A u \in Tx :
            /\ logPc[u] \notin {"new", "insert"} => logPc'[u] \notin {"new", "insert"}
            /\ Entry(u) => Entry(u)'
      BY <1>3 DEF RestoreOrder, IInv, LogOK
    <3>2. UNCHANGED <<pc, req>>
      BY <1>3 DEF RestoreOrder
    <3> HIDE DEF Entry
    <3> QED
      BY <3>1, <3>2, AllStay DEF IInv
  <2>5. MissingIdIsExplained'
    BY <1>3 DEF RestoreOrder, IInv, RowsOK, LogOK, MissingIdIsExplained
  <2>6. ReverifyIsKept'
    BY <1>3 DEF RestoreOrder, IInv, RowsOK, LogOK, ReverifyIsKept
  <2>7. WritesOK'
    <3>1. UNCHANGED <<pc, req>>
      BY <1>3 DEF RestoreOrder
    <3>2. \A u \in Tx : u \in rows' =>
            u \in rows /\ sepayId'[u] = sepayId[u] /\ crossed[u] \subseteq crossed'[u]
      BY <1>3 DEF RestoreOrder
    <3> QED
      BY <3>1, <3>2, WritesStay DEF IInv
  <2> QED
    BY <2>1, <2>2, <2>3, <2>4, <2>5, <2>6, <2>7 DEF IInv
<1> QED
  BY <1>1, <1>2, <1>3

LEMMA Invariance == Spec => []IInv
<1>1. IInv /\ [Next]_vars => IInv'
  <2> SUFFICES ASSUME IInv, [Next]_vars PROVE IInv'
    OBVIOUS
  <2>1. CASE UNCHANGED vars
    <3> USE <2>1 DEF vars, row, immudb, work, past
    <3>1. RowsOK' /\ LogOK' /\ IdsOK' /\ MissingIdIsExplained' /\ ReverifyIsKept'
          /\ WritesOK'
      BY DEF IInv, RowsOK, LogOK, IdsOK, MissingIdIsExplained, ReverifyIsKept, Entry, WritesOK
    <3>2. RequestsOK'
      BY DEF IInv, RequestsOK, Backed, Entry
    <3> QED
      BY <3>1, <3>2 DEF IInv
  <2>2. ASSUME NEW r \in Verify, Reverify(r) PROVE IInv'
    BY <2>2, ReadStep, StoreStep DEF Reverify
  <2> QED
    BY <2>1, <2>2, LogStep, WorldStep DEF Next
<1> QED
  BY <1>1, InitInv, PTL DEF Spec

-----------------------------------------------------------------------------

\* Every variable keeps its type; and a reverify request is about a transaction
\* exactly while it runs.
THEOREM TypesHold == Spec => []TypeOK
<1>1. IInv => TypeOK
  BY DEF IInv, RowsOK, LogOK, RequestsOK, Fits, LogLabel, Label, TypeOK
<1> QED
  BY <1>1, Invariance, PTL

\* A row that has immudb's id has, or had, both of its keys there: whatever
\* fails or restarts between the calls, and whichever save comes last.
THEOREM IdsMeanEntries == Spec => []IdMeansEntry
<1>1. IInv => IdMeansEntry
  BY DEF IInv, RowsOK, IdsOK, Entry, IdMeansEntry
<1> QED
  BY <1>1, Invariance, PTL

\* A row that has no id though immudb has its entry is still being logged, or
\* a call or the process stopped, or a reverification wrote the row over.
THEOREM MissingIdsExplained == Spec => []MissingIdIsExplained
<1>1. IInv => MissingIdIsExplained
  BY DEF IInv
<1> QED
  BY <1>1, Invariance, PTL

\* What the last reverification found is still there, or the request that
\* logged the row has saved it as it had inserted it, or two reverifications
\* overlapped and one left its time with the other's id.
THEOREM ReverificationsAreKept == Spec => []ReverifyIsKept
<1>1. IInv => ReverifyIsKept
  BY DEF IInv
<1> QED
  BY <1>1, Invariance, PTL

=============================================================================
