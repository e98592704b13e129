--------------------------- MODULE SettingsProofs ----------------------------
(***************************************************************************)
(* Proofs about SettingsPage for any number of requests, keys and accounts *)
(* and any interleaving of the page, other clients, failures and restarts. *)
(* SInv is inductive: writers of a common key have disturbed each other, a *)
(* writer that was not disturbed finds what it has written, and so does a  *)
(* reader. PageOK adds what the page remembers of its requests, and PInv   *)
(* what holds of a page that is used alone, while nothing has gone wrong.  *)
(***************************************************************************)
EXTENDS SettingsPage, TLAPS

WriteCall == {"find", "save", "update", "insert", "delete"}
Calls     == WriteCall \cup {"read", "sepay"}
Readers   == {"qr", "config", "status", "list"}
Writers   == {"putKey", "putAccount", "remove", "putOne"}

KeysOf(s) == {s[n] : n \in DOMAIN s}

\* What a handler may have left to do.
Todo == {<<>>, <<"apiKey">>, <<"number">>, <<"bank">>, <<"number", "bank">>,
         <<"apiKey", "number">>, <<"apiKey", "number", "bank">>}

Work == [op : Op \cup {"none"}, arg : Value \cup {None}, todo : Todo, id : Ids,
         got : [Setting -> Value \cup {None}]]

Types ==
  /\ row \in [Setting -> [id : Ids, value : Value \cup {None}]]
  /\ \A k \in Setting : row[k].id = None <=> row[k].value = None
  /\ pc \in [Request -> Calls \cup {"new", "ok", "failed", "done"}]
  /\ req \in [Request -> Work]
  /\ wanted \in [Setting -> Value \cup {None}]
  /\ suspect \in SUBSET Setting /\ disturbed \in SUBSET Request

\* The handler a call belongs to.
Steps ==
  \A r \in Request :
    /\ req[r].op = "none" <=> pc[r] \in {"new", "done"}
    /\ pc[r] \in WriteCall =>
         /\ req[r].op \in Writers /\ req[r].todo # <<>>
         /\ pc[r] = "delete" <=> req[r].op = "remove"
         /\ req[r].op = "remove" <=> req[r].arg = None
         /\ pc[r] \in {"save", "update"} => req[r].id # None
    /\ pc[r] \in {"read", "sepay"} => req[r].op \in Readers
    /\ pc[r] = "read" => req[r].todo # <<>>
    /\ pc[r] = "ok" /\ req[r].op = "list" => req[r].got["apiKey"] \in ApiKey
    /\ pc[r] \in Calls => KeysOf(req[r].todo) \subseteq Keys(req[r].op)

\* Who overlaps a writer of one of its keys is disturbed.
Overlap ==
  \A r, q \in Request :
    /\ r # q /\ pc[r] \in Calls /\ pc[q] \in WriteCall
    /\ Keys(req[r].op) \cap Keys(req[q].op) # {}
    => r \in disturbed

\* A writer that was not disturbed has written the keys it has treated.
Written ==
  \A r \in Request : pc[r] \in WriteCall /\ r \notin disturbed =>
    /\ \A k \in Keys(req[r].op) \ KeysOf(req[r].todo) : row[k].value = req[r].arg
    /\ pc[r] = "update" => Mine(r)

\* What a reader is to get.
Answer(k) == IF wanted[k] = None THEN Env(k) ELSE wanted[k]

\* A reader that was not disturbed has got it of the keys it has treated.
Got ==
  \A r \in Request : pc[r] = "read" /\ r \notin disturbed =>
    /\ Keys(req[r].op) \cap suspect = {}
    /\ \A k \in Keys(req[r].op) \ KeysOf(req[r].todo) : req[r].got[k] = Answer(k)

\* SettingsAreLastWritten, by calls.
LastWritten ==
  \A k \in Setting :
    \/ k \in suspect
    \/ \E r \in Request : pc[r] \in WriteCall /\ k \in Keys(req[r].op)
    \/ row[k].value = wanted[k]

SInv == Types /\ Steps /\ Overlap /\ Written /\ Got /\ LastWritten

PageOK ==
  /\ first \in Request \cup {None} /\ call \in Request \cup {None}
  /\ first = None \/ first # call
  /\ loading = (call # None)
  /\ \A r \in {first, call} \ {None} : pc[r] \notin {"new", "done"}
  /\ config \in Value \cup {None, NotLoaded}
  /\ accounts \in ApiKey \cup {None} /\ chosen \in Account \cup {None}
  /\ changing \in BOOLEAN
  /\ causes \in SUBSET Cause

IInv == SInv /\ PageOK

-----------------------------------------------------------------------------

\* The handlers and their keys.
LEMMA Handlers ==
  /\ DOMAIN Reads = Readers /\ DOMAIN Writes = Writers /\ Op = Readers \cup Writers
  /\ "none" \notin Op
  /\ \A op \in Op : Keys(op) \subseteq Setting
  /\ \A op \in Writers : Writes[op] \in Todo \ {<<>>} /\ KeysOf(Writes[op]) = Keys(op)
  /\ \A op \in Readers : Reads[op] \in Todo \ {<<>>} /\ KeysOf(Reads[op]) = Keys(op)
<1>1. /\ DOMAIN Reads = Readers /\ DOMAIN Writes = Writers
  BY DEF Reads, Writes, Readers, Writers
<1>2. Op = Readers \cup Writers /\ "none" \notin Op
  BY <1>1 DEF Op, Readers, Writers
<1>3. ASSUME NEW op \in Writers
      PROVE  /\ Writes[op] \in Todo \ {<<>>} /\ KeysOf(Writes[op]) = Keys(op)
             /\ Keys(op) \subseteq Setting
  <2>1. op \notin DOMAIN Reads
    BY <1>1 DEF Readers, Writers
  <2>2. KeysOf(Writes[op]) = Keys(op)
    BY <2>1 DEF Keys, KeysOf
  <2>3. Writes[op] \in {<<"apiKey">>, <<"number", "bank">>, <<"apiKey", "number", "bank">>,
                        <<"number">>}
    BY DEF Writes, Writers, AccountKeys, AllKeys
  <2> QED
    BY <2>2, <2>3 DEF Todo, KeysOf, Setting
<1>4. ASSUME NEW op \in Readers
      PROVE  /\ Reads[op] \in Todo \ {<<>>} /\ KeysOf(Reads[op]) = Keys(op)
             /\ Keys(op) \subseteq Setting
  <2>1. op \in DOMAIN Reads
    BY <1>1
  <2>2. KeysOf(Reads[op]) = Keys(op)
    BY <2>1 DEF Keys, KeysOf
  <2>3. Reads[op] \in {<<"apiKey">>, <<"number", "bank">>, <<"apiKey", "number", "bank">>,
                       <<"apiKey", "number">>}
    BY DEF Reads, Readers, AccountKeys, AllKeys
  <2> QED
    BY <2>2, <2>3 DEF Todo, KeysOf, Setting
<1> QED
  BY <1>1, <1>2, <1>3, <1>4

LEMMA Blank ==
  /\ Idle \in Work /\ Idle.op = "none" /\ Idle.todo = <<>> /\ Idle.arg = None
  /\ KeysOf(<<>>) = {}
BY DEF Idle, Work, Nothing, Todo, Ids, KeysOf

\* What is left after the next key.
LEMMA Todos ==
  ASSUME NEW s \in Todo, s # <<>>
  PROVE  /\ Tail(s) \in Todo /\ Head(s) \in Setting
         /\ KeysOf(s) = KeysOf(Tail(s)) \cup {Head(s)}
         /\ Len(s) > 1 <=> Tail(s) # <<>>
         /\ Tail(s) = <<>> => KeysOf(s) = {Head(s)}
<1> SUFFICES
      /\ Tail(s) \in Todo /\ Head(s) \in Setting
      /\ KeysOf(s) = KeysOf(Tail(s)) \cup {Head(s)}
      /\ Len(s) > 1 <=> Tail(s) # <<>>
  BY Blank
<1>1. CASE s = <<"apiKey">>
  BY <1>1 DEF Todo, KeysOf, Setting
<1>2. CASE s = <<"number">>
  BY <1>2 DEF Todo, KeysOf, Setting
<1>3. CASE s = <<"bank">>
  BY <1>3 DEF Todo, KeysOf, Setting
<1>4. CASE s = <<"number", "bank">>
  <2>1. Tail(s) = <<"bank">> /\ Head(s) = "number" /\ Len(s) = 2
    BY <1>4
  <2> QED
    BY <1>4, <2>1 DEF Todo, KeysOf, Setting
<1>5. CASE s = <<"apiKey", "number">>
  <2>1. Tail(s) = <<"number">> /\ Head(s) = "apiKey" /\ Len(s) = 2
    BY <1>5
  <2> QED
    BY <1>5, <2>1 DEF Todo, KeysOf, Setting
<1>6. CASE s = <<"apiKey", "number", "bank">>
  <2>1. Tail(s) = <<"number", "bank">> /\ Head(s) = "apiKey" /\ Len(s) = 3
    BY <1>6
  <2> QED
    BY <1>6, <2>1 DEF Todo, KeysOf, Setting
<1> QED
  BY <1>1, <1>2, <1>3, <1>4, <1>5, <1>6 DEF Todo

\* Who is at work, by the call it awaits.
LEMMA AtWork ==
  ASSUME Types, Steps, NEW r \in Request
  PROVE  /\ Running(r) <=> pc[r] \in Calls
         /\ Writing(r) <=> pc[r] \in WriteCall
<1> QED
  BY Handlers DEF Types, Steps, Running, Writing, Calls, WriteCall, Readers, Writers

\* The key a request is at.
LEMMA AtAKey ==
  ASSUME Types, Steps, NEW r \in Request, pc[r] \in WriteCall \cup {"read"}
  PROVE  /\ At(r) \in Setting /\ At(r) \in Keys(req[r].op)
         /\ Tail(req[r].todo) \in Todo
         /\ KeysOf(req[r].todo) = KeysOf(Tail(req[r].todo)) \cup {At(r)}
         /\ Len(req[r].todo) > 1 <=> Tail(req[r].todo) # <<>>
         /\ Tail(req[r].todo) = <<>> => KeysOf(Tail(req[r].todo)) = {}
<1>1. req[r].todo \in Todo /\ req[r].todo # <<>> /\ pc[r] \in Calls
  BY DEF Types, Steps, Work, Calls
<1> QED
  BY <1>1, Todos, Blank DEF Steps, At

-----------------------------------------------------------------------------

\* The other requests are where they were.
Alone(r) ==
  /\ pc' = [pc EXCEPT ![r] = pc'[r]] /\ req' = [req EXCEPT ![r] = req'[r]]
  /\ pc'[r] \in Calls \cup {"new", "ok", "failed", "done"} /\ req'[r] \in Work

LEMMA OthersStay ==
  ASSUME Types, NEW r \in Request, Alone(r)
  PROVE  /\ \A q \in Request \ {r} : pc'[q] = pc[q] /\ req'[q] = req[q]
         /\ pc' \in [Request -> Calls \cup {"new", "ok", "failed", "done"}]
         /\ req' \in [Request -> Work]
BY DEF Types, Alone

\* A writer does its next call and has changed nothing yet.
LEMMA WriterCalls ==
  ASSUME SInv, NEW r \in Request, pc[r] \in WriteCall \ {"delete"}, Alone(r),
         pc'[r] \in WriteCall \ {"delete"}, req'[r].op = req[r].op, req'[r].arg = req[r].arg,
         req'[r].todo = req[r].todo, pc'[r] = "update" => row[At(r)].id = req'[r].id,
         pc'[r] \in {"save", "update"} => req'[r].id # None,
         UNCHANGED <<row, wanted, suspect, disturbed>>
  PROVE  SInv'
<1>t. Types /\ Steps /\ Overlap /\ Written /\ Got /\ LastWritten
  BY DEF SInv
<1> USE <1>t
<1>0. /\ \A q \in Request \ {r} : pc'[q] = pc[q] /\ req'[q] = req[q]
      /\ pc' \in [Request -> Calls \cup {"new", "ok", "failed", "done"}]
      /\ req' \in [Request -> Work]
  BY OthersStay
<1>1. Types'
  BY <1>0 DEF Types
<1>2. Steps'
  <2>1. pc[r] \in Calls /\ pc'[r] \in Calls
    BY DEF WriteCall, Calls
  <2> QED
    BY <1>0, <2>1 DEF Steps, WriteCall
<1>3. Overlap'
  <2>1. \A q \in Request : /\ pc'[q] \in Calls <=> pc[q] \in Calls
                           /\ pc'[q] \in WriteCall <=> pc[q] \in WriteCall
                           /\ req'[q].op = req[q].op
    BY <1>0 DEF WriteCall, Calls
  <2> QED
    BY <2>1 DEF Overlap
<1>4. Written'
  <2>1. ASSUME NEW q \in Request \ {r}, pc'[q] \in WriteCall, q \notin disturbed'
        PROVE  /\ \A k \in Keys(req'[q].op) \ KeysOf(req'[q].todo) : row'[k].value = req'[q].arg
               /\ pc'[q] = "update" => Mine(q)'
    BY <1>0, <2>1 DEF Written, Mine, At
  <2>2. ASSUME r \notin disturbed'
        PROVE  /\ \A k \in Keys(req'[r].op) \ KeysOf(req'[r].todo) : row'[k].value = req'[r].arg
               /\ pc'[r] = "update" => Mine(r)'
    BY <2>2 DEF Written, Mine, At
  <2> QED
    BY <2>1, <2>2 DEF Written
<1>5. Got'
  <2>1. \A q \in Request : pc'[q] = "read" => q # r /\ pc[q] = "read" /\ req'[q] = req[q]
    BY <1>0 DEF WriteCall
  <2> QED
    BY <2>1 DEF Got, Answer
<1>6. LastWritten'
  <2>1. \A q \in Request : pc[q] \in WriteCall =>
                             pc'[q] \in WriteCall /\ req'[q].op = req[q].op
    BY <1>0
  <2> QED
    BY <2>1 DEF LastWritten
<1> QED
  BY <1>1, <1>2, <1>3, <1>4, <1>5, <1>6 DEF SInv

\* A writer has done a key and goes on to the next, or has done its last.
LEMMA WriterGoesOn ==
  ASSUME SInv, NEW r \in Request, pc[r] \in WriteCall, NEW here \in {"find", "delete"},
         here = "delete" <=> req[r].op = "remove", Advance(r, here), Settled(r),
         row' \in [Setting -> [id : Ids, value : Value \cup {None}]],
         \A k \in Setting : row'[k].id = None <=> row'[k].value = None,
         \A k \in Setting \ {At(r)} : row'[k] = row[k],
         r \notin disturbed => row'[At(r)].value = req[r].arg
  PROVE  SInv'
<1>t. Types /\ Steps /\ Overlap /\ Written /\ Got /\ LastWritten
  BY DEF SInv
<1> USE <1>t
<1> DEFINE k0 == At(r)
           rest == Tail(req[r].todo)
<1>k. /\ k0 \in Setting /\ k0 \in Keys(req[r].op) /\ rest \in Todo
      /\ KeysOf(req[r].todo) = KeysOf(rest) \cup {k0}
      /\ Len(req[r].todo) > 1 <=> rest # <<>>
      /\ rest = <<>> => KeysOf(rest) = {}
  BY AtAKey
<1>o. /\ req[r] \in Work /\ req[r].op \in Writers /\ pc[r] \in Calls
      /\ KeysOf(req[r].todo) \subseteq Keys(req[r].op) /\ req[r].arg \in Value \cup {None}
      /\ req[r].op = "remove" <=> req[r].arg = None
      /\ Keys(req[r].op) \subseteq Setting
  BY Handlers DEF Types, Steps, Work, WriteCall, Calls
<1>e. /\ pc' = [pc EXCEPT ![r] = IF rest # <<>> THEN here ELSE "ok"]
      /\ req' = [req EXCEPT ![r].todo = rest, ![r].id = None]
  BY <1>k DEF Advance, Goto
<1>r. /\ pc'[r] = (IF rest # <<>> THEN here ELSE "ok")
      /\ req'[r] \in Work /\ req'[r].op = req[r].op /\ req'[r].arg = req[r].arg
      /\ req'[r].todo = rest
  BY <1>e, <1>k, <1>o DEF Types, Work, Ids
<1>0. /\ \A q \in Request \ {r} : pc'[q] = pc[q] /\ req'[q] = req[q]
      /\ pc' \in [Request -> Calls \cup {"new", "ok", "failed", "done"}]
      /\ req' \in [Request -> Work]
  <2>1. pc'[r] \in Calls \cup {"new", "ok", "failed", "done"}
    BY <1>r DEF Calls, WriteCall
  <2>2. pc' = [pc EXCEPT ![r] = pc'[r]] /\ req' = [req EXCEPT ![r] = req'[r]]
    BY <1>e DEF Types, Work
  <2> HIDE DEF rest, k0
  <2> QED
    BY <2>1, <2>2, <1>r, OthersStay DEF Alone
<1> HIDE DEF rest, k0
<1>s. CASE rest # <<>>
  <2>e. UNCHANGED <<wanted, suspect, disturbed>> /\ pc'[r] = here
    BY <1>s, <1>k, <1>r DEF Settled
  <2>1. Types'
    BY <1>0, <2>e DEF Types
  <2>2. Steps'
    <3>1. /\ pc'[r] \in WriteCall /\ pc'[r] \notin {"new", "done", "read", "sepay", "ok"}
          /\ KeysOf(req'[r].todo) \subseteq Keys(req'[r].op)
          /\ pc[r] \notin {"new", "done"}
      BY <2>e, <1>k, <1>r, <1>o DEF WriteCall
    <3>2. req'[r].op # "none"
      BY <1>r, <1>o DEF Writers
    <3> QED
      BY <1>0, <2>e, <1>s, <1>r, <1>o, <3>1, <3>2 DEF Steps
  <2>3. Overlap'
    <3>1. \A q \in Request : /\ pc'[q] \in Calls <=> pc[q] \in Calls
                             /\ pc'[q] \in WriteCall <=> pc[q] \in WriteCall
                             /\ req'[q].op = req[q].op
      BY <1>0, <1>r, <2>e, <1>o DEF WriteCall, Calls
    <3> QED
      BY <3>1, <2>e DEF Overlap
  <2>4. Written'
    <3>1. ASSUME NEW q \in Request \ {r}, pc'[q] \in WriteCall, q \notin disturbed'
          PROVE  /\ \A k \in Keys(req'[q].op) \ KeysOf(req'[q].todo) :
                        row'[k].value = req'[q].arg
                 /\ pc'[q] = "update" => Mine(q)'
      <4>1. pc[q] \in WriteCall /\ pc[q] \in Calls /\ req'[q] = req[q] /\ q \notin disturbed
        BY <3>1, <1>0, <2>e DEF Calls
      <4>2. k0 \notin Keys(req[q].op) /\ Keys(req[q].op) \subseteq Setting
        BY <4>1, <1>k, Handlers DEF Overlap, Steps
      <4>3. \A k \in Keys(req[q].op) : row'[k] = row[k]
        BY <4>2 DEF k0
      <4>4. At(q) \in Keys(req[q].op)
        BY <4>1, AtAKey
      <4> QED
        BY <4>1, <4>3, <4>4, <3>1, <1>0 DEF Written, Mine, At
    <3>2. ASSUME r \notin disturbed'
          PROVE  /\ \A k \in Keys(req'[r].op) \ KeysOf(req'[r].todo) :
                        row'[k].value = req'[r].arg
                 /\ pc'[r] = "update" => Mine(r)'
      <4>1. row'[k0].value = req[r].arg
        BY <3>2, <2>e DEF k0
      <4>2. \A k \in Keys(req[r].op) \ KeysOf(req[r].todo) : row'[k].value = req[r].arg
        <5>1. \A k \in Keys(req[r].op) \ KeysOf(req[r].todo) : k # k0 /\ k \in Setting
          BY <1>k, <1>o
        <5> QED
          BY <3>2, <2>e, <5>1 DEF k0, Written
      <4> QED
        BY <1>k, <1>r, <2>e, <4>1, <4>2
    <3> QED
      BY <3>1, <3>2 DEF Written
  <2>5. Got'
    <3>1. \A q \in Request : pc'[q] = "read" => q # r /\ pc[q] = "read" /\ req'[q] = req[q]
      BY <1>0, <2>e
    <3> QED
      BY <3>1, <2>e DEF Got, Answer
  <2>6. LastWritten'
    <3>1. /\ \A q \in Request : pc[q] \in WriteCall =>
                                  pc'[q] \in WriteCall /\ req'[q].op = req[q].op
          /\ pc'[r] \in WriteCall
      BY <1>0, <1>r, <2>e DEF WriteCall
    <3>2. \A k \in Setting : k = k0 \/ row'[k] = row[k]
      BY DEF k0
    <3> QED
      BY <1>k, <1>r, <2>e, <3>1, <3>2 DEF LastWritten
  <2> QED
    BY <2>1, <2>2, <2>3, <2>4, <2>5, <2>6 DEF SInv
<1>z. CASE rest = <<>>
  <2>e. /\ pc'[r] = "ok" /\ disturbed' = disturbed \ {r}
        /\ r \in disturbed => suspect' = suspect \cup Keys(req[r].op) /\ wanted' = wanted
        /\ r \notin disturbed =>
             /\ suspect' = suspect \ Keys(req[r].op)
             /\ wanted' = [k \in Setting |->
                            IF k \in Keys(req[r].op) THEN req[r].arg ELSE wanted[k]]
    BY <1>z, <1>k, <1>r DEF Settled
  <2>w. /\ \A k \in Setting \ Keys(req[r].op) : /\ wanted'[k] = wanted[k] /\ row'[k] = row[k]
                                                /\ k \in suspect' <=> k \in suspect
        /\ wanted' \in [Setting -> Value \cup {None}] /\ suspect' \subseteq Setting
    <3>1. \A k \in Setting \ Keys(req[r].op) : row'[k] = row[k]
      BY <1>k DEF k0
    <3>2. CASE r \in disturbed
      BY <3>1, <3>2, <2>e, <1>o DEF Types
    <3>3. CASE r \notin disturbed
      BY <3>1, <3>3, <2>e, <1>o DEF Types
    <3> QED
      BY <3>2, <3>3
  <2>1. Types'
    BY <1>0, <2>e, <2>w DEF Types
  <2>2. Steps'
    <3>1. req'[r].op # "none" /\ req'[r].op # "list" /\ pc'[r] \notin Calls
      BY <1>r, <1>o, <2>e DEF Writers, Calls, WriteCall
    <3> QED
      <4>1. /\ pc'[r] \notin {"new", "done", "read", "sepay"} /\ pc'[r] \notin WriteCall
            /\ pc[r] \notin {"new", "done"}
        BY <2>e, <3>1 DEF Calls, WriteCall
      <4> QED
        BY <1>0, <3>1, <4>1 DEF Steps
  <2>3. Overlap'
    <3>1. pc'[r] \notin Calls
      BY <2>e DEF Calls, WriteCall
    <3> QED
      BY <1>0, <2>e, <3>1 DEF Overlap, Calls
  <2>4. Written'
    <3>1. ASSUME NEW q \in Request, pc'[q] \in WriteCall, q \notin disturbed'
          PROVE  /\ \A k \in Keys(req'[q].op) \ KeysOf(req'[q].todo) :
                        row'[k].value = req'[q].arg
                 /\ pc'[q] = "update" => Mine(q)'
      <4>0. q # r
        BY <3>1, <2>e DEF WriteCall
      <4>1. pc[q] \in WriteCall /\ pc[q] \in Calls /\ req'[q] = req[q] /\ q \notin disturbed
        BY <4>0, <3>1, <1>0, <2>e DEF Calls
      <4>2. k0 \notin Keys(req[q].op) /\ Keys(req[q].op) \subseteq Setting
        BY <4>0, <4>1, <1>k, Handlers DEF Overlap, Steps
      <4>3. \A k \in Keys(req[q].op) : row'[k] = row[k]
        BY <4>2 DEF k0
      <4>4. At(q) \in Keys(req[q].op)
        BY <4>1, AtAKey
      <4> QED
        BY <4>0, <4>1, <4>3, <4>4, <3>1, <1>0 DEF Written, Mine, At
    <3> QED
      BY <3>1 DEF Written
  <2>5. Got'
    <3>1. ASSUME NEW q \in Request, pc'[q] = "read", q \notin disturbed'
          PROVE  /\ Keys(req'[q].op) \cap suspect' = {}
                 /\ \A k \in Keys(req'[q].op) \ KeysOf(req'[q].todo) :
                       req'[q].got[k] = Answer(k)'
      <4>0. q # r
        BY <3>1, <2>e
      <4>1. pc[q] = "read" /\ pc[q] \in Calls /\ req'[q] = req[q] /\ q \notin disturbed
        BY <4>0, <3>1, <1>0, <2>e DEF Calls
      <4>2. Keys(req[q].op) \cap Keys(req[r].op) = {} /\ Keys(req[q].op) \subseteq Setting
        BY <4>0, <4>1, Handlers DEF Overlap, Steps
      <4>3. \A k \in Keys(req[q].op) : wanted'[k] = wanted[k] /\ (k \in suspect' <=> k \in suspect)
        BY <4>2, <2>w
      <4> QED
        BY <4>1, <4>3 DEF Got, Answer
    <3> QED
      BY <3>1 DEF Got
  <2>6. LastWritten'
    <3>1. ASSUME NEW k \in Keys(req[r].op)
          PROVE  k \in suspect' \/ row'[k].value = wanted'[k]
      <4>1. CASE r \in disturbed
        BY <4>1, <2>e
      <4>2. CASE r \notin disturbed
        <5>1. wanted'[k] = req[r].arg
          BY <4>2, <2>e, <1>o
        <5>2. CASE k = k0
          BY <4>2, <5>1, <5>2 DEF k0
        <5>3. CASE k # k0
          <6>1. row[k].value = req[r].arg
            BY <4>2, <5>3, <1>k, <1>z DEF Written
          <6>2. row'[k] = row[k]
            BY <5>3, <1>o DEF k0
          <6> QED
            BY <5>1, <6>1, <6>2
        <5> QED
          BY <5>2, <5>3
      <4> QED
        BY <4>1, <4>2
    <3>2. ASSUME NEW k \in Setting \ Keys(req[r].op)
          PROVE  \/ k \in suspect'
                 \/ \E q \in Request : pc'[q] \in WriteCall /\ k \in Keys(req'[q].op)
                 \/ row'[k].value = wanted'[k]
      <4>1. \/ k \in suspect
            \/ \E q \in Request : pc[q] \in WriteCall /\ k \in Keys(req[q].op)
            \/ row[k].value = wanted[k]
        BY DEF LastWritten
      <4> QED
        BY <4>1, <2>w, <1>0
    <3> QED
      BY <3>1, <3>2 DEF LastWritten
  <2> QED
    BY <2>1, <2>2, <2>3, <2>4, <2>5, <2>6 DEF SInv
<1> QED
  BY <1>s, <1>z

\* A writer fails and leaves its keys as they are.
LEMMA WriterFails ==
  ASSUME SInv, NEW r \in Request, pc[r] \in WriteCall, Goto(r, "failed"),
         req' = [req EXCEPT ![r].id = None], suspect' = suspect \cup Keys(req[r].op),
         disturbed' = disturbed \ {r}, UNCHANGED <<row, wanted>>
  PROVE  SInv'
<1>t. Types /\ Steps /\ Overlap /\ Written /\ Got /\ LastWritten
  BY DEF SInv
<1> USE <1>t
<1>o. /\ req[r].op \in Writers /\ Keys(req[r].op) \subseteq Setting
      /\ pc[r] \notin {"new", "done"}
  BY Handlers DEF Steps, WriteCall
<1>r. pc'[r] = "failed" /\ req'[r] \in Work /\ req'[r].op = req[r].op
  BY DEF Goto, Types, Work, Ids
<1>0. /\ \A q \in Request \ {r} : pc'[q] = pc[q] /\ req'[q] = req[q]
      /\ pc' \in [Request -> Calls \cup {"new", "ok", "failed", "done"}]
      /\ req' \in [Request -> Work]
  <2>1. pc' = [pc EXCEPT ![r] = pc'[r]] /\ req' = [req EXCEPT ![r] = req'[r]]
    BY DEF Goto, Types, Work
  <2> QED
    BY <1>r, <2>1, OthersStay DEF Alone
<1>n. pc'[r] \notin Calls /\ pc'[r] \notin WriteCall
  BY <1>r DEF Calls, WriteCall
<1>1. Types'
  BY <1>0, <1>o DEF Types
<1>2. Steps'
  <2>1. req'[r].op # "none"
    BY <1>r, <1>o DEF Writers
  <2> QED
    BY <1>0, <1>r, <1>n, <2>1 DEF Steps, Calls
<1>3. Overlap'
  BY <1>0, <1>n DEF Overlap, Calls
<1>4. Written'
  <2>1. \A q \in Request : pc'[q] \in WriteCall => q # r /\ pc'[q] = pc[q] /\ req'[q] = req[q]
    BY <1>0, <1>n
  <2> QED
    BY <2>1 DEF Written, Mine, At
<1>5. Got'
  <2>1. ASSUME NEW q \in Request, pc'[q] = "read", q \notin disturbed'
        PROVE  /\ Keys(req'[q].op) \cap suspect' = {}
               /\ \A k \in Keys(req'[q].op) \ KeysOf(req'[q].todo) :
                     req'[q].got[k] = Answer(k)'
    <3>1. q # r /\ pc[q] = "read" /\ pc[q] \in Calls /\ req'[q] = req[q] /\ q \notin disturbed
      BY <2>1, <1>0, <1>r DEF Calls
    <3>2. Keys(req[q].op) \cap Keys(req[r].op) = {}
      BY <3>1 DEF Overlap
    <3> QED
      BY <3>1, <3>2 DEF Got, Answer
  <2> QED
    BY <2>1 DEF Got
<1>6. LastWritten'
  <2>1. ASSUME NEW k \in Setting
        PROVE  \/ k \in suspect'
               \/ \E q \in Request : pc'[q] \in WriteCall /\ k \in Keys(req'[q].op)
               \/ row'[k].value = wanted'[k]
    <3>1. \/ k \in suspect
          \/ \E q \in Request : pc[q] \in WriteCall /\ k \in Keys(req[q].op)
          \/ row[k].value = wanted[k]
      BY DEF LastWritten
    <3> QED
      BY <3>1, <1>0
  <2> QED
    BY <2>1 DEF LastWritten
<1> QED
  BY <1>1, <1>2, <1>3, <1>4, <1>5, <1>6 DEF SInv

\* A request that writes nothing moves on, arrives as a reader or ends.
LEMMA NoWriter ==
  ASSUME SInv, NEW r \in Request, pc[r] \notin WriteCall, pc'[r] \notin WriteCall, Alone(r),
         req'[r].op = "none" <=> pc'[r] \in {"new", "done"},
         pc'[r] \in {"read", "sepay"} =>
           req'[r].op \in Readers /\ KeysOf(req'[r].todo) \subseteq Keys(req'[r].op),
         pc'[r] = "read" => req'[r].todo # <<>>,
         pc'[r] = "ok" /\ req'[r].op = "list" => req'[r].got["apiKey"] \in ApiKey,
         disturbed' \in SUBSET Request, disturbed' \ {r} = disturbed \ {r},
         \A q \in Request : /\ pc'[r] \in Calls /\ q # r /\ pc[q] \in WriteCall
                            /\ Keys(req'[r].op) \cap Keys(req[q].op) # {}
                            => r \in disturbed',
         pc'[r] = "read" /\ r \notin disturbed' =>
           /\ Keys(req'[r].op) \cap suspect = {}
           /\ \A k \in Keys(req'[r].op) \ KeysOf(req'[r].todo) : req'[r].got[k] = Answer(k),
         UNCHANGED <<row, wanted, suspect>>
  PROVE  SInv'
<1>t. Types /\ Steps /\ Overlap /\ Written /\ Got /\ LastWritten
  BY DEF SInv
<1> USE <1>t
<1>0. /\ \A q \in Request \ {r} : /\ pc'[q] = pc[q] /\ req'[q] = req[q]
                                  /\ q \in disturbed' <=> q \in disturbed
      /\ pc' \in [Request -> Calls \cup {"new", "ok", "failed", "done"}]
      /\ req' \in [Request -> Work]
  BY OthersStay
<1>1. Types'
  BY <1>0 DEF Types
<1>2. Steps'
  <2>1. pc'[r] \in Calls => pc'[r] \in {"read", "sepay"}
    BY DEF Calls
  <2> QED
    BY <1>0, <2>1 DEF Steps
<1>3. Overlap'
  BY <1>0 DEF Overlap
<1>4. Written'
  <2>1. \A q \in Request : pc'[q] \in WriteCall =>
          /\ q # r /\ pc'[q] = pc[q] /\ req'[q] = req[q]
          /\ q \in disturbed' <=> q \in disturbed
    BY <1>0
  <2> QED
    BY <2>1 DEF Written, Mine, At
<1>5. Got'
  <2>1. \A k : Answer(k)' = Answer(k)
    BY DEF Answer
  <2>2. ASSUME NEW q \in Request, pc'[q] = "read", q \notin disturbed'
        PROVE  /\ Keys(req'[q].op) \cap suspect' = {}
               /\ \A k \in Keys(req'[q].op) \ KeysOf(req'[q].todo) :
                     req'[q].got[k] = Answer(k)'
    <3>1. CASE q = r
      BY <2>1, <2>2, <3>1
    <3>2. CASE q # r
      <4>1. pc[q] = "read" /\ q \notin disturbed /\ req'[q] = req[q]
        BY <2>2, <3>2, <1>0
      <4> QED
        BY <2>1, <4>1 DEF Got
    <3> QED
      BY <3>1, <3>2
  <2> QED
    BY <2>2 DEF Got
<1>6. LastWritten'
  BY <1>0 DEF LastWritten
<1> QED
  BY <1>1, <1>2, <1>3, <1>4, <1>5, <1>6 DEF SInv

\* A request arrives; if it is a writer, it disturbs the others of its keys.
LEMMA AskStep ==
  ASSUME SInv, NEW r \in Request, NEW op \in Op, NEW arg \in Value \cup {None},
         op \in Writers => (op = "remove" <=> arg = None), Ask(r, op, arg)
  PROVE  SInv' /\ Alone(r) /\ pc[r] = "new" /\ pc'[r] \in Calls
<1>t. Types /\ Steps /\ Overlap /\ Written /\ Got /\ LastWritten
  BY DEF SInv
<1> USE <1>t
<1> DEFINE write == op \in Writers
           w == [Idle EXCEPT !.op = op, !.arg = arg,
                             !.todo = IF write THEN Writes[op] ELSE Reads[op]]
           go == IF ~write THEN "read" ELSE IF op = "remove" THEN "delete" ELSE "find"
<1>e. /\ pc[r] = "new" /\ req' = [req EXCEPT ![r] = w] /\ pc' = [pc EXCEPT ![r] = go]
      /\ UNCHANGED <<row, wanted, suspect>>
  BY Handlers DEF Ask, Goto
<1>w. /\ w \in Work /\ w.op = op /\ w.arg = arg /\ w.todo \in Todo /\ w.todo # <<>>
      /\ KeysOf(w.todo) = Keys(op)
  <2>1. /\ (IF write THEN Writes[op] ELSE Reads[op]) \in Todo \ {<<>>}
        /\ KeysOf(IF write THEN Writes[op] ELSE Reads[op]) = Keys(op)
    BY Handlers
  <2>2. PICK s \in Todo \ {<<>>} : /\ s = (IF write THEN Writes[op] ELSE Reads[op])
                                   /\ KeysOf(s) = Keys(op)
    BY <2>1
  <2>3. w = [Idle EXCEPT !.op = op, !.arg = arg, !.todo = s]
    BY <2>2
  <2> HIDE DEF w, write
  <2> QED
    BY <2>2, <2>3, Blank DEF Work
<1>c. go \in Calls /\ (write => go \in WriteCall) /\ (~write => go = "read")
  BY DEF Calls, WriteCall
<1>r. /\ pc'[r] = go /\ req'[r] = w /\ Alone(r)
  <2> HIDE DEF w, go
  <2> QED
    BY <1>e, <1>w, <1>c DEF Types, Alone
<1>d. /\ disturbed' \in SUBSET Request
      /\ \A q \in Request \ {r} : q \in disturbed => q \in disturbed'
      /\ ~write => disturbed' \ {r} = disturbed \ {r}
      /\ \A q \in Request \ {r} : /\ pc[q] \in WriteCall /\ Keys(req[q].op) \cap Keys(op) # {}
                                  => r \in disturbed'
      /\ \A q \in Request \ {r} : /\ write /\ pc[q] \in Calls
                                  /\ Keys(req[q].op) \cap Keys(op) # {}
                                  => q \in disturbed'
      /\ ~write /\ Keys(op) \cap suspect # {} => r \in disturbed'
  <2> DEFINE others == {q \in Request : Running(q) /\ Keys(req[q].op) \cap Keys(op) # {}}
             hit == {q \in others : write \/ Writing(q)}
  <2>1. disturbed' = (disturbed \ {r})
           \cup (IF write THEN hit ELSE {})
           \cup (IF \/ \E q \in hit : Writing(q)
                    \/ ~write /\ Keys(op) \cap suspect # {} THEN {r} ELSE {})
    BY Handlers DEF Ask
  <2>2. \A q \in Request : /\ Running(q) <=> pc[q] \in Calls
                           /\ Writing(q) <=> pc[q] \in WriteCall
                           /\ pc[q] \in WriteCall => pc[q] \in Calls
    BY AtWork DEF Calls
  <2>3. disturbed \subseteq Request /\ hit \subseteq Request
    BY DEF Types
  <2>4. \A q \in Request : pc[q] \in WriteCall /\ Keys(req[q].op) \cap Keys(op) # {} =>
                             q \in hit /\ Writing(q)
    BY <2>2
  <2>5. \A q \in Request : /\ write /\ pc[q] \in Calls /\ Keys(req[q].op) \cap Keys(op) # {}
                           => q \in hit
    BY <2>2
  <2> HIDE DEF hit, write
  <2> QED
    BY <2>1, <2>3, <2>4, <2>5
<1>n. pc[r] \notin Calls /\ pc[r] \notin WriteCall
  BY <1>e DEF Calls, WriteCall
<1>1. CASE ~write
  <2>1. op \in Readers
    BY <1>1, Handlers
  <2>2. Keys(op) \ KeysOf(w.todo) = {}
    BY <1>w
  <2>3. pc'[r] = "read" /\ pc'[r] \notin WriteCall /\ op # "none"
    BY <1>1, <1>r, <1>c, Handlers DEF WriteCall
  <2> HIDE DEF w, go, write
  <2>4. SInv'
    BY <1>1, <1>d, <1>e, <1>r, <1>w, <1>n, <2>1, <2>2, <2>3, NoWriter
  <2> QED
    BY <1>e, <1>r, <1>c, <2>4
<1>2. CASE write
  <2> HIDE DEF w
  <2>0. /\ \A q \in Request \ {r} : pc'[q] = pc[q] /\ req'[q] = req[q]
        /\ pc' \in [Request -> Calls \cup {"new", "ok", "failed", "done"}]
        /\ req' \in [Request -> Work]
    BY <1>r, OthersStay
  <2>1. Types'
    BY <2>0, <1>e, <1>d DEF Types
  <2>2. Steps'
    <3>1. /\ req'[r].op = op /\ op # "none" /\ op \in Writers /\ req'[r].arg = arg
          /\ req'[r].todo # <<>> /\ KeysOf(req'[r].todo) \subseteq Keys(req'[r].op)
      BY <1>2, <1>r, <1>w, Handlers
    <3>2. /\ pc'[r] \in {"find", "delete"} /\ (pc'[r] = "delete" <=> op = "remove")
      BY <1>2, <1>r
    <3> HIDE DEF go
    <3>3. /\ req'[r].op = "none" <=> pc'[r] \in {"new", "done"}
          /\ pc'[r] \in WriteCall =>
               /\ req'[r].op \in Writers /\ req'[r].todo # <<>>
               /\ pc'[r] = "delete" <=> req'[r].op = "remove"
               /\ req'[r].op = "remove" <=> req'[r].arg = None
               /\ pc'[r] \notin {"save", "update"}
          /\ pc'[r] \notin {"read", "sepay", "ok"}
          /\ KeysOf(req'[r].todo) \subseteq Keys(req'[r].op)
      BY <1>2, <3>1, <3>2
    <3> QED
      BY <2>0, <3>3 DEF Steps
  <2>3. Overlap'
    <3>1. ASSUME NEW p \in Request, NEW q \in Request, p # q, pc'[p] \in Calls,
                 pc'[q] \in WriteCall, Keys(req'[p].op) \cap Keys(req'[q].op) # {}
          PROVE  p \in disturbed'
      <4>1. CASE p = r
        <5>1. pc[q] \in WriteCall /\ Keys(req[q].op) \cap Keys(op) # {}
          BY <3>1, <4>1, <2>0, <1>r, <1>w
        <5> QED
          BY <3>1, <4>1, <5>1, <1>d
      <4>2. CASE q = r
        <5>1. pc[p] \in Calls /\ Keys(req[p].op) \cap Keys(op) # {}
          BY <3>1, <4>2, <2>0, <1>r, <1>w
        <5> QED
          BY <3>1, <4>2, <5>1, <1>d, <1>2
      <4>3. CASE p # r /\ q # r
        BY <3>1, <4>3, <2>0, <1>d DEF Overlap
      <4> QED
        BY <4>1, <4>2, <4>3
    <3> QED
      BY <3>1 DEF Overlap
  <2>4. Written'
    <3>1. /\ Keys(req'[r].op) \ KeysOf(req'[r].todo) = {} /\ pc'[r] # "update"
      BY <1>r, <1>w
    <3>2. \A q \in Request \ {r} : q \notin disturbed' => q \notin disturbed
      BY <1>d
    <3>3. ASSUME NEW q \in Request, pc'[q] \in WriteCall, q \notin disturbed'
          PROVE  /\ \A k \in Keys(req'[q].op) \ KeysOf(req'[q].todo) :
                        row'[k].value = req'[q].arg
                 /\ pc'[q] = "update" => Mine(q)'
      <4>1. CASE q = r
        BY <3>1, <4>1
      <4>2. CASE q # r
        BY <3>2, <3>3, <4>2, <2>0, <1>e DEF Written, Mine, At
      <4> QED
        BY <4>1, <4>2
    <3> QED
      BY <3>3 DEF Written
  <2>5. Got'
    <3>1. \A q \in Request : pc'[q] = "read" /\ q \notin disturbed' =>
            q # r /\ pc[q] = "read" /\ req'[q] = req[q] /\ q \notin disturbed
      BY <2>0, <1>2, <1>c, <1>r, <1>d DEF WriteCall
    <3> QED
      BY <3>1, <1>e DEF Got, Answer
  <2>6. LastWritten'
    <3>1. \A q \in Request : pc[q] \in WriteCall =>
                               pc'[q] \in WriteCall /\ req'[q].op = req[q].op
      BY <2>0, <1>n
    <3> QED
      BY <3>1, <1>e DEF LastWritten
  <2> HIDE DEF go, write
  <2> QED
    BY <1>e, <1>r, <1>c, <2>1, <2>2, <2>3, <2>4, <2>5, <2>6 DEF SInv
<1> QED
  BY <1>1, <1>2

\* A reader reads its next key.
LEMMA ReadStep ==
  ASSUME SInv, NEW r \in Request, NEW fails \in BOOLEAN, Read(r, fails)
  PROVE  /\ SInv' /\ Alone(r) /\ pc'[r] \notin {"new", "done"}
         /\ pc[r] = "read" /\ req'[r].op = req[r].op
         /\ pc'[r] \in {"ok", "sepay"} /\ r \notin disturbed' =>
              \A k \in Keys(req[r].op) : req'[r].got[k] = Answer(k)
<1>t. Types /\ Steps /\ Overlap /\ Written /\ Got /\ LastWritten
  BY DEF SInv
<1> USE <1>t
<1> DEFINE k0 == At(r)
           rest == Tail(req[r].todo)
           v == IF row[k0].id # None /\ ~fails THEN row[k0].value ELSE Env(k0)
           got == [req[r].got EXCEPT ![k0] = v]
           end == IF req[r].op \in {"qr", "config"} THEN "ok"
                  ELSE IF \A x \in Keys(req[r].op) : got[x] # None THEN "sepay"
                  ELSE IF req[r].op = "status" THEN "ok" ELSE "failed"
<1>e. /\ pc[r] = "read" /\ pc' = [pc EXCEPT ![r] = IF Len(req[r].todo) > 1 THEN "read" ELSE end]
      /\ req' = [req EXCEPT ![r].todo = rest, ![r].got = got]
      /\ disturbed' = IF fails THEN disturbed \cup {r} ELSE disturbed
      /\ UNCHANGED <<row, wanted, suspect>>
  BY DEF Read, Goto
<1>k. /\ k0 \in Setting /\ k0 \in Keys(req[r].op) /\ rest \in Todo
      /\ KeysOf(req[r].todo) = KeysOf(rest) \cup {k0}
      /\ Len(req[r].todo) > 1 <=> rest # <<>>
      /\ rest = <<>> => KeysOf(rest) = {}
  BY <1>e, AtAKey
<1>o. /\ req[r] \in Work /\ req[r].op \in Readers /\ pc[r] \in Calls /\ pc[r] \notin WriteCall
      /\ KeysOf(req[r].todo) \subseteq Keys(req[r].op)
      /\ req[r].got \in [Setting -> Value \cup {None}]
      /\ Keys(req[r].op) \subseteq Setting
  BY <1>e, Handlers DEF Types, Steps, Work, WriteCall, Calls
<1>v. v \in Value \cup {None}
  BY <1>k, ValueAssumption DEF Types, Env, Value
<1>n. /\ end \in {"ok", "sepay", "failed"} /\ (req[r].op = "list" => end # "ok")
  BY DEF Readers
<1>g. got \in [Setting -> Value \cup {None}] /\ got[k0] = v
      /\ \A k \in Setting \ {k0} : got[k] = req[r].got[k]
  <2> HIDE DEF v, k0
  <2> QED
    BY <1>o, <1>k, <1>v
<1> HIDE DEF rest, v, got, end
<1>r. /\ pc'[r] = (IF rest # <<>> THEN "read" ELSE end)
      /\ req'[r] \in Work /\ req'[r].op = req[r].op /\ req'[r].got = got /\ req'[r].todo = rest
  <2>1. Types /\ req[r] \in Work
    BY <1>o
  <2> QED
    BY <1>e, <1>k, <1>g, <2>1 DEF Types, Work
<1>a. Alone(r)
  <2>1. pc' = [pc EXCEPT ![r] = pc'[r]] /\ req' = [req EXCEPT ![r] = req'[r]]
    BY <1>e DEF Types, Work
  <2> QED
    BY <1>n, <1>r, <2>1 DEF Alone, Calls
<1>q. r \notin disturbed' =>
        \A k \in Keys(req[r].op) \ KeysOf(rest) : got[k] = Answer(k)
  <2> SUFFICES ASSUME r \notin disturbed', NEW k \in Keys(req[r].op) \ KeysOf(rest)
               PROVE  got[k] = Answer(k)
    OBVIOUS
  <2>1. ~fails /\ r \notin disturbed
    BY <1>e
  <2>2. CASE k # k0
    <3>1. k \in Keys(req[r].op) \ KeysOf(req[r].todo) /\ k \in Setting
      BY <2>2, <1>k, <1>o
    <3> QED
      BY <2>1, <2>2, <3>1, <1>e, <1>g DEF Got
  <2>3. CASE k = k0
    <3>1. k0 \notin suspect
      BY <2>1, <1>e, <1>k DEF Got
    <3>2. ~\E q \in Request : pc[q] \in WriteCall /\ k0 \in Keys(req[q].op)
      <4> SUFFICES ASSUME NEW q \in Request, pc[q] \in WriteCall, k0 \in Keys(req[q].op)
                   PROVE  FALSE
        OBVIOUS
      <4>1. q # r /\ Keys(req[r].op) \cap Keys(req[q].op) # {}
        BY <1>o, <1>k
      <4> QED
        BY <4>1, <2>1, <1>o DEF Overlap
    <3>3. row[k0].value = wanted[k0]
      BY <3>1, <3>2, <1>k DEF LastWritten
    <3>4. v = Answer(k0)
      BY <2>1, <3>3, <1>k DEF v, Answer, Types
    <3> QED
      BY <2>3, <3>4, <1>g
  <2> QED
    BY <2>2, <2>3
<1>1. SInv'
  <2>1. pc'[r] \notin WriteCall /\ pc'[r] \notin {"new", "done"} /\ req'[r].op # "none"
    BY <1>r, <1>n, <1>o DEF WriteCall, Readers
  <2>2. /\ pc'[r] = "read" => rest # <<>>
        /\ ~(pc'[r] = "ok" /\ req'[r].op = "list")
        /\ KeysOf(rest) \subseteq Keys(req[r].op)
    BY <1>r, <1>n, <1>k, <1>o
  <2>3. disturbed' \in SUBSET Request /\ disturbed' \ {r} = disturbed \ {r}
    BY <1>e DEF Types
  <2>4. \A q \in Request : /\ pc'[r] \in Calls /\ q # r /\ pc[q] \in WriteCall
                            /\ Keys(req'[r].op) \cap Keys(req[q].op) # {}
                            => r \in disturbed'
    BY <1>r, <1>o, <1>e DEF Overlap
  <2>5. r \notin disturbed' => Keys(req[r].op) \cap suspect = {}
    BY <1>e DEF Got
  <2> QED
    BY <1>a, <1>e, <1>o, <1>q, <1>r, <2>1, <2>2, <2>3, <2>4, <2>5, NoWriter
<1>2. pc'[r] \in {"ok", "sepay"} => rest = <<>>
  BY <1>r
<1> QED
  BY <1>1, <1>2, <1>a, <1>e, <1>k, <1>n, <1>q, <1>r

\* SePay answers a reader, or does not.
LEMMA SepayStep ==
  ASSUME SInv, NEW r \in Request, NEW answers \in BOOLEAN, Sepay(r, answers)
  PROVE  SInv' /\ Alone(r) /\ pc'[r] \notin {"new", "done"} /\ pc[r] = "sepay"
<1>t. Types /\ Steps
  BY DEF SInv
<1>e. /\ pc[r] = "sepay" /\ UNCHANGED <<row, req, wanted, suspect, disturbed>>
      /\ pc'[r] \in {"ok", "failed"} /\ pc' = [pc EXCEPT ![r] = pc'[r]]
      /\ pc'[r] = "ok" /\ req[r].op = "list" => req[r].got["apiKey"] \in ApiKey
  BY <1>t DEF Sepay, Goto, Types
<1>a. Alone(r)
  BY <1>e, <1>t DEF Alone, Types
<1>n. /\ pc[r] \notin WriteCall /\ pc'[r] \notin WriteCall /\ pc'[r] \notin Calls
      /\ req'[r].op # "none"
  BY <1>e, <1>t DEF WriteCall, Calls, Steps
<1>1. SInv'
  <2>1. disturbed' \in SUBSET Request /\ disturbed' \ {r} = disturbed \ {r}
    BY <1>e, <1>t DEF Types
  <2> QED
    BY <1>a, <1>e, <1>n, <2>1, NoWriter
<1> QED
  BY <1>1, <1>a, <1>e

\* The request is over for whoever asked.
LEMMA FinishStep ==
  ASSUME SInv, NEW r \in Request, pc[r] \in {"ok", "failed"}, Finish(r)
  PROVE  SInv' /\ Alone(r) /\ pc'[r] = "done"
<1>t. Types
  BY DEF SInv
<1>e. /\ pc' = [pc EXCEPT ![r] = "done"] /\ req' = [req EXCEPT ![r] = Idle]
      /\ pc'[r] = "done" /\ req'[r] = Idle
      /\ disturbed' = disturbed \ {r} /\ UNCHANGED <<row, wanted, suspect>>
  BY <1>t DEF Finish, Goto, Types
<1>a. Alone(r)
  BY <1>e, Blank DEF Alone
<1>n. pc[r] \notin WriteCall /\ pc'[r] \notin WriteCall /\ pc'[r] \notin Calls
  BY <1>e DEF WriteCall, Calls
<1>1. SInv'
  <2>1. /\ disturbed' \in SUBSET Request /\ disturbed' \ {r} = disturbed \ {r}
        /\ req'[r].op = "none" /\ pc'[r] \notin {"read", "sepay", "ok"}
    BY <1>e, <1>t, Blank DEF Types
  <2> QED
    BY <1>a, <1>e, <1>n, <2>1, NoWriter
<1> QED
  BY <1>1, <1>a, <1>e

\* The handlers' own steps leave nobody's answer out: who was asked stays so.
Alive == \A q \in Request : pc[q] \notin {"new", "done"} => pc'[q] \notin {"new", "done"}

\* A handler's next call.
LEMMA ProceedStep ==
  ASSUME SInv, NEW r \in Request, Proceed(r)
  PROVE  SInv' /\ Alive
<1>t. Types /\ Steps /\ Overlap /\ Written /\ Got /\ LastWritten
  BY DEF SInv
<1>1. ASSUME NEW fails \in BOOLEAN, Read(r, fails) PROVE SInv' /\ Alive
  BY <1>1, <1>t, ReadStep, OthersStay DEF Alive
<1>2. ASSUME NEW answers \in BOOLEAN, Sepay(r, answers) PROVE SInv' /\ Alive
  BY <1>2, <1>t, SepayStep, OthersStay DEF Alive
<1>3. CASE Find(r)
  <2>1. /\ pc[r] = "find" /\ req' = [req EXCEPT ![r].id = row[At(r)].id]
        /\ pc' = [pc EXCEPT ![r] = IF row[At(r)].id = None THEN "insert" ELSE "save"]
        /\ UNCHANGED <<row, wanted, suspect, disturbed>>
    BY <1>3 DEF Find, Goto
  <2>2. At(r) \in Setting
    BY <2>1, <1>t, AtAKey DEF WriteCall
  <2>3. /\ pc'[r] \in {"insert", "save"} /\ pc' = [pc EXCEPT ![r] = pc'[r]]
        /\ req'[r] \in Work /\ req' = [req EXCEPT ![r] = req'[r]]
        /\ req'[r].op = req[r].op /\ req'[r].arg = req[r].arg /\ req'[r].todo = req[r].todo
        /\ pc'[r] = "save" => req'[r].id # None
    BY <2>1, <2>2, <1>t DEF Types, Work
  <2>4. Alone(r) /\ pc[r] \in WriteCall \ {"delete"} /\ pc'[r] \in WriteCall \ {"delete"}
    BY <2>1, <2>3 DEF Alone, Calls, WriteCall
  <2>5. SInv'
    BY <2>1, <2>3, <2>4, WriterCalls
  <2> QED
    BY <2>3, <2>4, <2>5, <1>t, OthersStay DEF Alive
<1>4. CASE Reload(r)
  <2>0. pc[r] = "save" /\ pc[r] \in WriteCall
    BY <1>4 DEF Reload, WriteCall
  <2>1. CASE Mine(r) /\ At(r) # "apiKey" /\ row[At(r)].value = req[r].arg
    <3>1. Advance(r, "find") /\ Settled(r) /\ UNCHANGED row /\ row[At(r)].value = req[r].arg
      BY <1>4, <2>1 DEF Reload
    <3>2. req[r].op # "remove"
      BY <2>0, <1>t DEF Steps, WriteCall
    <3>3. SInv'
      BY <2>0, <3>1, <3>2, <1>t, WriterGoesOn DEF Types
    <3> QED
      BY <3>1, <3>3, <1>t DEF Advance, Goto, Alive, Types
  <2>2. CASE ~(Mine(r) /\ At(r) # "apiKey" /\ row[At(r)].value = req[r].arg)
    <3>1. /\ pc' = [pc EXCEPT ![r] = IF Mine(r) THEN "update" ELSE "insert"]
          /\ UNCHANGED <<row, req, wanted, suspect, disturbed>>
      BY <1>4, <2>2 DEF Reload, Goto
    <3>2. /\ pc'[r] \in {"update", "insert"} /\ pc' = [pc EXCEPT ![r] = pc'[r]]
          /\ req'[r] \in Work /\ req' = [req EXCEPT ![r] = req'[r]]
          /\ pc'[r] = "update" => row[At(r)].id = req'[r].id
          /\ req'[r] = req[r] /\ req'[r].id # None
      BY <2>0, <3>1, <1>t DEF Types, Mine, Steps
    <3>3. Alone(r) /\ pc[r] \in WriteCall \ {"delete"} /\ pc'[r] \in WriteCall \ {"delete"}
      BY <2>0, <3>2 DEF Alone, Calls, WriteCall
    <3>4. SInv'
      BY <3>1, <3>2, <3>3, WriterCalls
    <3> QED
      BY <3>2, <3>3, <3>4, <1>t, OthersStay DEF Alive
  <2> QED
    BY <2>1, <2>2
<1>5. CASE Update(r)
  <2>1. /\ pc[r] = "update" /\ pc[r] \in WriteCall /\ Advance(r, "find") /\ Settled(r)
        /\ row' = [row EXCEPT ![At(r)].value = IF Mine(r) THEN req[r].arg ELSE @]
    BY <1>5 DEF Update, WriteCall
  <2>2. At(r) \in Setting
    BY <2>1, <1>t, AtAKey
  <2>3. req[r].arg \in Value /\ req[r].op # "remove" /\ req[r].id \in Ids
    BY <2>1, <1>t DEF Types, Steps, Work
  <2>4. r \notin disturbed => Mine(r)
    BY <2>1, <1>t DEF Written
  <2>5. None \notin Value
    BY ValueAssumption DEF Value
  <2>6. /\ \A k \in Setting \ {At(r)} : row'[k] = row[k]
        /\ row'[At(r)].id = row[At(r)].id
        /\ row'[At(r)].value = IF Mine(r) THEN req[r].arg ELSE row[At(r)].value
        /\ row' \in [Setting -> [id : Ids, value : Value \cup {None}]]
    BY <2>1, <2>2, <2>3, <1>t DEF Types
  <2>7. \A k \in Setting : row'[k].id = None <=> row'[k].value = None
    <3>1. Mine(r) => row[At(r)].id # None
      BY <1>t, <2>1 DEF Mine, Steps
    <3> QED
      BY <2>3, <2>5, <2>6, <3>1, <1>t DEF Types
  <2>8. SInv'
    BY <2>1, <2>3, <2>4, <2>6, <2>7, WriterGoesOn
  <2> QED
    BY <2>1, <2>8, <1>t DEF Advance, Goto, Alive, Types
<1>6. CASE Insert(r)
  <2>0. pc[r] = "insert" /\ pc[r] \in WriteCall
    BY <1>6 DEF Insert, WriteCall
  <2>1. CASE row[At(r)].id # None
    <3>1. /\ Goto(r, "failed") /\ req' = [req EXCEPT ![r].id = None]
          /\ suspect' = suspect \cup Keys(req[r].op) /\ disturbed' = disturbed \ {r}
          /\ UNCHANGED <<row, wanted>>
      BY <1>6, <2>1 DEF Insert
    <3>2. SInv'
      BY <2>0, <3>1, WriterFails
    <3> QED
      BY <3>1, <3>2, <1>t DEF Goto, Alive, Types
  <2>2. CASE row[At(r)].id = None
    <3>1. /\ Advance(r, "find") /\ Settled(r)
          /\ row' = [row EXCEPT ![At(r)] = [value |-> req[r].arg,
                       id |-> IF req[r].id = None THEN r ELSE req[r].id]]
      BY <1>6, <2>2 DEF Insert
    <3>2. At(r) \in Setting
      BY <2>0, <1>t, AtAKey
    <3>3. /\ req[r].arg \in Value /\ req[r].op # "remove" /\ req[r].id \in Ids /\ r # None
          /\ r \in Ids /\ None \notin Value
      BY <2>0, <1>t, ValueAssumption DEF Types, Steps, Work, Ids, Value
    <3>4. /\ \A k \in Setting \ {At(r)} : row'[k] = row[k]
          /\ row'[At(r)].value = req[r].arg /\ row'[At(r)].id # None
          /\ row' \in [Setting -> [id : Ids, value : Value \cup {None}]]
      BY <3>1, <3>2, <3>3, <1>t DEF Types
    <3>5. \A k \in Setting : row'[k].id = None <=> row'[k].value = None
      BY <3>3, <3>4, <1>t DEF Types
    <3>6. SInv'
      BY <2>0, <3>1, <3>3, <3>4, <3>5, WriterGoesOn
    <3> QED
      BY <3>1, <3>6, <1>t DEF Advance, Goto, Alive, Types
  <2> QED
    BY <2>1, <2>2
<1>7. CASE Delete(r)
  <2>1. /\ pc[r] = "delete" /\ pc[r] \in WriteCall /\ Advance(r, "delete") /\ Settled(r)
        /\ row' = [row EXCEPT ![At(r)] = [id |-> None, value |-> None]]
    BY <1>7 DEF Delete, WriteCall
  <2>2. At(r) \in Setting /\ req[r].op = "remove" /\ req[r].arg = None /\ None \in Ids
    BY <2>1, <1>t, AtAKey DEF Steps, Ids
  <2>3. /\ \A k \in Setting \ {At(r)} : row'[k] = row[k]
        /\ row'[At(r)].value = None /\ row'[At(r)].id = None
        /\ row' \in [Setting -> [id : Ids, value : Value \cup {None}]]
    BY <2>1, <2>2, <1>t DEF Types
  <2>4. \A k \in Setting : row'[k].id = None <=> row'[k].value = None
    BY <2>3, <1>t DEF Types
  <2>5. SInv'
    BY <2>1, <2>2, <2>3, <2>4, WriterGoesOn
  <2> QED
    BY <2>1, <2>5, <1>t DEF Advance, Goto, Alive, Types
<1>8. CASE Stop(r)
  <2>1. /\ pc[r] \in WriteCall /\ Goto(r, "failed") /\ req' = [req EXCEPT ![r].id = None]
        /\ suspect' = suspect \cup Keys(req[r].op) /\ disturbed' = disturbed \ {r}
        /\ UNCHANGED <<row, wanted>>
    BY <1>8, <1>t, AtWork DEF Stop
  <2>2. SInv'
    BY <2>1, WriterFails
  <2> QED
    BY <2>1, <2>2, <1>t DEF Goto, Alive, Types
<1> QED
  BY <1>1, <1>2, <1>3, <1>4, <1>5, <1>6, <1>7, <1>8 DEF Proceed

\* The process restarts: nobody is at work any more.
LEMMA RestartStep ==
  ASSUME SInv, Restart
  PROVE  SInv' /\ Alive
<1>t. Types /\ Steps /\ Overlap /\ Written /\ Got /\ LastWritten
  BY DEF SInv
<1>e. /\ row' = IF row["apiKey"].id = None THEN row
                ELSE [row EXCEPT !["apiKey"].value = Garbled]
      /\ wanted' = IF wanted["apiKey"] = None THEN wanted
                   ELSE [wanted EXCEPT !["apiKey"] = Garbled]
      /\ disturbed' = {}
  BY DEF Restart
<1>p. /\ \A q \in Request : IF pc[q] \in Calls THEN pc'[q] = "failed" ELSE pc'[q] = pc[q]
      /\ pc' \in [Request -> Calls \cup {"new", "ok", "failed", "done"}]
  <2>1. pc' = [r \in Request |-> IF Running(r) THEN "failed" ELSE pc[r]]
    BY DEF Restart
  <2>2. \A q \in Request : Running(q) <=> pc[q] \in Calls
    BY <1>t, AtWork
  <2> QED
    BY <2>1, <2>2, <1>t DEF Types
<1>r. /\ \A q \in Request : req'[q].op = req[q].op /\ req'[q].got = req[q].got
      /\ req' \in [Request -> Work]
  <2>1. req' = [r \in Request |-> [req[r] EXCEPT !.id = None]]
    BY DEF Restart
  <2> QED
    BY <2>1, <1>t DEF Types, Work, Ids
<1>s. /\ suspect \subseteq suspect' /\ suspect' \subseteq Setting
      /\ \A q \in Request : pc[q] \in WriteCall => Keys(req[q].op) \subseteq suspect'
  <2>1. suspect' = suspect \cup UNION {Keys(req[r].op) : r \in {q \in Request : Writing(q)}}
    BY DEF Restart
  <2>2. \A q \in Request : Writing(q) <=> pc[q] \in WriteCall
    BY <1>t, AtWork
  <2>3. \A q \in Request : pc[q] \in WriteCall => Keys(req[q].op) \subseteq Setting
    BY <1>t, Handlers DEF Steps
  <2>4. suspect \subseteq Setting
    BY <1>t DEF Types
  <2> QED
    BY <2>1, <2>2, <2>3, <2>4
<1>g. Garbled \in Value /\ None \notin Value /\ "apiKey" \in Setting
  BY ValueAssumption DEF Value, Setting
<1>v. /\ row' \in [Setting -> [id : Ids, value : Value \cup {None}]]
      /\ wanted' \in [Setting -> Value \cup {None}]
      /\ \A k \in Setting : row'[k].id = None <=> row'[k].value = None
      /\ \A k \in Setting : row[k].value = wanted[k] => row'[k].value = wanted'[k]
  <2>1. CASE row["apiKey"].id = None
    BY <2>1, <1>e, <1>g, <1>t DEF Types
  <2>2. CASE row["apiKey"].id # None
    <3>1. /\ row' \in [Setting -> [id : Ids, value : Value \cup {None}]]
          /\ \A k \in Setting \ {"apiKey"} : row'[k] = row[k]
          /\ row'["apiKey"].value = Garbled /\ row'["apiKey"].id = row["apiKey"].id
      BY <2>2, <1>e, <1>g, <1>t DEF Types
    <3>2. /\ wanted' \in [Setting -> Value \cup {None}]
          /\ \A k \in Setting \ {"apiKey"} : wanted'[k] = wanted[k]
          /\ wanted["apiKey"] # None => wanted'["apiKey"] = Garbled
      BY <1>e, <1>g, <1>t DEF Types
    <3> QED
      BY <2>2, <3>1, <3>2, <1>g, <1>t DEF Types
  <2> QED
    BY <2>1, <2>2
<1>n. \A q \in Request : pc'[q] \notin Calls /\ pc'[q] \notin WriteCall /\ pc'[q] # "read"
  BY <1>p DEF Calls, WriteCall
<1>1. Types'
  BY <1>e, <1>p, <1>r, <1>s, <1>v DEF Types
<1>2. Steps'
  <2>1. \A q \in Request : /\ pc'[q] \in {"new", "done"} <=> pc[q] \in {"new", "done"}
                           /\ pc'[q] = "ok" => pc[q] = "ok"
                           /\ pc'[q] \notin {"read", "sepay"}
    BY <1>p DEF Calls, WriteCall
  <2> QED
    BY <2>1, <1>n, <1>r, <1>t DEF Steps
<1>3. Overlap' /\ Written' /\ Got'
  BY <1>n DEF Overlap, Written, Got
<1>4. LastWritten'
  <2>1. ASSUME NEW k \in Setting
        PROVE  k \in suspect' \/ row'[k].value = wanted'[k]
    BY <1>s, <1>t, <1>v DEF LastWritten
  <2> QED
    BY <2>1 DEF LastWritten
<1>5. Alive
  BY <1>p DEF Alive, Calls
<1> QED
  BY <1>1, <1>2, <1>3, <1>4, <1>5 DEF SInv

\* The page loads the configuration after a writer answered.
LEMMA WriteAnswerStep ==
  ASSUME SInv, NEW r \in Request, WriteAnswer(r)
  PROVE  SInv' /\ Alive
<1>t. Types /\ Steps
  BY DEF SInv
<1> DEFINE w == [Idle EXCEPT !.op = "config", !.todo = AllKeys]
<1>w. /\ w \in Work /\ w.op = "config" /\ w.todo # <<>> /\ KeysOf(w.todo) = Keys("config")
      /\ "config" \in Readers /\ "config" # "none"
  <2>1. AllKeys \in Todo \ {<<>>} /\ KeysOf(AllKeys) = Keys("config")
    <3>1. Reads["config"] = AllKeys
      BY DEF Reads
    <3> QED
      BY <3>1, Handlers DEF Readers
  <2>2. PICK s \in Todo \ {<<>>} : s = AllKeys
    BY <2>1
  <2>3. "config" \in Op
    BY Handlers DEF Readers
  <2> QED
    BY <2>1, <2>2, <2>3, Blank DEF Work, Readers
<1> HIDE DEF w
<1>e. /\ pc[r] = "ok" /\ pc' = [pc EXCEPT ![r] = "read"] /\ req' = [req EXCEPT ![r] = w]
      /\ disturbed' = (disturbed \ {r}) \cup
           (IF suspect # {} \/ \E q \in Request : Writing(q) THEN {r} ELSE {})
      /\ UNCHANGED <<row, wanted, suspect>>
  BY DEF WriteAnswer, w
<1>r. pc'[r] = "read" /\ req'[r] = w
  BY <1>e, <1>t DEF Types
<1>a. Alone(r)
  BY <1>e, <1>r, <1>w DEF Alone, Calls
<1>n. pc[r] \notin WriteCall /\ pc'[r] \notin WriteCall
  BY <1>e, <1>r DEF WriteCall
<1>1. SInv'
  <2>1. /\ disturbed' \in SUBSET Request /\ disturbed' \ {r} = disturbed \ {r}
        /\ suspect # {} => r \in disturbed'
    BY <1>e, <1>t DEF Types
  <2>2. \A q \in Request : pc[q] \in WriteCall => r \in disturbed'
    BY <1>e, <1>t, AtWork
  <2> QED
    BY <1>a, <1>e, <1>n, <1>r, <1>w, <2>1, <2>2, NoWriter
<1> QED
  BY <1>1, <1>a, <1>e, <1>r, <1>t, OthersStay DEF Alive

-----------------------------------------------------------------------------

LEMMA Begins == Init => IInv
<1> SUFFICES ASSUME Init PROVE IInv
  OBVIOUS
<1>1. /\ pc = [r \in Request |-> "new"] /\ req = [r \in Request |-> Idle]
      /\ suspect = {} /\ disturbed = {} /\ wanted = [s \in Setting |-> row[s].value]
  BY DEF Init, SettingsInit
<1>2. /\ row \in [Setting -> [id : Ids, value : Value \cup {None}]]
      /\ \A k \in Setting : row[k].id = None <=> row[k].value = None
  <2>1. PICK k \in ApiKey, a \in Account :
          row \in {[s \in Setting |-> [id |-> None, value |-> None]],
                   [s \in Setting |-> [id |-> First, value |-> IF s = "apiKey" THEN k ELSE a]]}
    BY DEF Init, SettingsInit
  <2> QED
    BY <2>1, ValueAssumption DEF Ids, Value
<1>3. Types
  <2>1. wanted \in [Setting -> Value \cup {None}]
    BY <1>1, <1>2
  <2> QED
    BY <1>1, <1>2, <2>1, Blank DEF Types
<1>4. Steps
  BY <1>1, Blank DEF Steps, Calls, WriteCall
<1>5. Overlap /\ Written /\ Got /\ LastWritten
  BY <1>1 DEF Overlap, Written, Got, LastWritten, Calls, WriteCall
<1>6. PageOK
  BY DEF Init, PageOK, Cause
<1> QED
  BY <1>3, <1>4, <1>5, <1>6 DEF IInv, SInv

\* A request that is asked is nobody's yet.
LEMMA Fresh ==
  ASSUME IInv, NEW r \in Request, pc[r] = "new"
  PROVE  r # first /\ r # call
BY ValueAssumption DEF IInv, PageOK

\* A step of the page.
LEMMA PageStep ==
  ASSUME IInv, NEW r \in Request, Page(r)
  PROVE  IInv'
<1>t. SInv /\ Types /\ Steps /\ PageOK
  BY DEF IInv, SInv
<1>h. \A op \in {"config", "putKey", "remove", "list", "putAccount"} : op \in Op
  BY Handlers DEF Readers, Writers
<1>v. None \notin Value /\ ApiKey \subseteq Value /\ Account \subseteq Value /\ r # None
  BY ValueAssumption DEF Value
<1>m. ASSUME Mount(r) PROVE IInv'
  <2>1. SInv' /\ Alone(r) /\ pc[r] = "new" /\ pc'[r] \in Calls
    BY <1>m, <1>t, <1>h, AskStep DEF Mount, Writers
  <2>2. pc'[r] \notin {"new", "done"}
    BY <2>1 DEF Calls, WriteCall
  <2>3. PageOK'
    BY <1>m, <1>t, <1>v, <2>2 DEF Mount, PageOK, Cause
  <2> QED
    BY <2>1, <2>3 DEF IInv
\* A handler of the page asks.
<1>s. ASSUME NEW op \in {"putKey", "remove", "list", "putAccount"}, NEW arg \in Value \cup {None},
             op \in Writers => (op = "remove" <=> arg = None), Start(r, op, arg),
             causes' \in SUBSET Cause, UNCHANGED <<first, config, accounts, chosen, changing>>
      PROVE  IInv'
  <2>1. SInv' /\ Alone(r) /\ pc[r] = "new" /\ pc'[r] \in Calls
    BY <1>s, <1>t, <1>h, AskStep DEF Start
  <2>2. pc'[r] \notin {"new", "done"} /\ \A q \in Request \ {r} : pc'[q] = pc[q]
    BY <2>1, <1>t, OthersStay DEF Calls, WriteCall
  <2>3. loading' = TRUE /\ call' = r /\ r # first
    BY <1>s, <2>1, Fresh DEF Start
  <2>4. PageOK'
    BY <1>s, <1>t, <1>v, <2>2, <2>3 DEF PageOK
  <2> QED
    BY <2>1, <2>4 DEF IInv
<1>1. ASSUME NEW k \in ApiKey, SaveKey(r, k) PROVE IInv'
  <2>1. Start(r, "putKey", k) /\ causes' \in SUBSET Cause
        /\ UNCHANGED <<first, config, accounts, chosen, changing>>
    BY <1>1, <1>t DEF SaveKey, PageOK, Cause
  <2>2. k \in Value \cup {None} /\ k # None
    BY <1>v
  <2> QED
    BY <2>1, <2>2, <1>s
<1>2. CASE ChangeKey(r)
  <2>1. Start(r, "remove", None) /\ causes' \in SUBSET Cause
        /\ UNCHANGED <<first, config, accounts, chosen, changing>>
    BY <1>2, <1>t DEF ChangeKey, PageOK
  <2> QED
    BY <2>1, <1>s
<1>3. CASE FetchAccounts(r)
  <2>1. Start(r, "list", None) /\ causes' \in SUBSET Cause
        /\ UNCHANGED <<first, config, accounts, chosen, changing>>
    BY <1>3, <1>t DEF FetchAccounts, PageOK
  <2>2. "list" \notin Writers
    BY DEF Writers
  <2> QED
    BY <2>1, <2>2, <1>s
<1>4. CASE SaveAccount(r)
  <2>1. Start(r, "putAccount", chosen) /\ causes' \in SUBSET Cause /\ chosen \in Account
        /\ UNCHANGED <<first, config, accounts, chosen, changing>>
    BY <1>4, <1>t DEF SaveAccount, PageOK, Listed
  <2>2. chosen \in Value \cup {None} /\ chosen # None
    BY <2>1, <1>v
  <2> QED
    BY <2>1, <2>2, <1>s
\* An answer ends a handler, or the first load.
<1>f. ASSUME pc[r] \in {"ok", "failed"}, Finish(r),
             \/ r = first /\ first' = None /\ UNCHANGED <<call, loading>>
             \/ r = call /\ call' = None /\ loading' = FALSE /\ UNCHANGED first,
             config' \in Value \cup {None, NotLoaded}, accounts' \in ApiKey \cup {None},
             chosen' \in Account \cup {None}, causes' \in SUBSET Cause, UNCHANGED changing
      PROVE  IInv'
  <2>1. SInv' /\ Alone(r) /\ pc'[r] = "done"
    BY <1>f, <1>t, FinishStep
  <2>2. \A q \in Request \ {r} : pc'[q] = pc[q]
    BY <2>1, <1>t, OthersStay
  <2>3. PageOK'
    BY <1>f, <1>t, <2>2 DEF PageOK
  <2> QED
    BY <2>1, <2>3 DEF IInv
<1>g. req[r].got["apiKey"] \in Value \cup {None}
  BY <1>t DEF Types, Work, Setting
<1>5. CASE Loaded(r)
  <2>1. /\ pc[r] \in {"ok", "failed"} /\ Finish(r) /\ r = first /\ first' = None
        /\ config' \in Value \cup {None, NotLoaded}
        /\ UNCHANGED <<call, loading, accounts, chosen, changing, causes>>
    BY <1>5, <1>g, <1>t DEF Loaded, Show, PageOK
  <2> QED
    BY <2>1, <1>f, <1>t DEF PageOK
<1>6. CASE Ended(r)
  <2>1. /\ pc[r] \in {"ok", "failed"} /\ Finish(r) /\ r = call /\ call' = None
        /\ loading' = FALSE /\ config' \in Value \cup {None, NotLoaded}
        /\ causes' \in SUBSET Cause /\ UNCHANGED <<first, accounts, chosen, changing>>
    BY <1>6, <1>g, <1>t DEF Ended, Show, PageOK, Cause
  <2> QED
    BY <2>1, <1>f, <1>t DEF PageOK
<1>7. CASE ListAnswer(r)
  <2>1. /\ pc[r] = "ok" /\ Finish(r) /\ r = call /\ call' = None /\ loading' = FALSE
        /\ accounts' \in ApiKey
        /\ UNCHANGED <<first, config, changing, causes>>
    BY <1>7, <1>t DEF ListAnswer, Steps
  <2>2. chosen' \in Account \cup {None}
    BY <1>7, <1>t DEF ListAnswer, PageOK
  <2> QED
    BY <2>1, <2>2, <1>f, <1>t DEF PageOK
<1>8. CASE WriteAnswer(r)
  <2>1. SInv' /\ Alive
    BY <1>8, <1>t, WriteAnswerStep
  <2>2. /\ accounts' \in ApiKey \cup {None} /\ chosen' \in Account \cup {None}
        /\ changing' \in BOOLEAN
        /\ UNCHANGED <<first, call, loading, config, causes>>
    BY <1>8, <1>t DEF WriteAnswer, PageOK
  <2>3. PageOK'
    BY <2>1, <2>2, <1>t DEF PageOK, Alive
  <2> QED
    BY <2>1, <2>3 DEF IInv
<1> QED
  BY <1>m, <1>1, <1>2, <1>3, <1>4, <1>5, <1>6, <1>7, <1>8 DEF Page

\* Another client asks.
LEMMA ClientStep ==
  ASSUME IInv, NEW r \in Request, Client(r)
  PROVE  IInv'
<1>t. SInv /\ Types /\ Steps /\ PageOK
  BY DEF IInv, SInv
<1>v. None \notin Value /\ ApiKey \subseteq Value /\ Account \subseteq Value
  BY ValueAssumption DEF Value
<1>1. PICK op \in Op, arg \in Value \cup {None} :
        Ask(r, op, arg) /\ (op \in Writers => (op = "remove" <=> arg = None))
  <2>1. CASE \E op \in {"qr", "status"} : Ask(r, op, None)
    BY <2>1, Handlers DEF Readers, Writers
  <2>2. CASE \E k \in ApiKey : Ask(r, "putKey", k)
    BY <2>2, <1>v, Handlers DEF Writers
  <2>3. CASE \E a \in Account, op \in {"putAccount", "putOne"} : Ask(r, op, a)
    BY <2>3, <1>v, Handlers DEF Writers
  <2>4. CASE Ask(r, "remove", None)
    BY <2>4, Handlers DEF Writers
  <2> QED
    BY <2>1, <2>2, <2>3, <2>4 DEF Client
<1>2. SInv' /\ Alone(r) /\ pc[r] = "new" /\ pc'[r] \in Calls
  BY <1>1, <1>t, AskStep
<1>3. UNCHANGED <<page, causes>> /\ \A q \in Request \ {r} : pc'[q] = pc[q]
  BY <1>2, <1>t, OthersStay DEF Client
<1>4. r # first /\ r # call
  BY <1>2, Fresh
<1>5. PageOK'
  BY <1>t, <1>3, <1>4 DEF PageOK, page
<1> QED
  BY <1>2, <1>5 DEF IInv

\* Every step keeps the invariant.
LEMMA StepKeeps == IInv /\ [Next]_vars => IInv'
<1> SUFFICES ASSUME IInv, [Next]_vars PROVE IInv'
  OBVIOUS
<1>t. SInv /\ Types /\ Steps /\ PageOK
  BY DEF IInv, SInv
<1>0. ASSUME UNCHANGED settingVars PROVE SInv'
  <2>1. UNCHANGED <<row, pc, req, wanted, suspect, disturbed>>
    BY <1>0 DEF settingVars
  <2>2. Types' /\ Steps'
    BY <1>t, <2>1 DEF Types, Steps
  <2>3. Overlap' /\ LastWritten'
    BY <1>t, <2>1 DEF SInv, Overlap, LastWritten
  <2>4. Written' /\ Got'
    BY <1>t, <2>1 DEF SInv, Written, Got, Mine, At, Answer
  <2> QED
    BY <2>2, <2>3, <2>4 DEF SInv
<1>p. ASSUME UNCHANGED page, causes' \in SUBSET Cause, Alive PROVE PageOK'
  BY <1>p, <1>t DEF page, PageOK, Alive
<1>1. ASSUME NEW r \in Request, Page(r) PROVE IInv'
  BY <1>1, PageStep
<1>2. ASSUME NEW r \in Request, Client(r) PROVE IInv'
  BY <1>2, ClientStep
<1>3. ASSUME NEW r \in Request, Forget(r) PROVE IInv'
  <2>1. SInv' /\ Alone(r)
    BY <1>3, <1>t, FinishStep DEF Forget
  <2>2. \A q \in Request \ {r} : pc'[q] = pc[q]
    BY <2>1, <1>t, OthersStay
  <2>3. PageOK'
    BY <1>3, <2>2, <1>t DEF Forget, PageOK, page
  <2> QED
    BY <2>1, <2>3 DEF IInv
<1>c. causes \in SUBSET Cause
  BY <1>t DEF PageOK
<1>4. ASSUME NEW r \in Request, Server(r) PROVE IInv'
  <2>1. Proceed(r) /\ UNCHANGED page /\ causes' \in SUBSET Cause
    BY <1>4, <1>c DEF Server, Cause
  <2> QED
    BY <2>1, <1>p, <1>t, ProceedStep DEF IInv
<1>5. ASSUME NEW a \in Account, Choose(a) PROVE IInv'
  <2>1. UNCHANGED settingVars /\ UNCHANGED pc
    BY <1>5 DEF Choose, settingVars
  <2>2. PageOK'
    BY <1>5, <2>1, <1>t DEF Choose, PageOK
  <2> QED
    BY <2>1, <2>2, <1>0 DEF IInv
<1>6. CASE CancelAccounts \/ CancelChange
  <2>1. UNCHANGED settingVars /\ UNCHANGED pc
    BY <1>6 DEF CancelAccounts, CancelChange, settingVars
  <2>2. PageOK'
    BY <1>6, <2>1, <1>t DEF CancelAccounts, CancelChange, PageOK
  <2> QED
    BY <2>1, <2>2, <1>0 DEF IInv
<1>7. CASE Restart /\ UNCHANGED <<page, causes>>
  BY <1>7, <1>c, <1>p, <1>t, RestartStep DEF IInv
<1>8. CASE UNCHANGED vars
  <2>1. UNCHANGED settingVars /\ UNCHANGED page /\ UNCHANGED causes /\ Alive
    BY <1>8 DEF vars, settingVars, Alive
  <2> QED
    BY <2>1, <1>0, <1>c, <1>p DEF IInv
<1> QED
  BY <1>1, <1>2, <1>3, <1>4, <1>5, <1>6, <1>7, <1>8 DEF Next

LEMMA InvariantHolds == Spec => []IInv
BY Begins, StepKeeps, PTL DEF Spec

-----------------------------------------------------------------------------

\* Every variable keeps its type: a request is at a call of its own handler, and the
\* page awaits only requests that are under way (SettingsPage.tsx:36-166).
THEOREM TypesHold == Spec => []TypeOK
<1>1. IInv => TypeOK
  <2> SUFFICES ASSUME IInv PROVE TypeOK
    OBVIOUS
  <2>1. Types /\ Steps /\ PageOK
    BY DEF IInv, SInv
  <2>2. Todo \subseteq Seq(Setting)
    BY DEF Todo, Setting
  <2>3. SettingsTypeOK
    <3>1. \A r \in Request :
            /\ req[r].op \in Op \cup {"none"} /\ (req[r].op = "none" <=> pc[r] \in {"new", "done"})
            /\ req[r].arg \in Value \cup {None}
            /\ req[r].todo \in Seq(Setting) /\ req[r].id \in Ids
            /\ req[r].got \in [Setting -> Value \cup {None}]
      BY <2>1, <2>2 DEF Types, Steps, Work
    <3>2. \A r \in Request :
            pc[r] \in {"read", "find", "save", "update", "insert", "delete"} => req[r].todo # <<>>
      BY <2>1 DEF Steps, WriteCall
    <3>3. pc \in [Request -> {"new", "read", "find", "save", "update", "insert",
                              "delete", "sepay", "ok", "failed", "done"}]
      BY <2>1 DEF Types, Calls, WriteCall
    <3> QED
      BY <2>1, <3>1, <3>2, <3>3 DEF Types, SettingsTypeOK
  <2> QED
    BY <2>1, <2>3 DEF PageOK, TypeOK
<1> QED
  BY <1>1, InvariantHolds, PTL

\* Each key has the value of the last request that wrote it, unless its last writers
\* overlapped or stopped (settings.service.ts:90-124, settings.controller.ts:75-128).
THEOREM LastWritesAreKept == Spec => []SettingsAreLastWritten
<1>1. IInv => SettingsAreLastWritten
  <2> SUFFICES ASSUME IInv PROVE SettingsAreLastWritten
    OBVIOUS
  <2>1. Types /\ Steps /\ LastWritten
    BY DEF IInv, SInv
  <2>2. \A r \in Request : Writing(r) <=> pc[r] \in WriteCall
    BY <2>1, AtWork
  <2> QED
    BY <2>1, <2>2 DEF LastWritten, SettingsAreLastWritten
<1> QED
  BY <1>1, InvariantHolds, PTL

\* Only a reader's own step ends its reading.
LEMMA ReadingEnds ==
  ASSUME IInv, [Next]_vars, NEW r \in Request, pc[r] = "read", pc'[r] \in {"ok", "sepay"}
  PROVE  \E fails \in BOOLEAN : Read(r, fails)
<1>t. SInv /\ Types /\ Steps
  BY DEF IInv, SInv
<1>1. ASSUME NEW q \in Request, NEW to, pc[q] # "read", Goto(q, to) PROVE FALSE
  BY <1>1, <1>t DEF Goto, Types
<1>2. ASSUME NEW q \in Request, pc[q] # "read", Alone(q) PROVE FALSE
  BY <1>2, <1>t, OthersStay
<1>3. pc' # pc
  OBVIOUS
<1>4. ASSUME NEW q \in Request, Server(q) PROVE \E fails \in BOOLEAN : Read(r, fails)
  <2>1. ASSUME NEW fails \in BOOLEAN, Read(q, fails)
        PROVE  Read(r, fails)
    <3>1. Alone(q)
      BY <2>1, <1>t, ReadStep
    <3>2. q = r
      BY <3>1, <1>t, OthersStay
    <3> QED
      BY <2>1, <3>2
  <2>2. ASSUME NEW answers \in BOOLEAN, Sepay(q, answers) PROVE FALSE
    BY <2>2, <1>2, <1>t, SepayStep
  <2>3. CASE Find(q)
    BY <2>3, <1>1 DEF Find
  <2>4. CASE Reload(q)
    BY <2>4, <1>1 DEF Reload, Advance
  <2>5. CASE Update(q)
    BY <2>5, <1>1 DEF Update, Advance
  <2>6. CASE Insert(q)
    BY <2>6, <1>1 DEF Insert, Advance
  <2>7. CASE Delete(q)
    BY <2>7, <1>1 DEF Delete, Advance
  <2>8. CASE Stop(q)
    <3>1. pc[q] \in WriteCall
      BY <2>8, <1>t, AtWork DEF Stop
    <3> QED
      BY <2>8, <3>1, <1>1 DEF Stop, WriteCall
  <2> QED
    BY <1>4, <2>1, <2>2, <2>3, <2>4, <2>5, <2>6, <2>7, <2>8 DEF Server, Proceed
<1>5. ASSUME NEW q \in Request, Finish(q), pc[q] \in {"ok", "failed"} PROVE FALSE
  BY <1>5, <1>1 DEF Finish
<1>6. ASSUME NEW q \in Request, NEW op, NEW arg, Ask(q, op, arg) PROVE FALSE
  <2>1. pc[q] = "new" /\ \E to : Goto(q, to)
    BY <1>6 DEF Ask
  <2> QED
    BY <2>1, <1>1
<1>7. ASSUME NEW q \in Request, Page(q) PROVE FALSE
  <2>1. CASE \/ Mount(q) \/ (\E k \in ApiKey : SaveKey(q, k)) \/ ChangeKey(q)
             \/ FetchAccounts(q) \/ SaveAccount(q)
    BY <2>1, <1>6 DEF Mount, SaveKey, ChangeKey, FetchAccounts, SaveAccount, Start
  <2>2. CASE Loaded(q) \/ Ended(q) \/ ListAnswer(q)
    BY <2>2, <1>5 DEF Loaded, Ended, ListAnswer
  <2>3. CASE WriteAnswer(q)
    <3>1. pc[q] = "ok" /\ pc' = [pc EXCEPT ![q] = "read"]
      BY <2>3 DEF WriteAnswer
    <3> QED
      BY <3>1, <1>t DEF Types
  <2> QED
    BY <1>7, <2>1, <2>2, <2>3 DEF Page
<1>8. ASSUME NEW q \in Request, Client(q) PROVE FALSE
  BY <1>8, <1>6 DEF Client
<1>9. ASSUME NEW q \in Request, Forget(q) PROVE FALSE
  BY <1>9, <1>5 DEF Forget
<1>10. ASSUME Restart PROVE FALSE
  <2>1. pc' = [q \in Request |-> IF Running(q) THEN "failed" ELSE pc[q]]
    BY <1>10 DEF Restart
  <2>2. pc'[r] \in {"failed", "read"}
    BY <2>1
  <2> QED
    BY <2>2
<1>11. ASSUME \/ \E a \in Account : Choose(a)
              \/ CancelAccounts \/ CancelChange \/ UNCHANGED vars
       PROVE  FALSE
  BY <1>11, <1>3 DEF Choose, CancelAccounts, CancelChange, vars, settingVars
<1> QED
  BY <1>4, <1>7, <1>8, <1>9, <1>10, <1>11 DEF Next

\* A handler that reads several keys gets what was written last of each, unless it was
\* disturbed (settings.controller.ts:50-57, payment.service.ts:45-46).
THEOREM ReadersFollowWriters == Spec => ReadsFollowWrites
<1> DEFINE Follows(r) ==
      pc[r] = "read" /\ pc'[r] \in {"ok", "sepay"} /\ r \notin disturbed' =>
        \A k \in Keys(req[r].op) :
          req'[r].got[k] = IF wanted[k] = None THEN Env(k) ELSE wanted[k]
<1>1. IInv /\ [Next]_vars => \A r \in Request : Follows(r)
  <2> SUFFICES ASSUME IInv, [Next]_vars, NEW r \in Request, pc[r] = "read",
                      pc'[r] \in {"ok", "sepay"}, r \notin disturbed',
                      NEW k \in Keys(req[r].op)
               PROVE  req'[r].got[k] = IF wanted[k] = None THEN Env(k) ELSE wanted[k]
    OBVIOUS
  <2>1. PICK fails \in BOOLEAN : Read(r, fails)
    BY ReadingEnds
  <2> QED
    BY <2>1, ReadStep DEF IInv, Answer
<1> QED
  BY <1>1, InvariantHolds, PTL DEF Spec, ReadsFollowWrites

-----------------------------------------------------------------------------
(***************************************************************************)
(* The page alone                                                          *)
(***************************************************************************)

\* What the page awaits.
Under(op) == call # None /\ req[call].op = op

\* While nothing has gone wrong, all but the awaited request are loads, nobody
\* disturbs a writer, and a handler that was stopped has not yet answered.
OnlyTheCall ==
  /\ \A r \in Request : pc[r] \notin {"new", "done"} /\ r # call => req[r].op = "config"
  /\ call # None => req[call].op \in {"config", "list", "putKey", "putAccount", "remove"}
  /\ \A r \in Request : pc[r] \in WriteCall => r \notin disturbed
  /\ suspect # {} => call # None /\ pc[call] = "failed"

\* No key is stored, and the environment has one.
NoKey == IF EnvKey = None THEN {} ELSE {None}

\* The stored key, when the page works with key k.
KeyFor(k) == {k, Garbled} \cup NoKey

\* What is wanted belongs together, and so does what the page shows of it: the
\* accounts it lists are those of the key, until it hears that the key is removed.
Belongs ==
  /\ wanted["number"] # None =>
       /\ wanted["number"] \in Account
       /\ wanted["apiKey"] \in KeyFor(Owner[wanted["number"]])
  /\ accounts # None => \/ wanted["apiKey"] \in KeyFor(accounts)
                        \/ Under("remove") /\ pc[call] = "ok"
  /\ changing => wanted["number"] = None /\ accounts = None

\* A key is saved where there is no account, an account of the key is, the list
\* that is fetched is the key's, and what was removed is gone.
InHand ==
  /\ Under("putKey") => wanted["number"] = None /\ accounts = None
  /\ Under("putAccount") =>
       /\ ~changing
       /\ pc[call] \in WriteCall => /\ req[call].arg \in Account
                                    /\ wanted["apiKey"] \in KeyFor(Owner[req[call].arg])
  /\ Under("list") =>
       /\ ~changing
       /\ pc[call] \in {"sepay", "ok"} =>
            wanted["apiKey"] \in KeyFor(req[call].got["apiKey"])
  /\ Under("remove") /\ pc[call] = "ok" => wanted["number"] = None

PageAlone == OnlyTheCall /\ Belongs /\ InHand

\* A step of others than the awaited request.
LEMMA Quiet ==
  ASSUME PageAlone, UNCHANGED <<wanted, suspect, call>>, accounts' \in {accounts, None},
         changing' => changing,
         \A q \in Request : pc'[q] \notin {"new", "done"} /\ q # call => req'[q].op = "config",
         \A q \in Request : pc'[q] \in WriteCall => q \notin disturbed',
         call # None => pc'[call] = pc[call] /\ req'[call] = req[call]
  PROVE  PageAlone'
<1>1. OnlyTheCall'
  BY DEF PageAlone, OnlyTheCall
<1>2. Belongs'
  BY DEF PageAlone, Belongs, Under
<1>3. InHand'
  BY DEF PageAlone, InHand, Under
<1> QED
  BY <1>1, <1>2, <1>3 DEF PageAlone

\* A step of the awaited request that settles nothing.
LEMMA CallMoves ==
  ASSUME PageAlone, Types, NEW r \in Request, r = call, r # None, Alone(r), pc[r] \in Calls,
         UNCHANGED <<wanted, call, accounts, changing>>,
         req'[r].op = req[r].op, req'[r].arg = req[r].arg,
         pc'[r] \in WriteCall => pc[r] \in WriteCall, pc'[r] = "ok" => req[r].op \in Readers,
         disturbed' \ {r} \subseteq disturbed, pc'[r] \in WriteCall => r \notin disturbed',
         suspect' = suspect \/ pc'[r] = "failed",
         req[r].op = "list" /\ pc'[r] \in {"sepay", "ok"} =>
           wanted["apiKey"] \in KeyFor(req'[r].got["apiKey"])
  PROVE  PageAlone'
<1>0. \A q \in Request \ {r} : pc'[q] = pc[q] /\ req'[q] = req[q]
  BY OthersStay
<1>c. pc[r] \notin {"ok", "failed"}
  BY DEF Calls, WriteCall
<1>1. OnlyTheCall'
  <2>1. suspect' # {} => pc'[r] = "failed"
    BY <1>c DEF PageAlone, OnlyTheCall
  <2>2. \A q \in Request : pc'[q] \in WriteCall => q \notin disturbed'
    BY <1>0 DEF PageAlone, OnlyTheCall
  <2> QED
    BY <1>0, <2>1, <2>2 DEF PageAlone, OnlyTheCall
<1>2. Belongs'
  BY <1>c DEF PageAlone, Belongs, Under
<1>3. InHand'
  BY DEF PageAlone, InHand, Under, Readers
<1> QED
  BY <1>1, <1>2, <1>3 DEF PageAlone

\* The keys of what the page asks for.
LEMMA KeysOfThePage ==
  /\ Keys("putKey") = {"apiKey"} /\ Keys("putAccount") = {"number", "bank"}
  /\ Keys("remove") = Setting /\ Keys("list") = {"apiKey"}
<1>1. /\ KeysOf(Writes["putKey"]) = Keys("putKey")
      /\ KeysOf(Writes["putAccount"]) = Keys("putAccount")
      /\ KeysOf(Writes["remove"]) = Keys("remove") /\ KeysOf(Reads["list"]) = Keys("list")
  BY Handlers DEF Readers, Writers
<1>2. KeysOf(<<"apiKey">>) = {"apiKey"}
  BY DEF KeysOf
<1>3. KeysOf(<<"number", "bank">>) = {"number", "bank"}
  BY DEF KeysOf
<1>4. KeysOf(AllKeys) = Setting
  <2>1. /\ DOMAIN AllKeys = 1..3
        /\ AllKeys[1] = "apiKey" /\ AllKeys[2] = "number" /\ AllKeys[3] = "bank"
    BY DEF AccountKeys, AllKeys
  <2>2. KeysOf(AllKeys) = {AllKeys[1], AllKeys[2], AllKeys[3]}
    BY <2>1 DEF KeysOf
  <2> QED
    BY <2>1, <2>2 DEF Setting
<1>5. /\ Writes["putKey"] = <<"apiKey">> /\ Writes["putAccount"] = <<"number", "bank">>
      /\ Writes["remove"] = AllKeys /\ Reads["list"] = <<"apiKey">>
  BY DEF Reads, Writes, AccountKeys
<1> QED
  BY <1>1, <1>2, <1>3, <1>4, <1>5

\* The awaited writer has done its last key.
LEMMA CallSettles ==
  ASSUME PageAlone, Types, Steps, NEW r \in Request, r = call, r # None, Alone(r),
         pc[r] \in WriteCall,
         UNCHANGED <<call, accounts, changing>>, req'[r].op = req[r].op, pc'[r] = "ok",
         disturbed' = disturbed \ {r}, suspect' \subseteq suspect,
         wanted' = [k \in Setting |-> IF k \in Keys(req[r].op) THEN req[r].arg ELSE wanted[k]]
  PROVE  PageAlone'
<1>0. \A q \in Request \ {r} : pc'[q] = pc[q] /\ req'[q] = req[q]
  BY OthersStay
<1>c. pc[r] # "failed" /\ pc'[r] \notin WriteCall /\ pc[r] # "ok"
  BY DEF WriteCall
<1>1. OnlyTheCall'
  <2>1. suspect' = {}
    BY <1>c DEF PageAlone, OnlyTheCall
  <2>2. \A q \in Request : pc'[q] \in WriteCall => q \notin disturbed'
    BY <1>0, <1>c DEF PageAlone, OnlyTheCall
  <2> QED
    BY <1>0, <2>1, <2>2 DEF PageAlone, OnlyTheCall
<1>o. req[r].op \in {"putKey", "putAccount", "remove"}
  <2>1. req[r].op \in Writers
    BY DEF Steps
  <2> QED
    BY <2>1 DEF PageAlone, OnlyTheCall, Writers
<1>k. {"apiKey", "number"} \subseteq Setting
  BY DEF Setting
<1>2. CASE req[r].op = "putKey"
  <2>1. wanted'["apiKey"] = req[r].arg /\ wanted'["number"] = wanted["number"]
    BY <1>2, <1>k, KeysOfThePage
  <2>2. wanted["number"] = None /\ accounts = None
    BY <1>2 DEF PageAlone, InHand, Under
  <2>3. Belongs' /\ InHand'
    BY <1>2, <2>1, <2>2 DEF Belongs, InHand, Under
  <2> QED
    BY <1>1, <2>3 DEF PageAlone
<1>3. CASE req[r].op = "putAccount"
  <2>1. wanted'["apiKey"] = wanted["apiKey"] /\ wanted'["number"] = req[r].arg
    BY <1>3, <1>k, KeysOfThePage
  <2>2. /\ ~changing /\ req[r].arg \in Account
        /\ wanted["apiKey"] \in KeyFor(Owner[req[r].arg])
    BY <1>3 DEF PageAlone, InHand, Under
  <2>3. Belongs'
    BY <1>3, <2>1, <2>2 DEF PageAlone, Belongs, Under
  <2>4. InHand'
    BY <1>3, <1>c, <2>2 DEF InHand, Under
  <2> QED
    BY <1>1, <2>3, <2>4 DEF PageAlone
<1>4. CASE req[r].op = "remove"
  <2>1. req[r].arg = None
    BY <1>4 DEF Steps
  <2>2. wanted'["apiKey"] = None /\ wanted'["number"] = None
    BY <1>4, <2>1, <1>k, KeysOfThePage
  <2>3. Belongs'
    BY <1>4, <2>2 DEF PageAlone, Belongs, Under
  <2>4. InHand'
    BY <1>4, <2>2 DEF InHand, Under
  <2> QED
    BY <1>1, <2>3, <2>4 DEF PageAlone
<1> QED
  BY <1>o, <1>2, <1>3, <1>4

\* The awaited writer goes on to its next key, or has done its last.
LEMMA CallGoesOn ==
  ASSUME PageAlone, Types, Steps, NEW r \in Request, r = call, r # None, pc[r] \in WriteCall,
         NEW here \in {"find", "delete"}, Advance(r, here), Settled(r),
         UNCHANGED <<call, accounts, changing>>
  PROVE  PageAlone'
<1>1. /\ pc' = [pc EXCEPT ![r] = IF Len(req[r].todo) > 1 THEN here ELSE "ok"]
      /\ req' = [req EXCEPT ![r].todo = Tail(req[r].todo), ![r].id = None]
  BY DEF Advance, Goto
<1>2. Tail(req[r].todo) \in Todo /\ req[r] \in Work /\ None \in Ids
  BY AtAKey DEF Types, Ids
<1>3. /\ pc'[r] = (IF Len(req[r].todo) > 1 THEN here ELSE "ok")
      /\ req'[r].op = req[r].op /\ req'[r].arg = req[r].arg /\ req'[r] \in Work
  BY <1>1, <1>2 DEF Types, Work
<1>4. Alone(r)
  <2>1. pc'[r] \in Calls \cup {"new", "ok", "failed", "done"}
    BY <1>3 DEF Calls, WriteCall
  <2> QED
    BY <1>1, <1>3, <2>1 DEF Alone, Types
<1>5. pc[r] \in Calls /\ r \notin disturbed
  BY DEF Calls, PageAlone, OnlyTheCall
<1>6. CASE Len(req[r].todo) > 1
  <2>1. UNCHANGED <<wanted, suspect, disturbed>> /\ pc'[r] \in {"find", "delete"}
    BY <1>3, <1>6 DEF Settled
  <2> QED
    BY <2>1, <1>3, <1>4, <1>5, CallMoves
<1>7. CASE ~(Len(req[r].todo) > 1)
  <2>1. /\ disturbed' = disturbed \ {r} /\ suspect' = suspect \ Keys(req[r].op)
        /\ wanted' = [k \in Setting |->
                        IF k \in Keys(req[r].op) THEN req[r].arg ELSE wanted[k]]
    BY <1>5, <1>7 DEF Settled
  <2>2. pc'[r] = "ok"
    BY <1>3, <1>7
  <2> QED
    BY <2>1, <2>2, <1>3, <1>4, CallSettles
<1> QED
  BY <1>6, <1>7

\* A writer that is stopped, or whose INSERT fails.
LEMMA CallFails ==
  ASSUME PageAlone, Types, NEW r \in Request, r = call, r # None, pc[r] \in WriteCall,
         Goto(r, "failed"), req' = [req EXCEPT ![r].id = None],
         disturbed' = disturbed \ {r}, UNCHANGED <<wanted, call, accounts, changing>>
  PROVE  PageAlone'
<1>1. /\ pc' = [pc EXCEPT ![r] = "failed"] /\ pc'[r] = "failed"
      /\ req[r] \in Work /\ None \in Ids
  BY DEF Goto, Types, Ids
<1>2. req'[r].op = req[r].op /\ req'[r].arg = req[r].arg /\ req'[r] \in Work
  BY <1>1 DEF Types, Work
<1>3. Alone(r) /\ pc[r] \in Calls /\ pc'[r] \notin WriteCall
  BY <1>1, <1>2 DEF Alone, Types, Calls, WriteCall
<1> QED
  BY <1>1, <1>2, <1>3, CallMoves

\* The list the page waits for is not made with the environment's key in place of a
\* stored one.
NoFallback(r) ==
  r = call /\ req[r].op = "list" /\ pc[r] = "read" /\ pc'[r] = "sepay"
    /\ row["apiKey"].id # None => req'[r].got["apiKey"] = row["apiKey"].value

\* A reader's call: what the list is asked with is the key.
LEMMA ReaderGoesOn ==
  ASSUME PageAlone, IInv, NEW r \in Request, NEW fails \in BOOLEAN, Read(r, fails),
         UNCHANGED <<call, accounts, changing>>, NoFallback(r)
  PROVE  PageAlone'
<1>t. SInv /\ Types /\ Steps /\ LastWritten /\ r # None
  BY ValueAssumption DEF IInv, SInv
<1>0. /\ Alone(r) /\ pc[r] = "read" /\ pc'[r] \notin {"new", "done"}
      /\ req'[r].op = req[r].op
  BY <1>t, ReadStep
<1>1. \A q \in Request \ {r} : pc'[q] = pc[q] /\ req'[q] = req[q]
  BY <1>0, <1>t, OthersStay
<1>2. /\ UNCHANGED <<row, wanted, suspect>> /\ disturbed' \ {r} \subseteq disturbed
      /\ pc' = [pc EXCEPT ![r] = pc'[r]] /\ pc'[r] \notin WriteCall /\ req[r].op \in Readers
  <2>1. UNCHANGED <<row, wanted, suspect>> /\ disturbed' \ {r} \subseteq disturbed
    BY DEF Read
  <2>2. pc'[r] \in {"read", "sepay", "ok", "failed"}
    BY <1>t DEF Read, Goto, Types
  <2> QED
    BY <2>1, <2>2, <1>0, <1>t DEF Alone, WriteCall, Steps
<1>3. CASE r # call
  <2>1. \A q \in Request : pc'[q] \notin {"new", "done"} /\ q # call => req'[q].op = "config"
    BY <1>0, <1>1, <1>3 DEF PageAlone, OnlyTheCall
  <2>2. \A q \in Request : pc'[q] \in WriteCall => q \notin disturbed'
    BY <1>1, <1>2 DEF PageAlone, OnlyTheCall
  <2>3. call # None => pc'[call] = pc[call] /\ req'[call] = req[call]
    <3>1. call # None => call \in Request
      BY DEF IInv, PageOK
    <3> QED
      BY <1>1, <1>3, <3>1
  <2> QED
    BY <1>2, <2>1, <2>2, <2>3, Quiet
<1>4. CASE r = call
  <2>1. req'[r].arg = req[r].arg
    BY <1>t, <1>0 DEF Read, Types, Work
  <2>2. ASSUME req[r].op = "list", pc'[r] \in {"sepay", "ok"}
        PROVE  wanted["apiKey"] \in KeyFor(req'[r].got["apiKey"])
    <3>1. KeysOf(req[r].todo) \subseteq {"apiKey"} /\ At(r) \in KeysOf(req[r].todo)
      BY <1>0, <1>t, <2>2, AtAKey, KeysOfThePage DEF Steps, Calls
    <3>2. At(r) = "apiKey" /\ Env("apiKey") = EnvKey
      BY <3>1 DEF Env
    <3> DEFINE v == IF row["apiKey"].id # None /\ ~fails THEN row["apiKey"].value ELSE EnvKey
    <3>3. req'[r].got["apiKey"] = v
      BY <3>2, <1>t DEF Read, Types, Work, Setting
    <3>4. v # None /\ pc'[r] = "sepay"
      BY <3>2, <1>t, <2>2, KeysOfThePage DEF Read, Goto, Types, Work, Setting
    <3>5. suspect = {} /\ \A q \in Request : pc[q] \notin WriteCall
      BY <1>0, <1>4, <1>t, Handlers DEF PageAlone, OnlyTheCall, Steps, WriteCall, Writers
    <3>6. row["apiKey"].value = wanted["apiKey"]
      BY <3>5, <1>t DEF LastWritten, Setting
    <3>7. CASE row["apiKey"].id # None
      <4>1. req'[r].got["apiKey"] = row["apiKey"].value
        BY <3>4, <3>7, <1>0, <1>4, <2>2 DEF NoFallback
      <4> QED
        BY <4>1, <3>6 DEF KeyFor
    <3>8. CASE row["apiKey"].id = None
      <4>1. EnvKey # None /\ wanted["apiKey"] = None
        BY <3>4, <3>6, <3>8, <1>t DEF Types, Setting
      <4> QED
        BY <4>1 DEF KeyFor, NoKey
    <3> QED
      BY <3>7, <3>8
  <2> QED
    BY <1>0, <1>2, <1>4, <1>t, <2>1, <2>2, CallMoves DEF Calls
<1> QED
  BY <1>3, <1>4

\* A call of a request.
LEMMA ProceedsAlone ==
  ASSUME PageAlone, IInv, NEW r \in Request, Proceed(r), UNCHANGED page, NoFallback(r)
  PROVE  PageAlone'
<1>t. SInv /\ Types /\ Steps /\ r # None /\ UNCHANGED <<call, accounts, changing>>
  BY ValueAssumption DEF IInv, SInv, page
<1>w. ASSUME pc[r] \in WriteCall PROVE r = call
  <2>1. req[r].op \in Writers /\ pc[r] \notin {"new", "done"}
    BY <1>w, <1>t DEF Steps, WriteCall
  <2> QED
    BY <2>1 DEF PageAlone, OnlyTheCall, Writers
<1>k. ASSUME Alone(r), pc[r] \in WriteCall, pc'[r] \in WriteCall, req'[r].op = req[r].op,
             req'[r].arg = req[r].arg, UNCHANGED <<wanted, suspect, disturbed>>
      PROVE  PageAlone'
  <2>1. r \notin disturbed' /\ pc'[r] \notin {"sepay", "ok"} /\ pc[r] \in Calls
    BY <1>k DEF PageAlone, OnlyTheCall, Calls, WriteCall
  <2> QED
    BY <1>k, <1>t, <1>w, <2>1, CallMoves
<1>1. ASSUME NEW fails \in BOOLEAN, Read(r, fails) PROVE PageAlone'
  BY <1>1, <1>t, ReaderGoesOn
<1>2. ASSUME NEW answers \in BOOLEAN, Sepay(r, answers) PROVE PageAlone'
  <2>1. /\ Alone(r) /\ pc[r] = "sepay" /\ pc'[r] \in {"ok", "failed"} /\ req' = req
        /\ UNCHANGED <<wanted, suspect, disturbed>>
    BY <1>2, <1>t, SepayStep DEF Sepay, Goto, Types
  <2>2. \A q \in Request \ {r} : pc'[q] = pc[q]
    BY <2>1, <1>t, OthersStay
  <2>3. CASE r = call
    <3>1. req[r].op = "list" => wanted["apiKey"] \in KeyFor(req[r].got["apiKey"])
      BY <2>1, <2>3, <1>t DEF PageAlone, InHand, Under
    <3>2. pc[r] \in Calls /\ pc'[r] \notin WriteCall /\ req[r].op \in Readers
      BY <2>1, <1>t DEF Calls, WriteCall, Steps
    <3> QED
      BY <2>1, <2>3, <3>1, <3>2, <1>t, CallMoves
  <2>4. CASE r # call
    <3>1. \A q \in Request : pc'[q] \notin {"new", "done"} /\ q # call => req'[q].op = "config"
      BY <2>1, <2>2, <2>4 DEF PageAlone, OnlyTheCall
    <3>2. \A q \in Request : pc'[q] \in WriteCall => q \notin disturbed'
      BY <2>1, <2>2 DEF PageAlone, OnlyTheCall, WriteCall
    <3>3. call # None => pc'[call] = pc[call] /\ req'[call] = req[call]
      BY <2>1, <2>2, <2>4 DEF IInv, PageOK
    <3> QED
      BY <2>1, <3>1, <3>2, <3>3, <1>t, Quiet
  <2> QED
    BY <2>3, <2>4
<1>3. CASE Find(r)
  <2>1. /\ pc[r] = "find" /\ req' = [req EXCEPT ![r].id = row[At(r)].id]
        /\ pc' = [pc EXCEPT ![r] = IF row[At(r)].id = None THEN "insert" ELSE "save"]
        /\ UNCHANGED <<row, wanted, suspect, disturbed>>
    BY <1>3 DEF Find, Goto
  <2>2. At(r) \in Setting
    BY <2>1, <1>t, AtAKey DEF WriteCall
  <2>3. /\ pc'[r] \in {"insert", "save"} /\ pc' = [pc EXCEPT ![r] = pc'[r]]
        /\ req'[r] \in Work /\ req' = [req EXCEPT ![r] = req'[r]]
        /\ req'[r].op = req[r].op /\ req'[r].arg = req[r].arg
    BY <2>1, <2>2, <1>t DEF Types, Work
  <2>4. Alone(r) /\ pc[r] \in WriteCall /\ pc'[r] \in WriteCall
    BY <2>1, <2>3 DEF Alone, WriteCall, Calls
  <2> QED
    BY <2>1, <2>3, <2>4, <1>k
<1>4. CASE Reload(r)
  <2>1. pc[r] \in WriteCall
    BY <1>4 DEF Reload, WriteCall
  <2>2. CASE Advance(r, "find") /\ Settled(r)
    BY <2>1, <2>2, <1>t, <1>w, CallGoesOn
  <2>3. CASE /\ Goto(r, IF Mine(r) THEN "update" ELSE "insert")
             /\ UNCHANGED <<req, wanted, suspect, disturbed>>
    <3>1. pc'[r] \in {"update", "insert"} /\ pc' = [pc EXCEPT ![r] = pc'[r]]
      BY <2>3, <1>t DEF Goto, Types
    <3>2. Alone(r) /\ pc'[r] \in WriteCall
      BY <2>3, <3>1, <1>t DEF Alone, Types, Calls, WriteCall
    <3> QED
      BY <2>1, <2>3, <3>2, <1>k
  <2> QED
    BY <1>4, <2>2, <2>3 DEF Reload
<1>5. CASE Update(r)
  BY <1>5, <1>t, <1>w, CallGoesOn DEF Update, WriteCall
<1>6. CASE Insert(r)
  <2>1. pc[r] \in WriteCall
    BY <1>6 DEF Insert, WriteCall
  <2>2. CASE Advance(r, "find") /\ Settled(r)
    BY <2>1, <2>2, <1>t, <1>w, CallGoesOn
  <2>3. CASE /\ Goto(r, "failed") /\ req' = [req EXCEPT ![r].id = None]
             /\ disturbed' = disturbed \ {r} /\ UNCHANGED <<row, wanted>>
    BY <2>1, <2>3, <1>t, <1>w, CallFails
  <2> QED
    BY <1>6, <2>2, <2>3 DEF Insert
<1>7. CASE Delete(r)
  BY <1>7, <1>t, <1>w, CallGoesOn DEF Delete, WriteCall
<1>8. CASE Stop(r)
  <2>1. pc[r] \in WriteCall
    BY <1>8, <1>t, AtWork DEF Stop
  <2> QED
    BY <1>8, <2>1, <1>t, <1>w, CallFails DEF Stop
<1> QED
  BY <1>1, <1>2, <1>3, <1>4, <1>5, <1>6, <1>7, <1>8 DEF Proceed

\* The key can be read no more, and who was at work has failed.
LEMMA RestartsAlone ==
  ASSUME PageAlone, IInv, Restart, UNCHANGED page
  PROVE  PageAlone'
<1>t. SInv /\ Types /\ Steps /\ UNCHANGED <<call, accounts, changing>>
  BY DEF IInv, SInv, page
<1>1. \A r \in Request : /\ pc'[r] = (IF pc[r] \in Calls THEN "failed" ELSE pc[r])
                         /\ req'[r].op = req[r].op /\ req'[r].got = req[r].got
  <2>1. \A r \in Request : req[r] \in Work
    BY <1>t DEF Types
  <2> QED
    BY <1>t, <2>1, AtWork DEF Restart, Work
<1>2. \A r \in Request : pc'[r] \notin WriteCall /\ pc'[r] # "sepay"
  BY <1>1 DEF Calls, WriteCall
<1>3. call # None => call \in Request
  BY DEF IInv, PageOK
<1>4. OnlyTheCall'
  <2>1. \A r \in Request : pc'[r] \notin {"new", "done"} /\ r # call' => req'[r].op = "config"
    BY <1>1, <1>t DEF PageAlone, OnlyTheCall, Calls, WriteCall
  <2>2. ASSUME suspect' # {} PROVE call # None /\ pc'[call] = "failed"
    <3>1. CASE suspect # {}
      BY <3>1, <1>1, <1>3 DEF PageAlone, OnlyTheCall, Calls, WriteCall
    <3>2. CASE suspect = {}
      <4>1. PICK r \in Request : Writing(r)
        BY <2>2, <3>2 DEF Restart
      <4>2. pc[r] \in WriteCall /\ pc[r] \in Calls /\ req[r].op \in Writers
        BY <4>1, <1>t, AtWork DEF Steps, Calls
      <4>3. r = call
        BY <4>2 DEF PageAlone, OnlyTheCall, WriteCall, Writers
      <4> QED
        BY <4>2, <4>3, <1>1, ValueAssumption
    <3> QED
      BY <3>1, <3>2
  <2> QED
    BY <2>1, <2>2, <1>1, <1>2, <1>3, <1>t DEF PageAlone, OnlyTheCall
<1>5. /\ wanted'["number"] = wanted["number"]
      /\ wanted'["apiKey"] = IF wanted["apiKey"] = None THEN None ELSE Garbled
  BY <1>t DEF Restart, Types, Setting
<1>g. \A k : wanted["apiKey"] \in KeyFor(k) => wanted'["apiKey"] \in KeyFor(k)
  BY <1>5 DEF KeyFor
<1>6. \A op : Under(op)' <=> Under(op)
  BY <1>1, <1>3, <1>t DEF Under
<1>7. Belongs'
  <2>2. Under("remove") /\ pc[call] = "ok" => Under("remove")' /\ pc'[call] = "ok"
    BY <1>1, <1>3, <1>6 DEF Under, Calls, WriteCall
  <2>3. accounts # None => accounts # None /\ accounts \in ApiKey
    BY DEF IInv, PageOK
  <2> QED
    BY <2>2, <2>3, <1>5, <1>g, <1>t, ValueAssumption DEF PageAlone, Belongs
<1>8. InHand'
  <2>1. ASSUME call # None, pc'[call] = "ok"
        PROVE  pc[call] = "ok" /\ req'[call].got = req[call].got
    BY <2>1, <1>1, <1>3 DEF Calls, WriteCall
  <2> QED
    BY <2>1, <1>2, <1>3, <1>5, <1>g, <1>6, <1>t DEF PageAlone, InHand, Under
<1> QED
  BY <1>4, <1>7, <1>8 DEF PageAlone

\* A handler of the page asks.
LEMMA StartsAlone ==
  ASSUME PageAlone, IInv, NEW r \in Request,
         NEW op \in {"list", "putKey", "putAccount", "remove"}, NEW arg \in Value \cup {None},
         op \in Writers => (op = "remove" <=> arg = None), Start(r, op, arg),
         UNCHANGED <<accounts, changing>>,
         op = "putKey" => wanted["number"] = None /\ accounts = None,
         op = "putAccount" => /\ ~changing /\ arg \in Account
                              /\ wanted["apiKey"] \in KeyFor(Owner[arg]),
         op = "list" => ~changing
  PROVE  PageAlone'
<1>t. SInv /\ Types /\ Steps /\ r # None /\ op \in Op
  BY Handlers, ValueAssumption DEF IInv, SInv, Readers, Writers
<1>a. call = None /\ call' = r /\ Ask(r, op, arg)
  BY DEF Start, IInv, PageOK
<1>0. Alone(r) /\ pc'[r] \in Calls
  BY <1>a, <1>t, AskStep
<1>1. \A q \in Request \ {r} : pc'[q] = pc[q] /\ req'[q] = req[q]
  BY <1>0, <1>t, OthersStay
<1>2. suspect = {} /\ \A q \in Request : pc[q] \notin WriteCall
  <2>1. suspect = {}
    BY <1>a DEF PageAlone, OnlyTheCall
  <2>2. ASSUME NEW q \in Request, pc[q] \in WriteCall PROVE FALSE
    <3>1. req[q].op \in Writers /\ q # None /\ pc[q] \notin {"new", "done"}
      BY <2>2, <1>t, ValueAssumption DEF Steps, WriteCall
    <3> QED
      BY <3>1, <1>a DEF PageAlone, OnlyTheCall, Writers
  <2> QED
    BY <2>1, <2>2
<1>3. req'[r].op = op /\ req'[r].arg = arg /\ pc'[r] \notin {"sepay", "ok"}
  BY <1>a, <1>t DEF Ask, Goto, Types, Idle
<1>4. UNCHANGED <<wanted, suspect>>
  BY <1>a DEF Ask
<1>5. ASSUME pc'[r] \in WriteCall PROVE r \notin disturbed'
  <2>1. op \in DOMAIN Writes
    BY <1>5, <1>a, <1>t DEF Ask, Goto, Types, WriteCall
  <2>2. \A q \in Request : ~Writing(q)
    BY <1>2, <1>t, AtWork
  <2>3. ~Running(r)
    BY <1>a DEF Ask, Running
  <2> QED
    BY <1>a, <2>1, <2>2, <2>3 DEF Ask
<1>6. OnlyTheCall'
  <2>1. \A q \in Request : pc'[q] \notin {"new", "done"} /\ q # r => req'[q].op = "config"
    <3>1. \A q \in Request : q # None
      BY ValueAssumption
    <3> QED
      BY <1>1, <1>a, <3>1 DEF PageAlone, OnlyTheCall
  <2>2. \A q \in Request : pc'[q] \in WriteCall => q \notin disturbed'
    BY <1>1, <1>2, <1>5
  <2> QED
    BY <2>1, <2>2, <1>2, <1>3, <1>4, <1>a DEF OnlyTheCall
<1>7. Belongs'
  BY <1>4, <1>a DEF PageAlone, Belongs, Under
<1>8. InHand'
  BY <1>3, <1>4, <1>a DEF InHand, Under
<1> QED
  BY <1>6, <1>7, <1>8 DEF PageAlone

\* While no handler is under way, what is stored is what is wanted, and without a key,
\* stored or the environment's, there is no account.
LEMMA NothingInHand ==
  ASSUME PageAlone, IInv, call = None
  PROVE  /\ suspect = {} /\ row["apiKey"].value = wanted["apiKey"]
         /\ row["apiKey"].id = None /\ EnvKey = None =>
              wanted["number"] = None /\ accounts = None
<1>t. SInv /\ Types /\ Steps /\ LastWritten
  BY DEF IInv, SInv
<1>1. suspect = {}
  BY DEF PageAlone, OnlyTheCall
<1>2. ASSUME NEW q \in Request, pc[q] \in WriteCall PROVE FALSE
  <2>1. req[q].op \in Writers /\ q # None /\ pc[q] \notin {"new", "done"}
    BY <1>2, <1>t, ValueAssumption DEF Steps, WriteCall
  <2> QED
    BY <2>1 DEF PageAlone, OnlyTheCall, Writers
<1>3. row["apiKey"].value = wanted["apiKey"]
  BY <1>1, <1>2, <1>t DEF LastWritten, Setting
<1>4. ASSUME row["apiKey"].id = None, EnvKey = None
      PROVE  wanted["number"] = None /\ accounts = None
  <2>1. wanted["apiKey"] = None
    BY <1>3, <1>4, <1>t DEF Types, Setting
  <2>2. accounts \in ApiKey \cup {None} /\ Garbled # None
    BY ValueAssumption DEF IInv, PageOK
  <2> QED
    BY <2>1, <2>2, <1>4, ValueAssumption, OwnerAssumption
    DEF PageAlone, Belongs, Under, KeyFor, NoKey
<1> QED
  BY <1>1, <1>3, <1>4

\* A step of the page.
LEMMA PageStaysAlone ==
  ASSUME PageAlone, IInv, NEW r \in Request, Page(r), causes' = {}
  PROVE  PageAlone'
<1>t. SInv /\ Types /\ Steps /\ PageOK /\ r # None /\ causes = {}
  BY ValueAssumption DEF IInv, SInv, Page
<1>v. None \notin Value /\ ApiKey \subseteq Value /\ Account \subseteq Value
  BY ValueAssumption DEF Value
<1>m. CASE Mount(r)
  <2>1. Ask(r, "config", None) /\ call' = None /\ accounts' = None /\ changing' = FALSE
    BY <1>m DEF Mount
  <2>2. call = None
    BY <1>m, <1>t DEF Mount
  <2>3. Alone(r) /\ "config" \in Op /\ "config" \notin DOMAIN Writes
    BY <1>t, <2>1, Handlers, AskStep DEF Readers, Writers
  <2>4. \A q \in Request \ {r} : pc'[q] = pc[q] /\ req'[q] = req[q]
    BY <2>3, <1>t, OthersStay
  <2>5. /\ req'[r].op = "config" /\ pc'[r] = "read" /\ UNCHANGED <<wanted, suspect>>
        /\ disturbed' \ {r} \subseteq disturbed
    BY <2>1, <2>3, <1>t DEF Ask, Goto, Types, Idle
  <2>6. \A q \in Request : pc'[q] \notin {"new", "done"} /\ q # call => req'[q].op = "config"
    BY <2>4, <2>5 DEF PageAlone, OnlyTheCall
  <2>7. \A q \in Request : pc'[q] \in WriteCall => q \notin disturbed'
    BY <2>4, <2>5 DEF PageAlone, OnlyTheCall, WriteCall
  <2> QED
    BY <2>1, <2>2, <2>5, <2>6, <2>7, Quiet
<1>1. ASSUME NEW k \in ApiKey, SaveKey(r, k) PROVE PageAlone'
  <2>1. /\ Start(r, "putKey", k) /\ UNCHANGED <<accounts, changing>> /\ KeyForm /\ call = None
        /\ config \in {None, NotLoaded} => row["apiKey"].id = None /\ EnvKey = None
    BY <1>1, <1>t DEF SaveKey, Start, PageOK
  <2>2. wanted["number"] = None /\ accounts = None
    BY <2>1, NothingInHand DEF PageAlone, Belongs, KeyForm
  <2> QED
    BY <2>1, <2>2, <1>v, StartsAlone DEF Writers
<1>2. CASE ChangeKey(r)
  BY <1>2, StartsAlone DEF ChangeKey
<1>3. CASE FetchAccounts(r)
  BY <1>3, StartsAlone DEF FetchAccounts, KeyForm, Writers
<1>4. CASE SaveAccount(r)
  <2>1. /\ Start(r, "putAccount", chosen) /\ UNCHANGED <<accounts, changing>> /\ ~changing
        /\ chosen \in Account /\ Owner[chosen] = accounts /\ call = None
    BY <1>4, <1>t DEF SaveAccount, Start, PageOK, KeyForm, Listed
  <2>2. wanted["apiKey"] \in KeyFor(Owner[chosen])
    BY <2>1, ValueAssumption, OwnerAssumption DEF PageAlone, Belongs, Under
  <2>3. chosen \in Value \cup {None} /\ chosen # None
    BY <2>1, <1>v
  <2> QED
    BY <2>1, <2>2, <2>3, StartsAlone DEF Writers
\* An answer ends a handler, or the first load.
<1>f. ASSUME Finish(r)
      PROVE  /\ UNCHANGED <<wanted, suspect>> /\ disturbed' \subseteq disturbed /\ pc'[r] = "done"
             /\ \A q \in Request \ {r} : pc'[q] = pc[q] /\ req'[q] = req[q]
  BY <1>f, <1>t DEF Finish, Goto, Types
<1>5. CASE Loaded(r)
  <2>1. Finish(r) /\ r # call /\ UNCHANGED <<call, accounts, changing>>
    BY <1>5, <1>t DEF Loaded, PageOK
  <2>2. \A q \in Request : pc'[q] \notin {"new", "done"} /\ q # call => req'[q].op = "config"
    BY <2>1, <1>f DEF PageAlone, OnlyTheCall
  <2>3. \A q \in Request : pc'[q] \in WriteCall => q \notin disturbed'
    BY <2>1, <1>f DEF PageAlone, OnlyTheCall, WriteCall
  <2>4. call # None => pc'[call] = pc[call] /\ req'[call] = req[call]
    BY <2>1, <1>f, <1>t DEF PageOK
  <2> QED
    BY <2>1, <2>2, <2>3, <2>4, <1>f, Quiet
\* The awaited request has answered, and nothing is awaited.
<1>e. ASSUME Finish(r), r = call, call' = None, pc[r] # "failed", ~Under("remove"),
             Belongs'
      PROVE  PageAlone'
  <2>1. suspect' = {}
    BY <1>e, <1>f DEF PageAlone, OnlyTheCall
  <2>2. \A q \in Request : /\ pc'[q] \notin {"new", "done"} => req'[q].op = "config"
                           /\ pc'[q] \in WriteCall => q \notin disturbed'
    BY <1>e, <1>f DEF PageAlone, OnlyTheCall, WriteCall
  <2>3. OnlyTheCall'
    BY <1>e, <2>1, <2>2 DEF OnlyTheCall
  <2>4. InHand'
    BY <1>e DEF InHand, Under
  <2> QED
    BY <1>e, <2>3, <2>4 DEF PageAlone
<1>6. CASE Ended(r)
  <2>1. /\ Finish(r) /\ r = call /\ call' = None /\ req[r].op = "config" /\ pc[r] = "ok"
        /\ UNCHANGED <<accounts, changing>>
    BY <1>6, <1>t DEF Ended
  <2>2. ~Under("remove")
    BY <2>1 DEF Under
  <2>3. Belongs'
    BY <2>1, <2>2, <1>f DEF PageAlone, Belongs, Under
  <2> QED
    BY <2>1, <2>2, <2>3, <1>e
<1>7. CASE ListAnswer(r)
  <2>1. /\ Finish(r) /\ r = call /\ call' = None /\ req[r].op = "list" /\ pc[r] = "ok"
        /\ accounts' = req[r].got["apiKey"] /\ UNCHANGED changing
    BY <1>7 DEF ListAnswer
  <2>2. ~changing /\ wanted["apiKey"] \in KeyFor(accounts')
    BY <2>1, <1>t DEF PageAlone, InHand, Under
  <2>3. Belongs' /\ ~Under("remove")
    BY <2>1, <2>2, <1>f DEF PageAlone, Belongs, Under
  <2> QED
    BY <2>1, <2>3, <1>e
<1>8. CASE WriteAnswer(r)
  <2>1. /\ r = call /\ pc[r] = "ok" /\ UNCHANGED <<wanted, suspect, call>>
        /\ pc' = [pc EXCEPT ![r] = "read"] /\ disturbed' \ {r} \subseteq disturbed
    BY <1>8 DEF WriteAnswer
  <2>2. req'[r].op = "config" /\ \A q \in Request \ {r} : pc'[q] = pc[q] /\ req'[q] = req[q]
    BY <1>8, <1>t DEF WriteAnswer, Types, Idle
  <2>3. pc'[r] = "read"
    BY <2>1, <1>t DEF Types
  <2>4. OnlyTheCall'
    <3>1. suspect' = {}
      BY <2>1 DEF PageAlone, OnlyTheCall
    <3>2. \A q \in Request : /\ pc'[q] \notin {"new", "done"} /\ q # call => req'[q].op = "config"
                             /\ pc'[q] \in WriteCall => q \notin disturbed'
      BY <2>1, <2>2, <2>3 DEF PageAlone, OnlyTheCall, WriteCall
    <3> QED
      BY <2>1, <2>2, <3>1, <3>2 DEF OnlyTheCall
  <2>5. InHand'
    BY <2>1, <2>2 DEF InHand, Under
  <2>6. Belongs'
    <3>1. req[r].op \in Writers
      BY <1>8, Handlers DEF WriteAnswer
    <3>2. CASE req[r].op = "remove"
      <4>1. accounts' = None
        BY <1>8, <3>2 DEF WriteAnswer
      <4>2. wanted["number"] = None
        BY <2>1, <3>2, <1>t DEF PageAlone, InHand, Under
      <4> QED
        BY <2>1, <4>1, <4>2 DEF Belongs
    <3>3. CASE req[r].op = "putKey"
      BY <1>8, <3>3, <2>1, <2>2, <1>t DEF WriteAnswer, PageAlone, Belongs, InHand, Under
    <3>4. CASE req[r].op = "putAccount"
      BY <1>8, <3>4, <2>1, <2>2, <1>t DEF WriteAnswer, PageAlone, Belongs, InHand, Under
    <3> QED
      BY <3>1, <3>2, <3>3, <3>4, <2>1, <1>t DEF PageAlone, OnlyTheCall, Writers
  <2> QED
    BY <2>4, <2>5, <2>6 DEF PageAlone
<1> QED
  BY <1>m, <1>1, <1>2, <1>3, <1>4, <1>5, <1>6, <1>7, <1>8, <1>t DEF Page

\* While nothing has gone wrong on the page, it is alone.
PInv == causes = {} => PageAlone

\* Nothing is asked at first, and what is set belongs together.
LEMMA BeginsAlone == Init => PInv
<1> SUFFICES ASSUME Init PROVE PageAlone
  BY DEF PInv
<1>1. /\ \A r \in Request : pc[r] = "new"
      /\ suspect = {} /\ call = None /\ accounts = None /\ changing = FALSE
      /\ wanted["apiKey"] = row["apiKey"].value /\ wanted["number"] = row["number"].value
  BY DEF Init, SettingsInit, Setting
<1>2. row["number"].value \in Account \cup {None}
  BY DEF Init, SettingsInit, Setting
<1>3. OnlyTheCall /\ InHand
  BY <1>1 DEF OnlyTheCall, InHand, Under, WriteCall
<1>4. Belongs
  BY <1>1, <1>2 DEF Belongs, Init, KeyFor
<1> QED
  BY <1>3, <1>4 DEF PageAlone

\* Every step keeps it.
LEMMA StepKeepsAlone == IInv /\ PInv /\ [Next]_vars => PInv'
<1> SUFFICES ASSUME IInv, PInv, [Next]_vars, causes' = {} PROVE PageAlone'
  BY DEF PInv
<1>t. SInv /\ Types /\ PageOK
  BY DEF IInv, SInv
\* What asks nothing of the server.
<1>q. ASSUME PageAlone, UNCHANGED <<wanted, suspect, call, pc, req, disturbed>>,
             accounts' \in {accounts, None}, changing' => changing
      PROVE  PageAlone'
  BY <1>q, Quiet DEF PageAlone, OnlyTheCall
<1>1. ASSUME NEW r \in Request, Page(r) PROVE PageAlone'
  BY <1>1, PageStaysAlone DEF PInv, Page
<1>2. ASSUME NEW r \in Request, Client(r) PROVE FALSE
  BY <1>2 DEF Client
<1>3. ASSUME NEW r \in Request, Forget(r) PROVE PageAlone'
  <2>1. /\ Finish(r) /\ r # call /\ UNCHANGED <<call, accounts, changing>> /\ PageAlone
    BY <1>3 DEF Forget, page, PInv
  <2>2. /\ UNCHANGED <<wanted, suspect>> /\ disturbed' \subseteq disturbed /\ pc'[r] = "done"
        /\ \A q \in Request \ {r} : pc'[q] = pc[q] /\ req'[q] = req[q]
    BY <2>1, <1>t DEF Finish, Goto, Types
  <2>3. \A q \in Request : /\ pc'[q] \notin {"new", "done"} /\ q # call => req'[q].op = "config"
                           /\ pc'[q] \in WriteCall => q \notin disturbed'
    BY <2>1, <2>2 DEF PageAlone, OnlyTheCall, WriteCall
  <2>4. call # None => pc'[call] = pc[call] /\ req'[call] = req[call]
    BY <2>1, <2>2, <1>t DEF PageOK
  <2> QED
    BY <2>1, <2>2, <2>3, <2>4, Quiet
<1>4. ASSUME NEW r \in Request, Server(r) PROVE PageAlone'
  <2>1. Proceed(r) /\ UNCHANGED page /\ causes = {} /\ NoFallback(r)
    BY <1>4 DEF Server, NoFallback
  <2> QED
    BY <2>1, ProceedsAlone DEF PInv
<1>5. ASSUME NEW a \in Account, Choose(a) PROVE PageAlone'
  BY <1>5, <1>q DEF Choose, settingVars, PInv
<1>6. CASE CancelAccounts
  BY <1>6, <1>q DEF CancelAccounts, settingVars, PInv
<1>7. CASE CancelChange
  BY <1>7, <1>q DEF CancelChange, settingVars, PInv
<1>8. CASE Restart /\ UNCHANGED <<page, causes>>
  BY <1>8, RestartsAlone DEF PInv
<1>9. CASE UNCHANGED vars
  BY <1>9, <1>q DEF vars, settingVars, page, PInv
<1> QED
  BY <1>1, <1>2, <1>3, <1>4, <1>5, <1>6, <1>7, <1>8, <1>9 DEF Next

\* The stored account is one that SePay lists for the stored key, as long as the page is
\* used alone and knows the key that is set, is not left while it waits, no request
\* fails and no list is made with the environment's key in place of the stored one,
\* whatever key the environment has: changing the key removes the account first (SettingsPage.tsx:84-168, settings.service.ts:90-124).
THEOREM AccountAndKeyBelong == Spec => []AccountBelongsToKey
<1>1. IInv /\ PInv => AccountBelongsToKey
  <2> SUFFICES ASSUME IInv, PageAlone, suspect = {}, \A r \in Request : ~Writing(r),
                      row["apiKey"].value \in ApiKey, row["number"].value # None
               PROVE  Owner[row["number"].value] = row["apiKey"].value
    BY DEF PInv, AccountBelongsToKey
  <2>1. Types /\ Steps /\ LastWritten
    BY DEF IInv, SInv
  <2>2. \A r \in Request : pc[r] \notin WriteCall
    BY <2>1, AtWork
  <2>3. row["apiKey"].value = wanted["apiKey"] /\ row["number"].value = wanted["number"]
    BY <2>1, <2>2 DEF LastWritten, Setting
  <2> QED
    BY <2>3, ValueAssumption, OwnerAssumption DEF PageAlone, Belongs, KeyFor, NoKey
<1>2. IInv /\ [Next]_vars => (PInv => PInv')
  BY StepKeepsAlone
<1>3. Spec => []PInv
  BY BeginsAlone, InvariantHolds, <1>2, PTL DEF Spec
<1> QED
  BY <1>1, <1>3, InvariantHolds, PTL
=============================================================================
