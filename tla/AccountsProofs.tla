---------------------------- MODULE AccountsProofs ---------------------------
(***************************************************************************)
(* Proofs about Accounts, for any number of users, employees, requests,    *)
(* names and emails. What a request holds is kept apart from the tables:   *)
(* a step changes one request, and what it holds must fit its next call.   *)
(***************************************************************************)
EXTENDS Accounts, TLAPS

Label == {"new", "findAll", "findName", "findEmail", "insertUser", "insertEmployee",
          "saveUser", "writeUser", "saveEmployee", "writeEmployee", "insertAgain",
          "delete", "done"}

\* Work w and entity h are what a request at call p holds.
Fits(p, w, h) ==
  /\ p \in Label /\ w \in Work /\ h \in Entity
  /\ p \in {"saveUser", "writeUser"} => w.user \in User /\ w.op \in {"role", "password"}
  /\ p = "writeUser" => (IF w.op = "role" THEN w.diff = {"role"} ELSE "password" \in w.diff)
  /\ p \in {"saveEmployee", "writeEmployee", "insertAgain", "delete"} => w.emp \in Employee
  /\ p \in {"saveEmployee", "writeEmployee", "insertAgain"} => w.op \in {"email", "link"}
  /\ p \in {"findEmail", "insertEmployee", "saveEmployee", "writeEmployee", "insertAgain"}
       => h.email \in Email
  /\ p \in {"findAll", "findName", "insertUser"} => w.name \in Name
  /\ p = "findAll" => w.op = "boot"
  /\ p = "findEmail" => w.op = "hire"
  /\ p \in {"findName", "insertUser"} /\ w.op = "hire" => h.email \in Email
  /\ p \in {"findAll", "findName", "findEmail", "insertUser"} => h.account = None

RequestsOK ==
  /\ pc \in [Request -> Label] /\ req \in [Request -> Work] /\ held \in [Request -> Entity]
  /\ \A r \in Request : Fits(pc[r], req[r], held[r])

UsersOK ==
  /\ name \in [User -> Name \cup {None}] /\ role \in [User -> Role]
  /\ password \in [User -> Request \cup {First}]
  /\ \A u, v \in User : name[u] = name[v] => u = v \/ name[u] = None

\* An employee that is gone has no account.
EmployeesOK ==
  /\ email \in [Employee -> Email \cup {None}]
  /\ account \in [Employee -> User \cup {None}]
  /\ \A e, f \in Employee : email[e] = email[f] => e = f \/ email[e] = None
  /\ \A e \in Employee : email[e] = None => account[e] = None

HistoryOK ==
  /\ askedRole \in [User -> Role] /\ askedPassword \in [User -> Request \cup {First}]
  /\ askedEmail \in [Employee -> Email \cup {None}]
  /\ askedAccount \in [Employee -> User \cup {None}]
  /\ stale \in [Column -> SUBSET (User \cup Employee)]
  /\ hired \in SUBSET User /\ fired \in SUBSET Employee /\ parted \in SUBSET User

\* The inductive invariant.
IInv ==
  /\ RequestsOK /\ UsersOK /\ EmployeesOK /\ HistoryOK
  /\ ColumnsAreKept /\ HiredAccountsAreExplained

-----------------------------------------------------------------------------

LEMMA Blank ==
  /\ Idle \in Work /\ Empty \in Entity
  /\ Idle.op = "none" /\ Idle.user = None /\ Idle.emp = None /\ Idle.name = None
  /\ Idle.diff = {} /\ Empty.email = None /\ Empty.account = None
BY DEF Idle, Empty, Work, Entity, Op, Role

LEMMA InitInv == Init => IInv
<1> SUFFICES ASSUME Init PROVE IInv
  OBVIOUS
<1> USE AccountAssumption, Blank DEF Init
<1>1. RequestsOK
  BY DEF RequestsOK, Fits, Label
<1>2. UsersOK
  BY DEF UsersOK, Role, First
<1>3. EmployeesOK
  BY DEF EmployeesOK
<1>4. HistoryOK
  BY <1>2, <1>3 DEF HistoryOK, UsersOK, EmployeesOK, Column
<1>5. ColumnsAreKept /\ HiredAccountsAreExplained
  BY DEF ColumnsAreKept, HiredAccountsAreExplained
<1> QED
  BY <1>1, <1>2, <1>3, <1>4, <1>5 DEF IInv

\* One request moves on, and what it holds then fits.
LEMMA OneMoves ==
  ASSUME RequestsOK, NEW r \in Request, NEW p, NEW w, NEW h, Fits(p, w, h),
         pc' = [pc EXCEPT ![r] = p], req' = [req EXCEPT ![r] = w],
         held' = [held EXCEPT ![r] = h]
  PROVE  RequestsOK'
<1>1. pc' \in [Request -> Label] /\ req' \in [Request -> Work] /\ held' \in [Request -> Entity]
  BY DEF RequestsOK, Fits
<1>2. ASSUME NEW q \in Request PROVE Fits(pc'[q], req'[q], held'[q])
  <2>1. CASE q = r
    <3>1. pc'[q] = p /\ req'[q] = w /\ held'[q] = h
      BY <2>1 DEF RequestsOK
    <3> QED
      BY <3>1
  <2>2. CASE q # r
    <3>1. pc'[q] = pc[q] /\ req'[q] = req[q] /\ held'[q] = held[q]
      BY <2>2 DEF RequestsOK
    <3> QED
      BY <3>1 DEF RequestsOK
  <2> QED
    BY <2>1, <2>2
<1> QED
  BY <1>1, <1>2 DEF RequestsOK, Fits

LEMMA OneGoes ==
  ASSUME RequestsOK, NEW r \in Request, NEW p, Fits(p, req[r], held[r]), Goto(r, p),
         UNCHANGED <<req, held>>
  PROVE  RequestsOK'
<1>1. req' = [req EXCEPT ![r] = req[r]] /\ held' = [held EXCEPT ![r] = held[r]]
  BY DEF RequestsOK
<1>2. pc' = [pc EXCEPT ![r] = p]
  BY DEF Goto
<1>3. \A w, h : /\ Fits(p, w, h) /\ req' = [req EXCEPT ![r] = w]
                 /\ held' = [held EXCEPT ![r] = h] => RequestsOK'
  BY <1>2, OneMoves
<1> QED
  BY <1>1, <1>3

LEMMA OneFinishes ==
  ASSUME RequestsOK, NEW r \in Request, Finish(r)
  PROVE  RequestsOK'
<1>1. Fits("done", Idle, Empty)
  BY Blank DEF Fits, Label
<1> QED
  BY <1>1, OneMoves DEF Finish, Goto

\* Nothing but requests changes, none of them about to insert an employee.
LEMMA OnlyRequests ==
  ASSUME IInv, RequestsOK', NEW r \in Request, NEW p, Goto(r, p), pc[r] # "insertEmployee",
         \A q \in Request : q # r => held'[q] = held[q],
         UNCHANGED <<users, employees, history>>
  PROVE  IInv'
<1> USE DEF users, employees, history, asked
<1>1. UsersOK' /\ EmployeesOK' /\ HistoryOK'
  BY DEF IInv, UsersOK, EmployeesOK, HistoryOK
<1>2. ColumnsAreKept'
  BY DEF IInv, ColumnsAreKept
<1>3. \A q \in Request : pc[q] = "insertEmployee" => pc'[q] = pc[q] /\ held'[q] = held[q]
  BY DEF IInv, RequestsOK, Goto
<1>4. HiredAccountsAreExplained'
  BY <1>3 DEF IInv, HiredAccountsAreExplained
<1> QED
  BY <1>1, <1>2, <1>4 DEF IInv

LEMMA OneStarts ==
  ASSUME IInv, NEW r \in Request, NEW w, NEW h, NEW p, Fits(p, w, h), Start(r, w, h, p)
  PROVE  IInv'
<1>1. RequestsOK'
  BY OneMoves DEF IInv, Start, Goto
<1>2. \A q \in Request : q # r => held'[q] = held[q]
  BY DEF IInv, RequestsOK, Start
<1> QED
  BY <1>1, <1>2, OnlyRequests DEF Start

LEMMA ArrivalStep ==
  ASSUME IInv, NEW r \in Request, Arrivals(r)
  PROVE  IInv'
<1> USE AccountAssumption, Blank
    DEF Fits, Label, Work, Entity, Op, Role, Naming, OfUser, OfMember
<1>1. ASSUME NEW n \in Name, Boot(r, n)
      PROVE  IInv'
  <2>1. Fits("findAll", Naming("boot", n),
            [Empty EXCEPT !.role = "MANAGER"])
    OBVIOUS
  <2> HIDE DEF Fits, Naming, OfUser, OfMember
  <2> QED
    BY <1>1, <2>1, OneStarts DEF Boot
<1>2. ASSUME NEW n \in Name, NEW x \in Role, Register(r, n, x)
      PROVE  IInv'
  <2>1. Fits("findName", Naming("register", n),
            [Empty EXCEPT !.role = x])
    OBVIOUS
  <2> HIDE DEF Fits, Naming, OfUser, OfMember
  <2> QED
    BY <1>2, <2>1, OneStarts DEF Register
<1>3. ASSUME NEW n \in Name \cup {None}, NEW m \in Email, NEW x \in Role, Hire(r, n, m, x)
      PROVE  IInv'
  <2>1. Fits(IF n = None THEN "findEmail" ELSE "findName", Naming("hire", n),
            [role |-> x, email |-> m, account |-> None])
    OBVIOUS
  <2> HIDE DEF Fits, Naming, OfUser, OfMember
  <2> QED
    BY <1>3, <2>1, OneStarts DEF Hire
<1>4. ASSUME NEW u \in User, SetPassword(r, u)
      PROVE  IInv'
  <2>1. Fits("saveUser", OfUser("password", u),
            [Empty EXCEPT !.role = role[u]])
    BY DEF IInv, UsersOK
  <2> HIDE DEF Fits, Naming, OfUser, OfMember
  <2> QED
    BY <1>4, <2>1, OneStarts DEF SetPassword
<1>5. ASSUME NEW u \in User, NEW x \in Role, SetRole(r, u, x)
      PROVE  IInv'
  <2>1. Fits("saveUser", OfUser("role", u),
            [Empty EXCEPT !.role = x])
    OBVIOUS
  <2> HIDE DEF Fits, Naming, OfUser, OfMember
  <2> QED
    BY <1>5, <2>1, OneStarts DEF SetRole
<1>6. ASSUME NEW e \in Employee, NEW m \in Email, SetEmail(r, e, m)
      PROVE  IInv'
  <2>1. Fits("saveEmployee", OfMember("email", e),
            [role |-> "STAFF", email |-> m, account |-> account[e]])
    BY DEF IInv, EmployeesOK
  <2> HIDE DEF Fits, Naming, OfUser, OfMember
  <2> QED
    BY <1>6, <2>1, OneStarts DEF SetEmail
<1>7. ASSUME NEW e \in Employee, NEW u \in User \cup {None}, Link(r, e, u)
      PROVE  IInv'
  <2>1. Fits("saveEmployee", OfMember("link", e),
            [role |-> "STAFF", email |-> email[e], account |-> u])
    BY <1>7 DEF IInv, EmployeesOK, Link
  <2> HIDE DEF Fits, Naming, OfUser, OfMember
  <2> QED
    BY <1>7, <2>1, OneStarts DEF Link
<1>8. ASSUME NEW e \in Employee, Fire(r, e)
      PROVE  IInv'
  <2>1. Fits("delete", OfMember("fire", e),
            Empty)
    OBVIOUS
  <2> HIDE DEF Fits, Naming, OfUser, OfMember
  <2> QED
    BY <1>8, <2>1, OneStarts DEF Fire
<1> QED
  BY <1>1, <1>2, <1>3, <1>4, <1>5, <1>6, <1>7, <1>8 DEF Arrivals

-----------------------------------------------------------------------------

LEMMA LookupStep ==
  ASSUME IInv, NEW r \in Request,
         FindAll(r) \/ FindName(r) \/ FindEmail(r) \/ ReloadUser(r) \/ ReloadEmployee(r)
  PROVE  IInv'
<1> USE DEF IInv
<1>0. Fits(pc[r], req[r], held[r])
  BY DEF RequestsOK
<1>1. ASSUME NEW p, Fits(p, req[r], held[r]), Goto(r, p), UNCHANGED <<req, held>>,
            pc[r] # "insertEmployee", UNCHANGED <<users, employees, history>>
      PROVE  IInv'
  <2>1. RequestsOK'
    BY <1>1, OneGoes
  <2> QED
    BY <1>1, <2>1, OnlyRequests
<1>2. ASSUME Finish(r), pc[r] # "insertEmployee", UNCHANGED <<users, employees, history>>
      PROVE  IInv'
  <2>1. RequestsOK'
    BY <1>2, OneFinishes
  <2>2. Goto(r, "done") /\ \A q \in Request : q # r => held'[q] = held[q]
    BY <1>2 DEF Finish, RequestsOK
  <2> QED
    BY <1>2, <2>1, <2>2, OnlyRequests
<1>3. ASSUME NEW p, NEW d \in SUBSET Column, Fits(p, [req[r] EXCEPT !.diff = d], held[r]),
            req' = [req EXCEPT ![r].diff = d], Goto(r, p), UNCHANGED held,
            pc[r] # "insertEmployee", UNCHANGED <<users, employees, history>>
      PROVE  IInv'
  <2>1. held' = [held EXCEPT ![r] = held[r]]
    BY <1>3 DEF RequestsOK
  <2>2. RequestsOK'
    BY <1>3, <2>1, OneMoves DEF Goto
  <2> QED
    BY <1>3, <2>2, OnlyRequests
<1> HIDE DEF IInv
<1>4. CASE FindAll(r)
  <2>1. pc[r] = "findAll" => Fits("findName", req[r], held[r])
    BY <1>0 DEF Fits, Label
  <2> QED
    BY <1>1, <1>2, <1>4, <2>1 DEF FindAll
<1>5. CASE FindName(r)
  <2> DEFINE to == IF req[r].op = "hire" THEN "findEmail" ELSE "insertUser"
  <2>1. pc[r] = "findName" => Fits(to, req[r], held[r])
    BY <1>0 DEF Fits, Label
  <2> HIDE DEF to
  <2>2. pc[r] = "findName" /\ (Finish(r) \/ (Goto(r, to) /\ UNCHANGED <<req, held>>))
        /\ UNCHANGED <<users, employees, history>>
    BY <1>5 DEF FindName, to
  <2> QED
    BY <1>1, <1>2, <2>1, <2>2
<1>6. CASE FindEmail(r)
  <2> DEFINE to == IF req[r].name = None THEN "insertEmployee" ELSE "insertUser"
  <2>1. pc[r] = "findEmail" => Fits(to, req[r], held[r])
    BY <1>0, AccountAssumption DEF Fits, Label, Work
  <2> HIDE DEF to
  <2>2. pc[r] = "findEmail" /\ (Finish(r) \/ (Goto(r, to) /\ UNCHANGED <<req, held>>))
        /\ UNCHANGED <<users, employees, history>>
    BY <1>6 DEF FindEmail, to
  <2> QED
    BY <1>1, <1>2, <2>1, <2>2
<1>7. CASE ReloadUser(r)
  <2> DEFINE d == {c \in {"role", "password"} :
                     \/ c = "role" /\ held[r].role # role[req[r].user]
                     \/ c = "password" /\ req[r].op = "password"}
  <2>1. d \in SUBSET Column
    BY DEF Column
  <2>2. /\ "password" \in d <=> req[r].op = "password"
        /\ d \subseteq {"role", "password"}
    OBVIOUS
  <2>3. /\ pc[r] = "saveUser" /\ UNCHANGED <<users, employees, history>>
        /\ IF d = {} THEN Finish(r)
           ELSE req' = [req EXCEPT ![r].diff = d] /\ Goto(r, "writeUser") /\ UNCHANGED held
    BY <1>7 DEF ReloadUser
  <2> HIDE DEF d
  <2>4. pc[r] = "saveUser" /\ d # {} => Fits("writeUser", [req[r] EXCEPT !.diff = d], held[r])
    BY <1>0, <2>1, <2>2 DEF Fits, Label, Work
  <2> QED
    BY <1>2, <1>3, <2>1, <2>3, <2>4
<1>8. CASE ReloadEmployee(r)
  <2> DEFINE d == {c \in {"email", "account"} :
                     \/ c = "email" /\ held[r].email # email[req[r].emp]
                     \/ c = "account" /\ held[r].account # account[req[r].emp]}
  <2>1. d \in SUBSET Column
    BY DEF Column
  <2>2. /\ pc[r] = "saveEmployee" /\ UNCHANGED <<users, employees, history>>
        /\ \/ Goto(r, "insertAgain") /\ UNCHANGED <<req, held>>
           \/ Finish(r)
           \/ req' = [req EXCEPT ![r].diff = d] /\ Goto(r, "writeEmployee") /\ UNCHANGED held
    BY <1>8 DEF ReloadEmployee
  <2> HIDE DEF d
  <2>3. pc[r] = "saveEmployee" => /\ Fits("writeEmployee", [req[r] EXCEPT !.diff = d], held[r])
                                  /\ Fits("insertAgain", req[r], held[r])
    BY <1>0, <2>1 DEF Fits, Label, Work
  <2> QED
    BY <1>1, <1>2, <1>3, <2>1, <2>2, <2>3
<1> QED
  BY <1>4, <1>5, <1>6, <1>7, <1>8

-----------------------------------------------------------------------------

\* A request ends, and what it does to the tables is kept apart.
LEMMA TablesStep ==
  ASSUME IInv, NEW r \in Request,
         \/ \E u \in User : InsertUser(r, u)
         \/ \E e \in Employee : InsertEmployee(r, e)
         \/ WriteUser(r) \/ WriteEmployee(r) \/ InsertAgain(r) \/ DeleteEmployee(r) \/ Stop(r)
  PROVE  IInv'
<1>0. /\ Fits(pc[r], req[r], held[r])
      /\ pc \in [Request -> Label] /\ req \in [Request -> Work] /\ held \in [Request -> Entity]
  BY DEF IInv, RequestsOK
<1> USE AccountAssumption DEF users, employees, history, asked, TakenName, TakenEmail, Role,
        First, Column
<1>f. ASSUME Finish(r)
      PROVE  /\ RequestsOK'
             /\ \A q \in Request \ {r} : pc'[q] = pc[q] /\ held'[q] = held[q]
  BY <1>f, <1>0, OneFinishes DEF IInv, Finish, Goto
<1>1. ASSUME NEW u \in User, InsertUser(r, u)
      PROVE  IInv'
  <2>1. RequestsOK'
    <3>1. CASE req[r].op = "hire" /\ ~TakenName(req[r].name)
      <4>1. Fits("insertEmployee", req[r], [held[r] EXCEPT !.account = u])
        BY <1>0, <1>1, <3>1 DEF InsertUser, Fits, Label, Entity, Work
      <4>2. req' = [req EXCEPT ![r] = req[r]]
        BY <1>1, <3>1, <1>0 DEF InsertUser
      <4>3. /\ pc' = [pc EXCEPT ![r] = "insertEmployee"]
            /\ held' = [held EXCEPT ![r] = [held[r] EXCEPT !.account = u]]
        BY <1>1, <3>1 DEF InsertUser, Goto
      <4> QED
        BY <4>1, <4>2, <4>3, OneMoves DEF IInv
    <3>2. CASE ~(req[r].op = "hire" /\ ~TakenName(req[r].name))
      BY <1>1, <3>2, OneFinishes DEF InsertUser, IInv
    <3> QED
      BY <3>1, <3>2
  <2>2. \A q \in Request \ {r} : pc'[q] = pc[q] /\ held'[q] = held[q]
    BY <1>0, <1>1 DEF InsertUser, Finish, Goto
  <2>3. pc[r] = "insertUser" /\ name[u] = None /\ req[r].name \in Name /\ held[r].role \in Role
        /\ held[r] \in Entity
    BY <1>0, <1>1 DEF InsertUser, Fits, Work, Entity
  <2>4. UsersOK'
    BY <1>1, <2>2, <2>3 DEF IInv, UsersOK, InsertUser
  <2>5. EmployeesOK'
    BY <1>1, <2>2, <2>3 DEF IInv, EmployeesOK, InsertUser
  <2>6. HistoryOK'
    BY <1>1, <2>2, <2>3 DEF IInv, HistoryOK, InsertUser, EmployeesOK
  <2>7. ColumnsAreKept'
    BY <1>1, <2>2, <2>3 DEF IInv, ColumnsAreKept, InsertUser, HistoryOK, UsersOK, EmployeesOK
  <2>8. HiredAccountsAreExplained'
    <3>1. /\ account' = account /\ parted' = parted
          /\ \A q \in Request : pc[q] = "insertEmployee" =>
               pc'[q] = pc[q] /\ held'[q] = held[q]
      BY <1>1, <2>2, <2>3 DEF InsertUser
    <3>2. hired' = hired \/ (hired' = hired \cup {u} /\ pc'[r] = "insertEmployee"
                               /\ held'[r].account = u)
      BY <1>0, <1>1, <2>3 DEF InsertUser, Finish, Goto, Entity
    <3> QED
      BY <3>1, <3>2 DEF IInv, HiredAccountsAreExplained
  <2> QED
    BY <2>1, <2>4, <2>5, <2>6, <2>7, <2>8 DEF IInv
<1>2. ASSUME NEW e \in Employee, InsertEmployee(r, e)
      PROVE  IInv'
  <2>1. RequestsOK'
    BY <1>2, <1>f DEF InsertEmployee
  <2>2. \A q \in Request \ {r} : pc'[q] = pc[q] /\ held'[q] = held[q]
    BY <1>2, <1>f DEF InsertEmployee
  <2>3. held[r].email \in Email /\ held[r].account \in User \cup {None}
    BY <1>2, <1>0 DEF InsertEmployee, Fits, Work, Entity
  <2>4. UsersOK'
    BY <1>2, <2>2, <2>3 DEF IInv, UsersOK, InsertEmployee
  <2>5. EmployeesOK'
    BY <1>2, <2>2, <2>3 DEF IInv, EmployeesOK, InsertEmployee
  <2>6. HistoryOK'
    BY <1>2, <2>2, <2>3 DEF IInv, HistoryOK, InsertEmployee, EmployeesOK
  <2>7. ColumnsAreKept'
    BY <1>2, <2>2, <2>3
    DEF IInv, ColumnsAreKept, InsertEmployee, HistoryOK, UsersOK, EmployeesOK
  <2>8. HiredAccountsAreExplained'
    BY <1>2, <2>2, <2>3
    DEF IInv, HiredAccountsAreExplained, InsertEmployee, EmployeesOK, HistoryOK, UsersOK
  <2> QED
    BY <2>1, <2>4, <2>5, <2>6, <2>7, <2>8 DEF IInv
<1>3. ASSUME WriteUser(r)
      PROVE  IInv'
  <2>1. RequestsOK'
    BY <1>3, <1>f DEF WriteUser
  <2>2. \A q \in Request \ {r} : pc'[q] = pc[q] /\ held'[q] = held[q]
    BY <1>3, <1>f DEF WriteUser
  <2>3. req[r].user \in User /\ held[r].role \in Role
        /\ req[r].op \in {"role", "password"}
        /\ (IF req[r].op = "role" THEN req[r].diff = {"role"} ELSE "password" \in req[r].diff)
    BY <1>3, <1>0 DEF WriteUser, Fits, Work, Entity
  <2>4. UsersOK'
    BY <1>3, <2>2, <2>3 DEF IInv, UsersOK, WriteUser
  <2>5. EmployeesOK'
    BY <1>3, <2>2, <2>3 DEF IInv, EmployeesOK, WriteUser
  <2>6. HistoryOK'
    BY <1>3, <2>2, <2>3 DEF IInv, HistoryOK, WriteUser, EmployeesOK
  <2>7. ColumnsAreKept'
    <3>1. UNCHANGED <<email, account, askedEmail, askedAccount>>
      BY <1>3 DEF WriteUser
    <3>4. stale'["email"] = stale["email"] /\ stale'["account"] = stale["account"]
      <4>1. stale \in [Column -> SUBSET (User \cup Employee)]
        BY DEF IInv, HistoryOK
      <4>2. stale' = stale \/ stale' = [stale EXCEPT !["role"] = stale["role"] \cup {req[r].user}]
        BY <1>3 DEF WriteUser
      <4> QED
        BY <4>1, <4>2
    <3>2. password' = askedPassword'
      <4>1. password = askedPassword /\ password \in [User -> Request \cup {First}]
        BY DEF IInv, UsersOK, ColumnsAreKept
      <4>2. "password" \in req[r].diff <=> req[r].op = "password"
        BY <2>3
      <4> QED
        BY <1>3, <4>1, <4>2 DEF WriteUser
    <3>3. \A u \in User : u \in stale'["role"] \/ role'[u] = askedRole'[u]
      BY <1>3, <2>3 DEF IInv, UsersOK, HistoryOK, ColumnsAreKept, WriteUser
    <3> QED
      BY <3>1, <3>2, <3>3, <3>4 DEF IInv, ColumnsAreKept
  <2>8. HiredAccountsAreExplained'
    BY <1>3, <2>2, <2>3
    DEF IInv, HiredAccountsAreExplained, WriteUser, EmployeesOK, HistoryOK, UsersOK
  <2> QED
    BY <2>1, <2>4, <2>5, <2>6, <2>7, <2>8 DEF IInv
<1>4. ASSUME WriteEmployee(r)
      PROVE  IInv'
  <2>1. RequestsOK'
    BY <1>4, <1>f DEF WriteEmployee
  <2>2. \A q \in Request \ {r} : pc'[q] = pc[q] /\ held'[q] = held[q]
    BY <1>4, <1>f DEF WriteEmployee
  <2>3. req[r].emp \in Employee /\ held[r].email \in Email
        /\ held[r].account \in User \cup {None} /\ req[r].diff \in SUBSET Column
        /\ req[r].op \in {"email", "link"}
    BY <1>4, <1>0 DEF WriteEmployee, Fits, Work, Entity
  <2>4. UsersOK'
    BY <1>4, <2>2, <2>3 DEF IInv, UsersOK, WriteEmployee
  <2>5. EmployeesOK'
    BY <1>4, <2>2, <2>3 DEF IInv, EmployeesOK, WriteEmployee
  <2>6. HistoryOK'
    BY <1>4, <2>2, <2>3 DEF IInv, HistoryOK, WriteEmployee, EmployeesOK
  <2>7. ColumnsAreKept'
    BY <1>4, <2>2, <2>3
    DEF IInv, ColumnsAreKept, WriteEmployee, HistoryOK, UsersOK, EmployeesOK
  <2>8. HiredAccountsAreExplained'
    BY <1>4, <2>2, <2>3
    DEF IInv, HiredAccountsAreExplained, WriteEmployee, EmployeesOK, HistoryOK, UsersOK
  <2> QED
    BY <2>1, <2>4, <2>5, <2>6, <2>7, <2>8 DEF IInv
<1>5. ASSUME InsertAgain(r)
      PROVE  IInv'
  <2>1. RequestsOK'
    BY <1>5, <1>f DEF InsertAgain
  <2>2. \A q \in Request \ {r} : pc'[q] = pc[q] /\ held'[q] = held[q]
    BY <1>5, <1>f DEF InsertAgain
  <2>3. req[r].emp \in Employee /\ held[r].email \in Email
        /\ held[r].account \in User \cup {None}
    BY <1>5, <1>0 DEF InsertAgain, Fits, Work, Entity
  <2>4. UsersOK'
    BY <1>5, <2>2, <2>3 DEF IInv, UsersOK, InsertAgain
  <2>5. EmployeesOK'
    BY <1>5, <2>2, <2>3 DEF IInv, EmployeesOK, InsertAgain
  <2>6. HistoryOK'
    BY <1>5, <2>2, <2>3 DEF IInv, HistoryOK, InsertAgain, EmployeesOK
  <2>7. ColumnsAreKept'
    BY <1>5, <2>2, <2>3 DEF IInv, ColumnsAreKept, InsertAgain, HistoryOK, UsersOK, EmployeesOK
  <2>8. HiredAccountsAreExplained'
    BY <1>5, <2>2, <2>3
    DEF IInv, HiredAccountsAreExplained, InsertAgain, EmployeesOK, HistoryOK, UsersOK
  <2> QED
    BY <2>1, <2>4, <2>5, <2>6, <2>7, <2>8 DEF IInv
<1>6. ASSUME DeleteEmployee(r)
      PROVE  IInv'
  <2>1. RequestsOK'
    BY <1>6, <1>f DEF DeleteEmployee
  <2>2. \A q \in Request \ {r} : pc'[q] = pc[q] /\ held'[q] = held[q]
    BY <1>6, <1>f DEF DeleteEmployee
  <2>3. req[r].emp \in Employee
    BY <1>6, <1>0 DEF DeleteEmployee, Fits, Work, Entity
  <2>4. UsersOK'
    BY <1>6, <2>2, <2>3 DEF IInv, UsersOK, DeleteEmployee
  <2>5. EmployeesOK'
    BY <1>6, <2>2, <2>3 DEF IInv, EmployeesOK, DeleteEmployee
  <2>6. HistoryOK'
    BY <1>6, <2>2, <2>3 DEF IInv, HistoryOK, DeleteEmployee, EmployeesOK
  <2>7. ColumnsAreKept'
    BY <1>6, <2>2, <2>3
    DEF IInv, ColumnsAreKept, DeleteEmployee, HistoryOK, UsersOK, EmployeesOK
  <2>8. HiredAccountsAreExplained'
    BY <1>6, <2>2, <2>3
    DEF IInv, HiredAccountsAreExplained, DeleteEmployee, EmployeesOK, HistoryOK, UsersOK
  <2> QED
    BY <2>1, <2>4, <2>5, <2>6, <2>7, <2>8 DEF IInv
<1>7. ASSUME Stop(r)
      PROVE  IInv'
  <2>1. RequestsOK'
    BY <1>7, <1>f DEF Stop
  <2>2. \A q \in Request \ {r} : pc'[q] = pc[q] /\ held'[q] = held[q]
    BY <1>7, <1>f DEF Stop
  <2>3. held[r].account \in User \cup {None}
    BY <1>7, <1>0 DEF Stop, Fits, Work, Entity
  <2>4. UsersOK'
    BY <1>7, <2>2, <2>3 DEF IInv, UsersOK, Stop
  <2>5. EmployeesOK'
    BY <1>7, <2>2, <2>3 DEF IInv, EmployeesOK, Stop
  <2>6. HistoryOK'
    BY <1>7, <2>2, <2>3 DEF IInv, HistoryOK, Stop, EmployeesOK
  <2>7. ColumnsAreKept'
    BY <1>7, <2>2, <2>3 DEF IInv, ColumnsAreKept, Stop, HistoryOK, UsersOK, EmployeesOK
  <2>8. HiredAccountsAreExplained'
    BY <1>7, <2>2, <2>3
    DEF IInv, HiredAccountsAreExplained, Stop, EmployeesOK, HistoryOK, UsersOK
  <2> QED
    BY <2>1, <2>4, <2>5, <2>6, <2>7, <2>8 DEF IInv
<1> QED
  BY <1>1, <1>2, <1>3, <1>4, <1>5, <1>6, <1>7

LEMMA Invariance == Spec => []IInv
<1>1. IInv /\ [Next]_vars => IInv'
  <2> SUFFICES ASSUME IInv, [Next]_vars PROVE IInv'
    OBVIOUS
  <2>1. CASE UNCHANGED vars
    <3> USE <2>1 DEF vars, users, employees, history, asked
    <3>1. RequestsOK'
      BY DEF IInv, RequestsOK
    <3>2. UsersOK' /\ EmployeesOK' /\ HistoryOK'
      BY DEF IInv, UsersOK, EmployeesOK, HistoryOK
    <3>3. ColumnsAreKept' /\ HiredAccountsAreExplained'
      BY DEF IInv, ColumnsAreKept, HiredAccountsAreExplained
    <3> QED
      BY <3>1, <3>2, <3>3 DEF IInv
  <2>2. ASSUME NEW r \in Request, Proceed(r) PROVE IInv'
    BY <2>2, LookupStep, TablesStep DEF Proceed
  <2> QED
    BY <2>1, <2>2, ArrivalStep DEF Next
<1> QED
  BY <1>1, InitInv, PTL DEF Spec

-----------------------------------------------------------------------------

\* Every variable keeps its type; and whatever requests overlap, no two users
\* have one name and no two employees one email.
THEOREM TypesHold == Spec => []TypeOK
<1>1. IInv => TypeOK
  BY DEF IInv, RequestsOK, UsersOK, EmployeesOK, HistoryOK, Label, TypeOK
<1> QED
  BY <1>1, Invariance, PTL

\* A column is as it was asked for last, or some save wrote it that nobody had
\* asked to; a password always is.
THEOREM ColumnsKept == Spec => []ColumnsAreKept
<1>1. IInv => ColumnsAreKept
  BY DEF IInv
<1> QED
  BY <1>1, Invariance, PTL

\* An account that was made for an employee is an employee's, or about to be,
\* or was parted from it.
THEOREM HiredAccountsExplained == Spec => []HiredAccountsAreExplained
<1>1. IInv => HiredAccountsAreExplained
  BY DEF IInv
<1> QED
  BY <1>1, Invariance, PTL

=============================================================================
