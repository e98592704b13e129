------------------------------ MODULE Accounts -------------------------------
(***************************************************************************)
(* Users and employees: UsersService, EmployeeService, AuthService.register*)
(* and changePassword, and the bootstrap of the administrator (main.ts,    *)
(* src/backend/src). Nothing deletes a user. Of a user's columns that      *)
(* managers edit the role stands for all; of an employee's, the email      *)
(* does. A password is known by the request that set it. Logging in and    *)
(* refreshing tokens read users and change nothing.                        *)
(***************************************************************************)
EXTENDS Naturals

CONSTANTS Request, User, Employee, Name, Email, None

ASSUME AccountAssumption == None \notin User \cup Employee \cup Name \cup Email \cup Request

Role   == {"MANAGER", "STAFF"}
First  == "FIRST"       \* who set the passwords that were there at first

VARIABLES
  name, role, password,  \* users, by id; name None: no row
  email, account,        \* employees, by id; email None: no row
  pc,                    \* the call a request awaits
  req,                   \* its operation and arguments, the ids it is about, and
                         \* what its save found different
  held,                  \* the role, email and account of the entity it holds
  askedRole, askedPassword, askedEmail, askedAccount,
                         \* history: the columns as they were last asked for
  stale,                 \* history: whose column a save wrote that was not asked to
  hired,                 \* history: accounts EmployeeService made
  fired,                 \* history: employees that were removed; ids are not used again
  parted                 \* history: accounts that lost their employee, or whose
                         \* employee could not be inserted

users     == <<name, role, password>>
employees == <<email, account>>
asked     == <<askedRole, askedPassword, askedEmail, askedAccount>>
history   == <<asked, stale, hired, fired, parted>>
vars      == <<users, employees, pc, req, held, history>>

Op     == {"none", "register", "boot", "hire", "role", "password", "email", "link", "fire"}
Column == {"role", "password", "email", "account"}

Work   == [name : Name \cup {None}, op : Op, user : User \cup {None},
           emp : Employee \cup {None}, diff : SUBSET Column]
Idle   == [name |-> None, op |-> "none", user |-> None, emp |-> None, diff |-> {}]
Entity == [role : Role, email : Email \cup {None}, account : User \cup {None}]
Empty  == [role |-> "STAFF", email |-> None, account |-> None]

\* What is asked about a new name, about user u, about employee e.
Naming(o, n)   == [name |-> n, op |-> o, user |-> None, emp |-> None, diff |-> {}]
OfUser(o, u)   == [name |-> None, op |-> o, user |-> u, emp |-> None, diff |-> {}]
OfMember(o, e) == [name |-> None, op |-> o, user |-> None, emp |-> e, diff |-> {}]

\* The types, and the unique keys: a name is one user's, an email one employee's.
TypeOK ==
  /\ name \in [User -> Name \cup {None}] /\ role \in [User -> Role]
  /\ password \in [User -> Request \cup {First}]
  /\ email \in [Employee -> Email \cup {None}]
  /\ account \in [Employee -> User \cup {None}]
  /\ \A u, v \in User : name[u] = name[v] => u = v \/ name[u] = None
  /\ \A e, f \in Employee : email[e] = email[f] => e = f \/ email[e] = None
  /\ pc \in [Request -> {"new", "findAll", "findName", "findEmail", "insertUser",
                         "insertEmployee", "saveUser", "writeUser",
                         "saveEmployee", "writeEmployee", "insertAgain", "delete",
                         "done"}]
  /\ req \in [Request -> Work] /\ held \in [Request -> Entity]
  /\ askedRole \in [User -> Role] /\ askedPassword \in [User -> Request \cup {First}]
  /\ askedEmail \in [Employee -> Email \cup {None}]
  /\ askedAccount \in [Employee -> User \cup {None}]
  /\ stale \in [Column -> SUBSET (User \cup Employee)]
  /\ hired \in SUBSET User /\ fired \in SUBSET Employee /\ parted \in SUBSET User

Init ==
  /\ \E u \in User \cup {None}, e \in Employee, n \in Name, m \in Email, linked \in BOOLEAN :
       /\ name = [x \in User |-> IF x = u THEN n ELSE None]
       /\ email = [x \in Employee |-> IF x = e THEN m ELSE None]
       /\ account = [x \in Employee |-> IF x = e /\ linked THEN u ELSE None]
  /\ role \in {[u \in User |-> r] : r \in Role}
  /\ password = [u \in User |-> First]
  /\ pc = [r \in Request |-> "new"] /\ req = [r \in Request |-> Idle]
  /\ held = [r \in Request |-> Empty]
  /\ askedRole = role /\ askedPassword = password
  /\ askedEmail = email /\ askedAccount = account
  /\ stale = [c \in Column |-> {}] /\ hired = {} /\ fired = {} /\ parted = {}

-----------------------------------------------------------------------------

Goto(r, to) == pc' = [pc EXCEPT ![r] = to]

Finish(r) ==
  /\ Goto(r, "done")
  /\ req' = [req EXCEPT ![r] = Idle] /\ held' = [held EXCEPT ![r] = Empty]

\* A handler starts with what the request says.
Start(r, work, entity, to) ==
  /\ pc[r] = "new"
  /\ req' = [req EXCEPT ![r] = work] /\ held' = [held EXCEPT ![r] = entity]
  /\ Goto(r, to)
  /\ UNCHANGED <<users, employees, history>>

TakenName(n)  == \E u \in User : name[u] = n
TakenEmail(m) == \E e \in Employee : email[e] = m

-----------------------------------------------------------------------------
(***************************************************************************)
(* Making users and employees: check, then insert                          *)
(***************************************************************************)

\* POST /auth/register makes staff, POST /users what it is told to.
Register(r, n, x) ==
  Start(r, Naming("register", n), [Empty EXCEPT !.role = x], "findName")

\* The administrator of the environment, n, when there is no manager.
Boot(r, n) ==
  Start(r, Naming("boot", n), [Empty EXCEPT !.role = "MANAGER"],
        "findAll")

\* POST /employees, with an account (n) or without.
Hire(r, n, m, x) ==
  Start(r, Naming("hire", n),
        [role |-> x, email |-> m, account |-> None],
        IF n = None THEN "findEmail" ELSE "findName")

FindAll(r) ==
  /\ pc[r] = "findAll"
  /\ IF \E u \in User : name[u] # None /\ role[u] = "MANAGER"
       THEN Finish(r) ELSE Goto(r, "findName") /\ UNCHANGED <<req, held>>
  /\ UNCHANGED <<users, employees, history>>

FindName(r) ==
  /\ pc[r] = "findName"
  /\ IF TakenName(req[r].name) THEN Finish(r)
     ELSE /\ Goto(r, IF req[r].op = "hire" THEN "findEmail" ELSE "insertUser")
          /\ UNCHANGED <<req, held>>
  /\ UNCHANGED <<users, employees, history>>

FindEmail(r) ==
  /\ pc[r] = "findEmail"
  /\ IF TakenEmail(held[r].email) THEN Finish(r)
     ELSE /\ Goto(r, IF req[r].name = None THEN "insertEmployee" ELSE "insertUser")
          /\ UNCHANGED <<req, held>>
  /\ UNCHANGED <<users, employees, history>>

\* Variant: the check of findName is all there is.
InsertUserUnchecked(r, u) ==
  /\ pc[r] = "insertUser" /\ name[u] = None
  /\ name' = [name EXCEPT ![u] = req[r].name]
  /\ Finish(r)
  /\ UNCHANGED <<role, password, employees, history>>

InsertUser(r, u) ==
  /\ pc[r] = "insertUser" /\ name[u] = None
  /\ IF TakenName(req[r].name) THEN Finish(r) /\ UNCHANGED <<users, askedRole, askedPassword, hired>>
     ELSE /\ name' = [name EXCEPT ![u] = req[r].name]
          /\ role' = [role EXCEPT ![u] = held[r].role]
          /\ password' = [password EXCEPT ![u] = r]
          /\ askedRole' = [askedRole EXCEPT ![u] = held[r].role]
          /\ askedPassword' = [askedPassword EXCEPT ![u] = r]
          /\ IF req[r].op = "hire"
               THEN /\ held' = [held EXCEPT ![r].account = u]
                    /\ hired' = hired \cup {u}
                    /\ Goto(r, "insertEmployee") /\ UNCHANGED req
               ELSE Finish(r) /\ UNCHANGED hired
  /\ UNCHANGED <<employees, askedEmail, askedAccount, stale, fired, parted>>

\* Variant: the account is made and not put into the employee.
InsertEmployeeOnly(r, e) ==
  /\ pc[r] = "insertEmployee" /\ email[e] = None /\ e \notin fired
  /\ ~TakenEmail(held[r].email)
  /\ email' = [email EXCEPT ![e] = held[r].email]
  /\ askedEmail' = [askedEmail EXCEPT ![e] = held[r].email]
  /\ Finish(r)
  /\ UNCHANGED <<users, account, askedRole, askedPassword, askedAccount, stale, hired, fired,
                 parted>>

InsertEmployee(r, e) ==
  /\ pc[r] = "insertEmployee" /\ email[e] = None /\ e \notin fired
  /\ IF TakenEmail(held[r].email)
       THEN /\ parted' = parted \cup ({held[r].account} \ {None})
            /\ UNCHANGED <<employees, askedEmail, askedAccount>>
       ELSE /\ email' = [email EXCEPT ![e] = held[r].email]
            /\ account' = [account EXCEPT ![e] = held[r].account]
            /\ askedEmail' = [askedEmail EXCEPT ![e] = held[r].email]
            /\ askedAccount' = [askedAccount EXCEPT ![e] = held[r].account]
            /\ UNCHANGED parted
  /\ Finish(r)
  /\ UNCHANGED <<users, askedRole, askedPassword, stale, hired, fired>>

-----------------------------------------------------------------------------
(***************************************************************************)
(* Editing a user: findById, then save                                     *)
(***************************************************************************)

\* PATCH /users/:id with role x.
SetRole(r, u, x) ==
  /\ name[u] # None
  /\ Start(r, OfUser("role", u), [Empty EXCEPT !.role = x], "saveUser")

\* updatePassword, for a reset or a change. The entity has the role and not
\* the password, which is never selected.
SetPassword(r, u) ==
  /\ name[u] # None
  /\ Start(r, OfUser("password", u), [Empty EXCEPT !.role = role[u]],
           "saveUser")

\* The SELECT of save does not have the password either, so a new one differs.
ReloadUser(r) ==
  LET diff == {c \in {"role", "password"} :
                 \/ c = "role" /\ held[r].role # role[req[r].user]
                 \/ c = "password" /\ req[r].op = "password"}
  IN  /\ pc[r] = "saveUser"
      /\ IF diff = {} THEN Finish(r)
         ELSE req' = [req EXCEPT ![r].diff = diff] /\ Goto(r, "writeUser") /\ UNCHANGED held
      /\ UNCHANGED <<users, employees, history>>

\* Variant: the whole row is written.
WriteWholeUser(r) ==
  LET u == req[r].user
  IN  /\ pc[r] = "writeUser"
      /\ role' = [role EXCEPT ![u] = held[r].role]
      /\ password' = [password EXCEPT ![u] = IF req[r].op = "password" THEN r ELSE @]
      /\ askedRole' = [askedRole EXCEPT ![u] = IF req[r].op = "role" THEN held[r].role ELSE @]
      /\ askedPassword' = [askedPassword EXCEPT ![u] = IF req[r].op = "password" THEN r ELSE @]
      /\ Finish(r)
      /\ UNCHANGED <<name, employees, askedEmail, askedAccount, stale, hired, fired, parted>>

WriteUser(r) ==
  LET u == req[r].user
      d == req[r].diff
  IN  /\ pc[r] = "writeUser"
      /\ role' = [role EXCEPT ![u] = IF "role" \in d THEN held[r].role ELSE @]
      /\ password' = [password EXCEPT ![u] = IF "password" \in d THEN r ELSE @]
      /\ askedRole' = [askedRole EXCEPT ![u] = IF req[r].op = "role" THEN held[r].role ELSE @]
      /\ askedPassword' = [askedPassword EXCEPT ![u] = IF req[r].op = "password" THEN r ELSE @]
      /\ stale' = IF req[r].op = "password" /\ "role" \in d
                    THEN [stale EXCEPT !["role"] = @ \cup {u}] ELSE stale
      /\ Finish(r)
      /\ UNCHANGED <<name, employees, askedEmail, askedAccount, hired, fired, parted>>

-----------------------------------------------------------------------------
(***************************************************************************)
(* Editing an employee: findOne, then save or remove                       *)
(***************************************************************************)

\* PATCH /employees/:id with an email, or with an account to link or unlink.
SetEmail(r, e, m) ==
  /\ email[e] # None
  /\ Start(r, OfMember("email", e),
           [role |-> "STAFF", email |-> m, account |-> account[e]], "saveEmployee")

\* The account is looked for, first.
Link(r, e, u) ==
  /\ email[e] # None /\ (u # None => name[u] # None)
  /\ Start(r, OfMember("link", e),
           [role |-> "STAFF", email |-> email[e], account |-> u], "saveEmployee")

Fire(r, e) ==
  /\ email[e] # None
  /\ Start(r, OfMember("fire", e), Empty, "delete")

\* A row that is gone is inserted again, with all the entity has.
ReloadEmployee(r) ==
  LET e    == req[r].emp
      diff == {c \in {"email", "account"} :
                 \/ c = "email" /\ held[r].email # email[e]
                 \/ c = "account" /\ held[r].account # account[e]}
  IN  /\ pc[r] = "saveEmployee"
      /\ IF email[e] = None THEN Goto(r, "insertAgain") /\ UNCHANGED <<req, held>>
         ELSE IF diff = {} THEN Finish(r)
         ELSE req' = [req EXCEPT ![r].diff = diff] /\ Goto(r, "writeEmployee") /\ UNCHANGED held
      /\ UNCHANGED <<users, employees, history>>

\* The UPDATE finds no row, or the email is another's, or it is done.
WriteEmployee(r) ==
  LET e == req[r].emp
      d == req[r].diff
      a == IF "account" \in d THEN held[r].account ELSE account[e]
      m == IF "email" \in d THEN held[r].email ELSE email[e]
      mine == IF req[r].op = "link" THEN "account" ELSE "email"  \* was asked for
  IN  /\ pc[r] = "writeEmployee"
      /\ IF email[e] # None /\ \A f \in Employee \ {e} : email[f] # m
           THEN /\ email' = [email EXCEPT ![e] = m] /\ account' = [account EXCEPT ![e] = a]
                /\ askedAccount' = [askedAccount EXCEPT ![e] = IF mine = "account" THEN a ELSE @]
                /\ askedEmail' = [askedEmail EXCEPT ![e] = IF mine = "email" THEN m ELSE @]
                /\ stale' = [c \in Column |-> IF c \in d \ {mine} THEN stale[c] \cup {e}
                                              ELSE stale[c]]
                /\ parted' = parted \cup ({account[e]} \ {a, None})
           ELSE UNCHANGED <<employees, askedEmail, askedAccount, stale, parted>>
      /\ Finish(r)
      /\ UNCHANGED <<users, askedRole, askedPassword, hired, fired>>

InsertAgain(r) ==
  LET e == req[r].emp
  IN  /\ pc[r] = "insertAgain"
      /\ IF email[e] = None /\ ~TakenEmail(held[r].email)
           THEN /\ email' = [email EXCEPT ![e] = held[r].email]
                /\ account' = [account EXCEPT ![e] = held[r].account]
                /\ stale' = [c \in Column |-> IF c \in {"email", "account"}
                                              THEN stale[c] \cup {e} ELSE stale[c]]
           ELSE UNCHANGED <<employees, stale>>
      /\ Finish(r)
      /\ UNCHANGED <<users, asked, hired, fired, parted>>

DeleteEmployee(r) ==
  LET e == req[r].emp
  IN  /\ pc[r] = "delete"
      /\ email' = [email EXCEPT ![e] = None]
      /\ account' = [account EXCEPT ![e] = None]
      /\ askedEmail' = [askedEmail EXCEPT ![e] = None]
      /\ askedAccount' = [askedAccount EXCEPT ![e] = None]
      /\ parted' = parted \cup ({account[e]} \ {None})
      /\ fired' = fired \cup {e}
      /\ Finish(r)
      /\ UNCHANGED <<users, askedRole, askedPassword, stale, hired>>

\* A call of the database throws, or the process ends.
Stop(r) ==
  /\ pc[r] \notin {"new", "done"}
  /\ parted' = IF pc[r] = "insertEmployee" THEN parted \cup ({held[r].account} \ {None})
               ELSE parted
  /\ Finish(r)
  /\ UNCHANGED <<users, employees, asked, stale, hired, fired>>

-----------------------------------------------------------------------------

Arrivals(r) ==
  \/ \E n \in Name : Boot(r, n) \/ \E x \in Role : Register(r, n, x)
  \/ \E n \in Name \cup {None}, m \in Email, x \in Role : Hire(r, n, m, x)
  \/ \E u \in User : SetPassword(r, u) \/ \E x \in Role : SetRole(r, u, x)
  \/ \E e \in Employee :
       \/ \E m \in Email : SetEmail(r, e, m)
       \/ \E u \in User \cup {None} : Link(r, e, u)
       \/ Fire(r, e)

Proceed(r) ==
  \/ FindAll(r) \/ FindName(r) \/ FindEmail(r)
  \/ (\E u \in User : InsertUser(r, u)) \/ (\E e \in Employee : InsertEmployee(r, e))
  \/ ReloadUser(r) \/ WriteUser(r)
  \/ ReloadEmployee(r) \/ WriteEmployee(r) \/ InsertAgain(r) \/ DeleteEmployee(r)
  \/ Stop(r)

Next == \E r \in Request : Arrivals(r) \/ Proceed(r)

Spec == Init /\ [][Next]_vars

-----------------------------------------------------------------------------
(***************************************************************************)
(* Properties                                                              *)
(***************************************************************************)

\* The columns of a user and of an employee are what was asked for last, and a
\* password always is: saving a role never brings an old password back. Unless
\* a save wrote the column as it had read it, so a new password can take a role
\* back (users.service.ts:79-83, employee.service.ts:89-110).
ColumnsAreKept ==
  /\ password = askedPassword
  /\ \A u \in User : u \in stale["role"] \/ role[u] = askedRole[u]
  /\ \A e \in Employee :
       /\ e \in stale["email"] \/ email[e] = askedEmail[e]
       /\ e \in stale["account"] \/ account[e] = askedAccount[e]

\* An account made for an employee is that employee's, or is about to be. If not
\* it was taken off, or the second of the two inserts failed: somebody used the
\* email in between, or the request stopped (employee.service.ts:53,68).
HiredAccountsAreExplained ==
  \A u \in hired :
    \/ \E e \in Employee : account[e] = u
    \/ u \in parted
    \/ \E r \in Request : pc[r] = "insertEmployee" /\ held[r].account = u
=============================================================================
