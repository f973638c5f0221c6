------------------------------ MODULE Accounts ------------------------------
(***************************************************************************)
(* Registration and login (do_request() in http/http_conn.cpp): the global *)
(* map users, filled from the table user at start, and the table itself,   *)
(* which the workers change concurrently under m_lock, and look up without *)
(* it.                                                                     *)
(*                                                                         *)
(* A lookup that runs while another worker changes the map is a data race: *)
(* it may miss a name that is there.  Whether the table has a unique key   *)
(* is not in the repository, so both are allowed.  An INSERT may fail, and *)
(* may have been executed although mysql_query() reports an error.  The    *)
(* process may end at any point and be started again.                      *)
(***************************************************************************)
EXTENDS Integers

CONSTANTS Workers, Names, Passwords,
          NULL,   \* no worker
          Empty   \* the empty string, a password like any other to the code

ASSUME AccountsAssumption == NULL \notin Workers /\ Empty \in Passwords

VARIABLES users,    \* the map: a function on the names it holds
          table,    \* the rows of the table user
          unique,   \* whether the table has a unique key on username
          m_lock,   \* the worker that holds it
          apc,      \* where each worker is in do_request()
          form,     \* the form each worker handles
          res,      \* whether the INSERT of each worker succeeded
          page,     \* the page the last form of each worker was answered with
          acked,    \* registrations answered with /log.html
          refused   \* registrations whose INSERT reported an error

vars == <<users, table, unique, m_lock, apc, form, res, page, acked, refused>>

Row == [name : Names, password : Passwords]
Form == [kind : {"register", "login"}, row : Row]

Known == DOMAIN users

RowOf(w) == form[w].row

GotoA(w, l) == apc' = [apc EXCEPT ![w] = l]

(* Workers between users[name] and the end of the assignment. *)
Storing == {w \in Workers : apc[w] \in {"store", "assign"}}

Answer(w, p) ==
    /\ GotoA(w, "idle")
    /\ page' = [page EXCEPT ![w] = p]

(* Mutant: passwords are not taken from the rows. *)
LoadedAny(f) == \A n \in DOMAIN f : \E r \in table : r.name = n

(* initmysql_result(): of two rows with one name the last one stays.       *)
Loaded(f) == \A n \in DOMAIN f : [name |-> n, password |-> f[n]] \in table

Init ==
    /\ users = [n \in {} |-> Empty]
    /\ table = {}
    /\ unique \in BOOLEAN
    /\ m_lock = NULL
    /\ apc = [w \in Workers |-> "idle"]
    /\ form \in [Workers -> Form]
    /\ res = [w \in Workers |-> FALSE]
    /\ page = [w \in Workers |-> "none"]
    /\ acked = {}
    /\ refused = {}
-----------------------------------------------------------------------------
(* process_read() has a complete form: name and password are copied out.   *)
Submit(w, f) ==
    /\ apc[w] = "idle"
    /\ form' = [form EXCEPT ![w] = f]
    /\ GotoA(w, "find")
    /\ page' = [page EXCEPT ![w] = "none"]
    /\ UNCHANGED <<users, table, unique, m_lock, res, acked, refused>>

(* The answers users.find(name) can give. *)
Finds(n) == {(n \in Known)} \cup (IF Storing = {} THEN {} ELSE {FALSE})

(* Registration: the name is looked up without m_lock. *)
RegisterFind(w) ==
    /\ apc[w] = "find" /\ form[w].kind = "register"
    /\ \E found \in Finds(RowOf(w).name) :
          IF found THEN Answer(w, "/registerError.html")
                   ELSE GotoA(w, "lock") /\ UNCHANGED page
    /\ UNCHANGED <<users, table, unique, m_lock, form, res, acked, refused>>

(* Mutant: the password is not compared. *)
LoginNameOnly(w) ==
    /\ apc[w] = "find" /\ form[w].kind = "login"
    /\ \E found \in Finds(RowOf(w).name) :
          Answer(w, IF found THEN "/welcome.html" ELSE "/logError.html")
    /\ UNCHANGED <<users, table, unique, m_lock, form, res, acked, refused>>

(* Login: name and password are looked up without m_lock. *)
Login(w) ==
    /\ apc[w] = "find" /\ form[w].kind = "login"
    /\ \E found \in Finds(RowOf(w).name) :
          Answer(w, IF found /\ users[RowOf(w).name] = RowOf(w).password
                      THEN "/welcome.html" ELSE "/logError.html")
    /\ UNCHANGED <<users, table, unique, m_lock, form, res, acked, refused>>

(* m_lock.lock() *)
Lock(w) ==
    /\ apc[w] = "lock"
    /\ m_lock = NULL
    /\ m_lock' = w
    /\ GotoA(w, "insert")
    /\ UNCHANGED <<users, table, unique, form, res, page, acked, refused>>

Inserts(row) == ~(unique /\ \E r \in table : r.name = row.name)

(* mysql_query(INSERT): res is 0 only if the row was inserted. *)
Insert(w) ==
    /\ apc[w] = "insert"
    /\ \E ok, executed \in BOOLEAN :
          /\ ok => executed
          /\ executed => Inserts(RowOf(w))
          /\ table' = IF executed THEN table \cup {RowOf(w)} ELSE table
          /\ refused' = IF ok THEN refused ELSE refused \cup {RowOf(w)}
          /\ res' = [res EXCEPT ![w] = ok]
    /\ GotoA(w, "store")
    /\ UNCHANGED <<users, unique, m_lock, form, page, acked>>

(* users[name]: a name that is not in the map gets the empty string. *)
Store(w) ==
    LET n == RowOf(w).name
    IN  /\ apc[w] = "store"
        /\ users' = [m \in Known \cup {n} |-> IF m \in Known THEN users[m] ELSE Empty]
        /\ GotoA(w, "assign")
        /\ UNCHANGED <<table, unique, m_lock, form, res, page, acked, refused>>

(* Mutant: the result of the INSERT is not looked at. *)
AssignAlwaysOk(w) ==
    /\ apc[w] = "assign"
    /\ users' = [users EXCEPT ![RowOf(w).name] = RowOf(w).password]
    /\ m_lock' = NULL
    /\ Answer(w, "/log.html")
    /\ acked' = acked \cup {RowOf(w)}
    /\ UNCHANGED <<table, unique, form, res, refused>>

(* Mutant: m_lock stays locked after a failed INSERT. *)
AssignKeepsLock(w) ==
    /\ apc[w] = "assign"
    /\ users' = [users EXCEPT ![RowOf(w).name] = RowOf(w).password]
    /\ m_lock' = IF res[w] THEN NULL ELSE m_lock
    /\ Answer(w, IF res[w] THEN "/log.html" ELSE "/registerError.html")
    /\ acked' = IF res[w] THEN acked \cup {RowOf(w)} ELSE acked
    /\ UNCHANGED <<table, unique, form, res, refused>>

(* users[name] = password, whatever res is; m_lock.unlock(); the answer. *)
Assign(w) ==
    /\ apc[w] = "assign"
    /\ users' = [users EXCEPT ![RowOf(w).name] = RowOf(w).password]
    /\ m_lock' = NULL
    /\ Answer(w, IF res[w] THEN "/log.html" ELSE "/registerError.html")
    /\ acked' = IF res[w] THEN acked \cup {RowOf(w)} ELSE acked
    /\ UNCHANGED <<table, unique, form, res, refused>>

(* The process ends, whatever its workers are doing, and is started again. *)
Restart ==
    /\ \E f \in [{r.name : r \in table} -> Passwords] : Loaded(f) /\ users' = f
    /\ m_lock' = NULL
    /\ apc' = [w \in Workers |-> "idle"]
    /\ page' = [w \in Workers |-> "none"]
    /\ UNCHANGED <<table, unique, form, res, acked, refused>>
-----------------------------------------------------------------------------
Step(w) ==
    \/ RegisterFind(w) \/ Login(w)
    \/ Lock(w) \/ Insert(w) \/ Store(w) \/ Assign(w)

Next ==
    \/ \E w \in Workers : Step(w) \/ \E f \in Form : Submit(w, f)
    \/ Restart

Spec == Init /\ [][Next]_vars

(* Workers run, the database answers, and nobody is kept out of m_lock for *)
(* ever by others who take it again and again.                             *)
FairSpec ==
    /\ Spec
    /\ \A w \in Workers : WF_vars(Step(w)) /\ SF_vars(Lock(w))
-----------------------------------------------------------------------------
(* Type invariant; m_lock is held by whoever is between lock() and         *)
(* unlock().                                                               *)
TypeOK ==
    /\ Known \in SUBSET Names
    /\ users \in [Known -> Passwords]
    /\ table \in SUBSET Row /\ unique \in BOOLEAN
    /\ m_lock \in Workers \cup {NULL}
    /\ apc \in [Workers -> {"idle", "find", "lock", "insert", "store", "assign"}]
    /\ form \in [Workers -> Form]
    /\ res \in [Workers -> BOOLEAN]
    /\ page \in [Workers -> {"none", "/log.html", "/registerError.html",
                             "/welcome.html", "/logError.html"}]
    /\ acked \in SUBSET Row /\ refused \in SUBSET Row
    /\ \A w \in Workers :
          apc[w] \in {"insert", "store", "assign"} <=> m_lock = w

(* What was answered with /log.html is in the table and stays there, over  *)
(* restarts, failing INSERTs and registrations of the same name            *)
(* (http_conn.cpp:503-514).                                                *)
AckedDurable == acked \subseteq table

(* The map and the table go apart in one way only (http_conn.cpp:503-504): *)
(* the map may hold a registration whose INSERT reported an error.  Every  *)
(* name of the table is in the map, or is about to be put there by the     *)
(* worker that has m_lock.                                                 *)
MapFollowsTable ==
    /\ \A n \in Known :
          \/ [name |-> n, password |-> users[n]] \in table \cup refused
          \/ \E w \in Workers : apc[w] = "assign" /\ RowOf(w).name = n
    /\ \A r \in table :
          r.name \in Known \/ \E w \in Storing : RowOf(w).name = r.name

(* /welcome.html is only given for a name that was registered, and with a  *)
(* password it was registered with (http_conn.cpp:530) or the empty one:   *)
(* between users[name] and its assignment (504) the map holds the empty    *)
(* string for a new name, and a login without a password matches it.       *)
WelcomeRegistered ==
    \A w \in Workers :
        page[w] = "/welcome.html" =>
            \E r \in table \cup refused :
                /\ r.name = RowOf(w).name
                /\ RowOf(w).password \in {r.password, Empty}

(* Every form is answered: m_lock is always given back. *)
Answered == \A w \in Workers : apc[w] = "find" ~> apc[w] = "idle"
=============================================================================
