--------------------------------- MODULE Auth ---------------------------------
(***************************************************************************)
(* Who may use the server: app/auth.py (failure lists, sessions, password  *)
(* check), the login, logout and user handlers of app/routes_admin.py and  *)
(* the users table.                                                        *)
(*                                                                         *)
(* A worker is a thread that answers a request.  Each of its steps is one  *)
(* acquisition of _FAIL_COUNTS_LOCK or _SESSION_LOCK or one statement on   *)
(* the users table; other workers' steps come between them.  Time is a     *)
(* count of ticks: a failure carries its age, a session the time it has    *)
(* left, so that a clock need not grow.                                    *)
(***************************************************************************)
EXTENDS Naturals, Sequences, FiniteSets

CONSTANTS Workers,      \* threads that answer requests
          Ips,          \* client addresses, after get_real_client_ip
          Names,        \* user names
          Secrets,      \* passwords
          Tokens,       \* what token_urlsafe returns; never the same twice
          Master,       \* OPDS_BASIC_USER, the name of account 1
          FirstSecret,  \* OPDS_BASIC_PASS at the first start
          MaxFailures,  \* _RATE_LIMIT_MAX
          Window,       \* _RATE_LIMIT_WINDOW, in ticks
          SessionTTL,   \* _SESSION_TTL, in ticks
          MaxAccounts,  \* bound on the accounts ever made
          None

ASSUME MasterAssumption == Master \in Names /\ FirstSecret \in Secrets
ASSUME LimitAssumption ==
    /\ MaxFailures \in Nat \ {0} /\ Window \in Nat \ {0}
    /\ SessionTTL \in Nat \ {0} /\ MaxAccounts \in Nat \ {0}
ASSUME WorkersFinite == IsFiniteSet(Workers)
ASSUME NobodyAssumption ==
    None \notin Names \cup Secrets \cup Tokens \cup Ips

VARIABLES failures,   \* _FAIL_COUNTS, as the ages of the failed attempts
          sessions,   \* _SESSION_STORE
          spent,      \* the tokens handed out so far
          users,      \* the users table, by id
          made,       \* the AUTOINCREMENT counter of users
          secret,     \* OPDS_BASIC_PASS, the master's configured password
          job         \* the request each worker is answering

vars == <<failures, sessions, spent, users, made, secret, job>>

Ids == 1..MaxAccounts
Account == [name : Names, secret : Secrets, admin : BOOLEAN]

(* The user name of a session is left out: it is only displayed.           *)
Session == [admin : BOOLEAN, left : 0..SessionTTL]
ASSUME RowAssumption == None \notin Account \cup Session

(* "any" and "admin" say whom the dependency lets in (require_basic and    *)
(* require_session_or_basic; require_admin and require_session_or_admin).  *)
Request == [pc : {"idle", "cookie", "limit", "verify", "clear", "record",
                  "session", "granted"},
            need : {"any", "admin", "login"},
            name : Names \cup {None}, secret : Secrets \cup {None},
            cookie : Tokens \cup {None}, ip : Ips \cup {None},
            admin : BOOLEAN]

NoRequest == [pc |-> "idle", need |-> "any", name |-> None, secret |-> None,
              cookie |-> None, ip |-> None, admin |-> FALSE]

(* No failures, no sessions, nothing running: a process that just started. *)
Fresh ==
    /\ failures = [i \in Ips |-> <<>>]
    /\ sessions = [t \in Tokens |-> None]
    /\ job = [w \in Workers |-> NoRequest]

(* The first start seeds account 1 with the configured password.           *)
Init ==
    /\ Fresh
    /\ spent = {}
    /\ secret = FirstSecret
    /\ users = [i \in Ids |-> IF i = 1
                  THEN [name |-> Master, secret |-> FirstSecret, admin |-> TRUE]
                  ELSE None]
    /\ made = 1

-------------------------------------------------------------------------------
(* The failure lists                                                       *)

(* What _prune_failures drops; the list is in the order of time, so that   *)
(* the entries that have left the window are its first ones.               *)
Aged(list) == [k \in DOMAIN list |-> list[k] + 1]
Expired(list) == {k \in DOMAIN list : list[k] >= Window}
Pruned(list) == SubSeq(list, Cardinality(Expired(list)) + 1, Len(list))

(* Mutant of Limited: one more attempt than the limit.                     *)
LimitedLate(list) == Len(list) > MaxFailures

Limited(list) == Len(list) >= MaxFailures

(* Mutant of Tick: old failures are not pruned.                            *)
TickKeeping ==
    /\ failures' = [i \in Ips |-> Aged(failures[i])]
    /\ UNCHANGED <<sessions, spent, users, made, secret, job>>

(* Time passes.  _prune_failures drops what has left the window before     *)
(* anyone counts, so it is dropped here as it ages; an expired session is  *)
(* only noticed, and removed, by validate_session.                         *)
Tick ==
    /\ failures' = [i \in Ips |-> Pruned(Aged(failures[i]))]
    /\ sessions' = [t \in Tokens |->
         IF sessions[t] = None \/ sessions[t].left = 0 THEN sessions[t]
         ELSE [sessions[t] EXCEPT !.left = @ - 1]]
    /\ UNCHANGED <<spent, users, made, secret, job>>

-------------------------------------------------------------------------------
(* Requests                                                                *)

At(w, pc) == job[w].pc = pc
Goto(w, pc) == job' = [job EXCEPT ![w].pc = pc]
Finish(w) == job' = [job EXCEPT ![w] = NoRequest]

(* login_submit is a coroutine that checks the password without awaiting:  *)
(* while it runs the event loop accepts no other request.                  *)
LoopFree == \A w \in Workers : job[w].need # "login"

(* A request with Basic credentials, a session cookie or both.             *)
Arrive(w) ==
    /\ At(w, "idle") /\ LoopFree
    /\ \E need \in {"any", "admin"}, ip \in Ips, cookie \in spent \cup {None},
          name \in Names \cup {None}, pass \in Secrets \cup {None} :
         /\ (name = None) = (pass = None)
         /\ name # None \/ cookie # None
         /\ job' = [job EXCEPT ![w] =
              [pc |-> IF cookie = None THEN "limit" ELSE "cookie",
               need |-> need, name |-> name, secret |-> pass,
               cookie |-> cookie, ip |-> ip, admin |-> FALSE]]
    /\ UNCHANGED <<failures, sessions, spent, users, made, secret>>

LoginForm(w) ==
    /\ At(w, "idle") /\ LoopFree
    /\ \E ip \in Ips, name \in Names, pass \in Secrets :
         job' = [job EXCEPT ![w] =
           [NoRequest EXCEPT !.pc = "limit", !.need = "login", !.ip = ip,
                             !.name = name, !.secret = pass]]
    /\ UNCHANGED <<failures, sessions, spent, users, made, secret>>

(* validate_session, then the way on without a session.                    *)
ValidateSession(w) ==
    LET t == job[w].cookie
        s == sessions[t]
        live == s # None /\ s.left > 0
    IN  /\ At(w, "cookie")
        /\ sessions' = [sessions EXCEPT ![t] =
             IF live THEN [s EXCEPT !.left = SessionTTL] ELSE None]
        /\ \/ /\ live /\ (job[w].need = "any" \/ s.admin)
              /\ job' = [job EXCEPT ![w] = [NoRequest EXCEPT
                   !.pc = "granted", !.need = job[w].need, !.admin = s.admin]]
           \/ /\ ~live /\ job[w].name # None
              /\ job' = [job EXCEPT ![w].pc = "limit", ![w].cookie = None]
           \/ /\ IF live THEN job[w].need = "admin" /\ ~s.admin
                         ELSE job[w].name = None
              /\ Finish(w)
        /\ UNCHANGED <<failures, spent, users, made, secret>>

(* Mutant of CheckLimit: a refused attempt counts as a failed one.         *)
CheckLimitCounting(w) ==
    LET ip == job[w].ip IN
    /\ At(w, "limit")
    /\ failures' = [failures EXCEPT ![ip] =
         IF Limited(@) THEN Append(Tail(@), 0) ELSE @]
    /\ IF Limited(failures[ip]) THEN Finish(w) ELSE Goto(w, "verify")
    /\ UNCHANGED <<sessions, spent, users, made, secret>>

(* _is_rate_limited; answer 429 when it says so.                           *)
CheckLimit(w) ==
    LET ip == job[w].ip IN
    /\ At(w, "limit")
    /\ IF Limited(failures[ip]) THEN Finish(w) ELSE Goto(w, "verify")
    /\ UNCHANGED <<failures, sessions, spent, users, made, secret>>

Configured(j) == j.name = Master /\ j.secret = secret
Owned(j) == {i \in Ids : users[i] # None /\ users[i].name = j.name
                                         /\ users[i].secret = j.secret}

(* authenticate_user: the configured account first, then the table.        *)
Verify(w) ==
    LET j == job[w] IN
    /\ At(w, "verify")
    /\ job' = [job EXCEPT ![w] = [j EXCEPT
         !.pc = IF Configured(j) \/ Owned(j) # {} THEN "clear" ELSE "record",
         !.admin = Configured(j) \/ \E i \in Owned(j) : users[i].admin,
         !.name = None, !.secret = None]]
    /\ UNCHANGED <<failures, sessions, spent, users, made, secret>>

RecordFailure(w) ==
    /\ At(w, "record")
    /\ failures' = [failures EXCEPT ![job[w].ip] = Append(@, 0)]
    /\ Finish(w)
    /\ UNCHANGED <<sessions, spent, users, made, secret>>

(* Mutant of ClearFailures: login_submit does not ask for an administrator.*)
ClearFailuresAnyLogin(w) ==
    /\ At(w, "clear")
    /\ failures' = [failures EXCEPT ![job[w].ip] = <<>>]
    /\ CASE job[w].need = "login" -> Goto(w, "session")
         [] OTHER -> Goto(w, "granted")
    /\ UNCHANGED <<sessions, spent, users, made, secret>>

(* _clear_failures, then the test of is_admin that follows _authenticate.  *)
ClearFailures(w) ==
    /\ At(w, "clear")
    /\ failures' = [failures EXCEPT ![job[w].ip] = <<>>]
    /\ CASE job[w].need # "any" /\ ~job[w].admin -> Finish(w)
         [] job[w].need = "login" /\ job[w].admin -> Goto(w, "session")
         [] OTHER -> Goto(w, "granted")
    /\ UNCHANGED <<sessions, spent, users, made, secret>>

(* create_session                                                          *)
CreateSession(w) ==
    /\ At(w, "session")
    /\ \E t \in Tokens \ spent :
         /\ sessions' = [sessions EXCEPT ![t] =
              [admin |-> job[w].admin, left |-> SessionTTL]]
         /\ spent' = spent \cup {t}
    /\ Finish(w)
    /\ UNCHANGED <<failures, users, made, secret>>

(* The handler of a request that changes no account, or the answer 403     *)
(* about account 1, or 400 about a name that is taken.                     *)
Answer(w) ==
    /\ At(w, "granted")
    /\ Finish(w)
    /\ UNCHANGED <<failures, sessions, spent, users, made, secret>>

(* Mutant of CreateUser: the names of accounts need not differ.            *)
CreateUserTwice(w) ==
    /\ At(w, "granted") /\ job[w].need = "admin" /\ made < MaxAccounts
    /\ \E acc \in Account : users' = [users EXCEPT ![made + 1] = acc]
    /\ made' = made + 1
    /\ Finish(w)
    /\ UNCHANGED <<failures, sessions, spent, secret>>

CreateUser(w) ==
    /\ At(w, "granted") /\ job[w].need = "admin" /\ made < MaxAccounts
    /\ \E acc \in Account :
         /\ \A i \in Ids : users[i] # None => users[i].name # acc.name
         /\ users' = [users EXCEPT ![made + 1] = acc]
    /\ made' = made + 1
    /\ Finish(w)
    /\ UNCHANGED <<failures, sessions, spent, secret>>

UpdateUser(w) ==
    /\ At(w, "granted") /\ job[w].need = "admin"
    /\ \E i \in 2..made, pass \in Secrets \cup {None}, adm \in {TRUE, FALSE} :
         /\ users[i] # None
         /\ users' = [users EXCEPT ![i].secret = IF pass = None THEN @ ELSE pass,
                                   ![i].admin = adm]
    /\ Finish(w)
    /\ UNCHANGED <<failures, sessions, spent, made, secret>>

DeleteUser(w) ==
    /\ At(w, "granted") /\ job[w].need = "admin"
    /\ \E i \in 2..made : users' = [users EXCEPT ![i] = None]
    /\ Finish(w)
    /\ UNCHANGED <<failures, sessions, spent, made, secret>>

(* logout: one pop, in a thread that no other request waits for; accepted  *)
(* before a login, it may run during it.                                   *)
Logout ==
    /\ \E t \in spent : sessions' = [sessions EXCEPT ![t] = None]
    /\ UNCHANGED <<failures, spent, users, made, secret, job>>

(* The server is restarted, perhaps with another OPDS_BASIC_PASS.          *)
Restart ==
    /\ failures' = [i \in Ips |-> <<>>]
    /\ sessions' = [t \in Tokens |-> None]
    /\ job' = [w \in Workers |-> NoRequest]
    /\ secret' \in Secrets
    /\ UNCHANGED <<spent, users, made>>

Step(w) ==
    \/ Arrive(w) \/ LoginForm(w)
    \/ ValidateSession(w) \/ CheckLimit(w) \/ Verify(w)
    \/ RecordFailure(w) \/ ClearFailures(w) \/ CreateSession(w)
    \/ Answer(w) \/ CreateUser(w) \/ UpdateUser(w) \/ DeleteUser(w)

Next == Tick \/ Logout \/ Restart \/ \E w \in Workers : Step(w)

Spec == Init /\ [][Next]_vars

(* Time goes on.  Nothing is assumed of clients or of the scheduler.       *)
FairSpec == Spec /\ WF_vars(Tick)

(***************************************************************************)
(* Properties                                                              *)
(***************************************************************************)

TypeOK ==
    /\ failures \in [Ips -> Seq(0..(Window - 1))]
    /\ sessions \in [Tokens -> Session \cup {None}]
    /\ spent \in SUBSET Tokens
    /\ users \in [Ids -> Account \cup {None}]
    /\ made \in Ids
    /\ secret \in Secrets
    /\ job \in [Workers -> Request]

(* Workers that passed the check of ip's failures and may yet add one.     *)
Trying(ip) == {w \in Workers : job[w].pc \in {"verify", "record"}
                                /\ job[w].ip = ip}

Capacity == MaxFailures + Cardinality(Workers) - 1

(* auth.py:48-65: the limit is checked and the failure recorded under two  *)
(* acquisitions of the lock, so a client that tries in parallel gets past  *)
(* _RATE_LIMIT_MAX, but by fewer attempts than the server has threads.     *)
FailuresBounded ==
    \A ip \in Ips : Len(failures[ip]) <= Capacity

(* A client that has been shut out is let try again, however often it was  *)
(* refused meanwhile and whatever attempts were under way.                 *)
LockoutEnds == \A ip \in Ips : Limited(failures[ip]) ~> ~Limited(failures[ip])

(* Whatever administrators do at the same time, account 1 stays what the   *)
(* first start made it and no two accounts share a name, on which          *)
(* authenticate_user's fetchone() relies.                                  *)
AccountsDistinct ==
    /\ users[1] # None /\ users[1].name = Master /\ users[1].admin
    /\ \A i, k \in Ids : (users[i] # None /\ users[k] # None /\ i # k)
                           => users[i].name # users[k].name

(***************************************************************************)
(* The promise of AccessPromise, in which a password is checked, counted   *)
(* and answered at once, is kept.                                          *)
(***************************************************************************)

Grade(w) ==
    IF job[w].pc \notin {"clear", "session", "granted"} THEN "none"
    ELSE IF job[w].admin THEN "admin" ELSE "user"

(* Failures that count against ip, with those that may yet be recorded.    *)
Held(ip) == Len(failures[ip]) + Cardinality(Trying(ip))

Open == {t \in Tokens : sessions[t] # None}
GradeNow == [w \in Workers |-> Grade(w)]
BudgetNow == [ip \in Ips |-> Held(ip)]

Access == INSTANCE AccessPromise WITH
    accounts <- users,
    password <- secret,
    open     <- Open,
    grade    <- GradeNow,
    budget   <- BudgetNow

AccessKept == Access!Spec
===============================================================================
