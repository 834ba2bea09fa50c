------------------------------ MODULE AccessProofs ------------------------------
(***************************************************************************)
(* The steps of Auth implement AccessPromise, for any number of threads,   *)
(* addresses, sessions and accounts.                                       *)
(***************************************************************************)
EXTENDS AuthProofs

(* What a request's progress says of its rights.                           *)
RightOf(j) ==
    /\ j.pc = "cookie" => ((j.name = None) <=> (j.secret = None))
    /\ j.pc \in {"limit", "verify"} => j.name \in Names /\ j.secret \in Secrets
    /\ j.pc = "session" => j.admin
    /\ (j.pc = "granted" /\ j.need = "admin") => j.admin

(* Only administrators have sessions.                                      *)
Rights ==
    /\ \A t \in Tokens : sessions[t] # None => sessions[t].admin
    /\ \A w \in Workers : RightOf(job[w])

AccessInv == TypeInv /\ HeldBounded /\ Rights

LEMMA NoRequestRight == RightOf(NoRequest)
BY DEF RightOf, NoRequest

(* The requests of the other workers keep their rights.                    *)
LEMMA SetRight ==
    ASSUME Rights, NEW w \in Workers, RightOf(job'[w]),
           \A v \in Workers \ {w} : job'[v] = job[v]
    PROVE  \A v \in Workers : RightOf(job'[v])
<1> SUFFICES ASSUME NEW v \in Workers PROVE RightOf(job'[v])
  OBVIOUS
<1>1. CASE v = w
  BY <1>1
<1>2. CASE v # w
  BY <1>2 DEF Rights
<1> QED BY <1>1, <1>2

LEMMA FinishRight ==
    ASSUME TypeInv, Rights, NEW w \in Workers, Finish(w)
    PROVE  \A v \in Workers : RightOf(job'[v])
<1>1. job'[w] = NoRequest /\ \A v \in Workers \ {w} : job'[v] = job[v]
  BY DEF Finish, TypeInv, TypeOK
<1> QED BY <1>1, NoRequestRight, SetRight

(* A step that leaves the sessions alone, and one worker's request.        *)
LEMMA QuietRights ==
    ASSUME TypeInv, Rights, NEW w \in Workers,
           \/ Arrive(w) \/ LoginForm(w) \/ CheckLimit(w) \/ Verify(w)
           \/ RecordFailure(w) \/ ClearFailures(w) \/ Answer(w)
           \/ CreateUser(w) \/ UpdateUser(w) \/ DeleteUser(w)
    PROVE  Rights'
<1>0. job \in [Workers -> Request] /\ job[w] \in Request /\ RightOf(job[w])
  BY DEF TypeInv, TypeOK, Rights
<1>1. UNCHANGED sessions
  BY DEF Arrive, LoginForm, CheckLimit, Verify, RecordFailure, ClearFailures,
     Answer, CreateUser, UpdateUser, DeleteUser
<1>2. \A v \in Workers : RightOf(job'[v])
  <2>1. CASE Finish(w)
    BY <2>1, FinishRight
  <2>2. CASE Arrive(w)
    <3>1. PICK need \in {"any", "admin"}, ip \in Ips, cookie \in spent \cup {None},
          name \in Names \cup {None}, pass \in Secrets \cup {None} :
         /\ (name = None) = (pass = None)
         /\ name # None \/ cookie # None
         /\ job' = [job EXCEPT ![w] =
              [pc |-> IF cookie = None THEN "limit" ELSE "cookie",
               need |-> need, name |-> name, secret |-> pass,
               cookie |-> cookie, ip |-> ip, admin |-> FALSE]]
      BY <2>2 DEF Arrive
    <3>2. job'[w] = [pc |-> IF cookie = None THEN "limit" ELSE "cookie",
               need |-> need, name |-> name, secret |-> pass,
               cookie |-> cookie, ip |-> ip, admin |-> FALSE]
          /\ \A v \in Workers \ {w} : job'[v] = job[v]
      BY <3>1, <1>0
    <3>3. RightOf(job'[w])
      BY <3>1, <3>2 DEF RightOf
    <3> QED BY <3>2, <3>3, SetRight
  <2>3. CASE LoginForm(w)
    <3>1. PICK ip \in Ips, name \in Names, pass \in Secrets :
         job' = [job EXCEPT ![w] =
           [NoRequest EXCEPT !.pc = "limit", !.need = "login", !.ip = ip,
                             !.name = name, !.secret = pass]]
      BY <2>3 DEF LoginForm
    <3>2. /\ job'[w].pc = "limit" /\ job'[w].name \in Names
          /\ job'[w].secret \in Secrets
          /\ \A v \in Workers \ {w} : job'[v] = job[v]
      BY <3>1, <1>0 DEF NoRequest
    <3>3. RightOf(job'[w])
      BY <3>2 DEF RightOf
    <3> QED BY <3>2, <3>3, SetRight
  <2>4. ASSUME NEW pc, Goto(w, pc), 
               \/ pc = "verify" /\ job[w].pc = "limit"
               \/ pc = "session" /\ job[w].admin
               \/ pc = "granted" /\ (job[w].need = "admin" => job[w].admin)
        PROVE  \A v \in Workers : RightOf(job'[v])
    <3>1. job'[w] = [job[w] EXCEPT !.pc = pc] /\ \A v \in Workers \ {w} : job'[v] = job[v]
      BY <2>4, <1>0 DEF Goto
    <3>2. /\ job'[w].pc = pc /\ job'[w].need = job[w].need
          /\ job'[w].admin = job[w].admin /\ job'[w].name = job[w].name
          /\ job'[w].secret = job[w].secret
      BY <3>1, <1>0 DEF Request
    <3>3. RightOf(job'[w])
      BY <2>4, <3>2, <1>0 DEF RightOf
    <3> QED BY <3>1, <3>3, SetRight
  <2>5. CASE CheckLimit(w)
    <3>1. Finish(w) \/ (Goto(w, "verify") /\ job[w].pc = "limit")
      BY <2>5 DEF CheckLimit, At
    <3> QED BY <3>1, <2>1, <2>4
  <2>6. CASE Verify(w)
    <3>1. /\ job'[w].pc \in {"clear", "record"}
          /\ \A v \in Workers \ {w} : job'[v] = job[v]
      BY <2>6, <1>0 DEF Verify, Request
    <3>2. RightOf(job'[w])
      BY <3>1 DEF RightOf
    <3> QED BY <3>1, <3>2, SetRight
  <2>7. CASE ClearFailures(w)
    <3>1. \/ Finish(w)
          \/ Goto(w, "session") /\ job[w].admin
          \/ Goto(w, "granted") /\ (job[w].need = "admin" => job[w].admin)
      BY <2>7 DEF ClearFailures
    <3> QED BY <3>1, <2>1, <2>4
  <2>8. CASE RecordFailure(w) \/ Answer(w) \/ CreateUser(w) \/ UpdateUser(w)
               \/ DeleteUser(w)
    BY <2>8, <2>1 DEF RecordFailure, Answer, CreateUser, UpdateUser, DeleteUser
  <2> QED BY <2>2, <2>3, <2>5, <2>6, <2>7, <2>8
<1> QED BY <1>1, <1>2 DEF Rights

LEMMA SessionRights ==
    ASSUME TypeInv, Rights, NEW w \in Workers, CreateSession(w) \/ ValidateSession(w)
    PROVE  Rights'
<1>0. /\ job \in [Workers -> Request] /\ job[w] \in Request /\ RightOf(job[w])
      /\ sessions \in [Tokens -> Session \cup {None}]
  BY DEF TypeInv, TypeOK, Rights
<1>1. CASE CreateSession(w)
  <2>1. job[w].admin
    BY <1>0, <1>1 DEF CreateSession, At, RightOf
  <2>2. \A t \in Tokens : sessions'[t] # None => sessions'[t].admin
    BY <2>1, <1>0, <1>1 DEF CreateSession, Rights
  <2>3. \A v \in Workers : RightOf(job'[v])
    BY <1>1, FinishRight DEF CreateSession
  <2> QED BY <2>2, <2>3 DEF Rights
<1>2. CASE ValidateSession(w)
  <2> DEFINE t == job[w].cookie
             s == sessions[t]
             live == s # None /\ s.left > 0
  <2>1. t \in Tokens /\ job[w].pc = "cookie" /\ s \in Session \cup {None}
        /\ (s # None => s.admin)
    BY <1>0, <1>2 DEF ValidateSession, At, TypeInv, Addressed, Rights
  <2>2. sessions' = [sessions EXCEPT ![t] =
             IF live THEN [s EXCEPT !.left = SessionTTL] ELSE None]
    BY <1>2 DEF ValidateSession
  <2>3. live => s \in Session /\ s.admin /\ [s EXCEPT !.left = SessionTTL].admin
    BY <2>1 DEF Session
  <2>4. \A k \in Tokens : sessions'[k] # None => sessions'[k].admin
    <3> HIDE DEF t, s, live
    <3> QED BY <2>1, <2>2, <2>3, <1>0 DEF Rights
  <2>5. \A v \in Workers : RightOf(job'[v])
    <3>1. CASE Finish(w)
      BY <3>1, FinishRight
    <3>2. CASE live /\ job' = [job EXCEPT ![w] = [NoRequest EXCEPT
                   !.pc = "granted", !.need = job[w].need, !.admin = s.admin]]
      <4>1. job'[w].pc = "granted" /\ job'[w].admin = s.admin
            /\ \A v \in Workers \ {w} : job'[v] = job[v]
        BY <3>2, <1>0 DEF NoRequest
      <4>2. RightOf(job'[w])
        BY <4>1, <2>3, <3>2 DEF RightOf
      <4> QED BY <4>1, <4>2, SetRight
    <3>3. CASE job[w].name # None
               /\ job' = [job EXCEPT ![w].pc = "limit", ![w].cookie = None]
      <4>1. job'[w] = [job[w] EXCEPT !.pc = "limit", !.cookie = None]
            /\ \A v \in Workers \ {w} : job'[v] = job[v]
        BY <3>3, <1>0
      <4>2. job'[w].pc = "limit" /\ job'[w].name \in Names /\ job'[w].secret \in Secrets
        BY <4>1, <3>3, <2>1, <1>0 DEF Request, RightOf
      <4>3. RightOf(job'[w])
        BY <4>2 DEF RightOf
      <4> QED BY <4>1, <4>3, SetRight
    <3> QED BY <1>2, <3>1, <3>2, <3>3 DEF ValidateSession
  <2> QED BY <2>4, <2>5 DEF Rights
<1> QED BY <1>1, <1>2

LEMMA RightsInit == Init => Rights
BY NoRequestRight DEF Init, Fresh, Rights

LEMMA RightsStep == TypeInv /\ Rights /\ [Next]_vars => Rights'
<1> SUFFICES ASSUME TypeInv, Rights, [Next]_vars PROVE Rights'
  OBVIOUS
<1>0. sessions \in [Tokens -> Session \cup {None}]
  BY DEF TypeInv, TypeOK
<1>1. CASE Tick
  <2>1. job' = job
    BY <1>1 DEF Tick
  <2>2. ASSUME NEW t \in Tokens, sessions'[t] # None PROVE sessions'[t].admin
    <3>1. CASE sessions[t] = None \/ sessions[t].left = 0
      BY <3>1, <2>2, <1>1 DEF Tick, Rights
    <3>2. CASE ~(sessions[t] = None \/ sessions[t].left = 0)
      <4>1. sessions'[t] = [sessions[t] EXCEPT !.left = @ - 1]
        BY <3>2, <1>1 DEF Tick
      <4>2. sessions[t] \in Session /\ sessions[t].admin
        BY <3>2, <1>0 DEF Rights
      <4> QED BY <4>1, <4>2 DEF Session
    <3> QED BY <3>1, <3>2
  <2> QED BY <2>1, <2>2 DEF Rights
<1>2. CASE Logout
  BY <1>0, <1>2 DEF Logout, Rights
<1>3. CASE Restart
  BY <1>3, NoRequestRight DEF Restart, Rights
<1>4. CASE UNCHANGED vars
  BY <1>4 DEF vars, Rights
<1>5. ASSUME NEW w \in Workers,
             \/ Arrive(w) \/ LoginForm(w) \/ ValidateSession(w)
             \/ CheckLimit(w) \/ Verify(w) \/ RecordFailure(w)
             \/ ClearFailures(w) \/ CreateSession(w) \/ Answer(w)
             \/ CreateUser(w) \/ UpdateUser(w) \/ DeleteUser(w)
      PROVE  Rights'
  BY <1>5, QuietRights, SessionRights
<1> QED BY <1>1, <1>2, <1>3, <1>4, <1>5, NextStep

-------------------------------------------------------------------------------
(* Every step is one of the promise's, or nothing to it.                   *)

Simulated == [Access!Next]_(Access!vars)

LEMMA GradesChange ==
    ASSUME NEW w \in Workers, \A v \in Workers \ {w} : job'[v] = job[v]
    PROVE  /\ GradeNow' = [GradeNow EXCEPT ![w] = Grade(w)']
           /\ Grade(w)' = Grade(w) => GradeNow' = GradeNow
           /\ GradeNow[w] = Grade(w)
<1>1. \A v \in Workers \ {w} : Grade(v)' = Grade(v)
  BY DEF Grade
<1> QED BY <1>1 DEF GradeNow

(* A worker that neither was nor is trying.                                *)
LEMMA SameTrying ==
    ASSUME NEW w \in Workers, \A v \in Workers \ {w} : job'[v] = job[v],
           job[w].pc \notin {"verify", "record"},
           job'[w].pc \notin {"verify", "record"}
    PROVE  \A i \in Ips : Trying(i)' = Trying(i)
BY DEF Trying

LEMMA SameBudget ==
    ASSUME \A i \in Ips : failures'[i] = failures[i] /\ Trying(i)' = Trying(i)
    PROVE  BudgetNow' = BudgetNow
BY DEF BudgetNow, Held

LEMMA BudgetChange ==
    ASSUME NEW ip \in Ips,
           \A i \in Ips \ {ip} : failures'[i] = failures[i] /\ Trying(i)' = Trying(i)
    PROVE  /\ BudgetNow' = [BudgetNow EXCEPT ![ip] = Held(ip)']
           /\ BudgetNow[ip] = Held(ip)
<1>1. \A i \in Ips \ {ip} : Held(i)' = Held(i)
  BY DEF Held
<1> QED BY <1>1 DEF BudgetNow

LEMMA SimInit == Init => Access!Init
<1> SUFFICES ASSUME Init PROVE Access!Init
  OBVIOUS
<1>1. secret \in Secrets /\ 1 \in Ids /\ spent = {}
  BY MasterAssumption, LimitAssumption DEF Init, Ids
<1>2. users = [k \in Ids |-> IF k = 1
           THEN [name |-> Master, secret |-> secret, admin |-> TRUE] ELSE None]
  BY DEF Init
<1>3. Open = {}
  BY DEF Init, Fresh, Open
<1>4. GradeNow = [w \in Workers |-> "none"]
  <2>1. \A w \in Workers : Grade(w) = "none"
    BY DEF Init, Fresh, NoRequest, Grade
  <2> QED BY <2>1 DEF GradeNow
<1>5. BudgetNow = [ip \in Ips |-> 0]
  <2>1. ASSUME NEW ip \in Ips PROVE Held(ip) = 0
    <3>1. Len(failures[ip]) = 0
      BY EmptySeq DEF Init, Fresh
    <3>2. Trying(ip) = {}
      BY DEF Init, Fresh, NoRequest, Trying
    <3> QED BY <3>1, <3>2, FS_EmptySet DEF Held
  <2> QED BY <2>1 DEF BudgetNow
<1> QED BY <1>1, <1>2, <1>3, <1>4, <1>5 DEF Access!Init

(* Steps without a worker.                                                 *)
LEMMA SimClock ==
    ASSUME TypeInv, TypeInv', HeldBounded, HeldBounded', Tick \/ Logout \/ Restart
    PROVE  Simulated
<1>0. sessions \in [Tokens -> Session \cup {None}]
  BY DEF TypeInv, TypeOK
<1>1. CASE Tick
  <2>1. Open' = Open
    <3>1. ASSUME NEW t \in Tokens PROVE sessions'[t] # None <=> sessions[t] # None
      <4>1. CASE sessions[t] = None \/ sessions[t].left = 0
        BY <4>1, <1>1 DEF Tick
      <4>2. CASE ~(sessions[t] = None \/ sessions[t].left = 0)
        <5>1. sessions'[t] = [sessions[t] EXCEPT !.left = @ - 1]
          BY <4>2, <1>1 DEF Tick
        <5>2. sessions[t] \in Session /\ sessions[t].left - 1 \in 0..SessionTTL
          BY <4>2, <1>0, LimitAssumption DEF Session
        <5>3. sessions'[t] \in Session
          BY <5>1, <5>2 DEF Session
        <5> QED BY <5>3, <4>2, RowAssumption
      <4> QED BY <4>1, <4>2
    <3> QED BY <3>1 DEF Open
  <2>2. GradeNow' = GradeNow /\ \A i \in Ips : Trying(i)' = Trying(i)
    BY <1>1 DEF Tick, GradeNow, Grade, Trying
  <2>3. ASSUME NEW ip \in Ips PROVE Held(ip)' <= Held(ip) /\ Held(ip)' \in 0..Capacity
    <3>1. Len(failures'[ip]) <= Len(failures[ip]) /\ Len(failures'[ip]) \in Nat
      <4>1. failures'[ip] = Pruned(Aged(failures[ip]))
        BY <1>1 DEF Tick
      <4>2. failures[ip] \in Seq(0..(Window - 1))
        BY DEF TypeInv, TypeOK
      <4>3. \A i, k \in 1..Len(failures[ip]) : i <= k => failures[ip][k] <= failures[ip][i]
        BY DEF TypeInv, Ordered
      <4>4. failures'[ip] \in Seq(0..(Window - 1))
        BY DEF TypeInv, TypeOK
      <4>5. Len(failures'[ip]) <= Len(failures[ip])
        BY <4>1, <4>2, <4>3, PrunedPart
      <4>6. Len(failures'[ip]) \in Nat
        BY <4>4, LenProperties
      <4> QED BY <4>5, <4>6
    <3>2. Held(ip) <= Capacity
      BY DEF HeldBounded
    <3> QED BY <3>1, <3>2, <2>2, Numbers DEF Held
  <2>4. BudgetNow' \in [Ips -> 0..Capacity] /\ \A ip \in Ips : BudgetNow'[ip] <= BudgetNow[ip]
    BY <2>3 DEF BudgetNow
  <2>5. UNCHANGED <<users, secret, spent>>
    BY <1>1 DEF Tick
  <2> QED BY <2>1, <2>2, <2>4, <2>5 DEF Simulated, Access!Next, Access!Forgive
<1>2. CASE Logout
  <2>1. GradeNow' = GradeNow /\ BudgetNow' = BudgetNow
    BY <1>2 DEF Logout, GradeNow, Grade, BudgetNow, Held, Trying
  <2>2. Open' \in SUBSET Open
    BY <1>0, <1>2 DEF Logout, Open
  <2> QED BY <2>1, <2>2, <1>2 DEF Logout, Simulated, Access!Next, Access!Close
<1>3. CASE Restart
  <2>1. Open' = {}
    BY <1>3 DEF Restart, Open
  <2>2. GradeNow' = [w \in Workers |-> "none"]
    <3>1. \A w \in Workers : Grade(w)' = "none"
      BY <1>3 DEF Restart, NoRequest, Grade
    <3> QED BY <3>1 DEF GradeNow
  <2>3. BudgetNow' = [ip \in Ips |-> 0]
    <3>1. ASSUME NEW ip \in Ips PROVE Held(ip)' = 0
      <4>1. Len(failures'[ip]) = 0
        BY <1>3, EmptySeq DEF Restart
      <4>2. Trying(ip)' = {}
        BY <1>3 DEF Restart, NoRequest, Trying
      <4> QED BY <4>1, <4>2, FS_EmptySet DEF Held
    <3> QED BY <3>1 DEF BudgetNow
  <2> QED BY <2>1, <2>2, <2>3, <1>3 DEF Restart, Simulated, Access!Next, Access!Restart
<1> QED BY <1>1, <1>2, <1>3

(* What Access!vars is made of stays as it is.                             *)
LEMMA Stutter ==
    ASSUME UNCHANGED <<users, secret, spent, Open, GradeNow, BudgetNow>>
    PROVE  Simulated
BY DEF Simulated, Access!vars

LEMMA SimArrival ==
    ASSUME TypeInv, NEW w \in Workers, Arrive(w) \/ LoginForm(w)
    PROVE  Simulated
<1>0. job \in [Workers -> Request]
  BY DEF TypeInv, TypeOK
<1>1. \A v \in Workers \ {w} : job'[v] = job[v]
  BY JobStep
<1>2. job[w].pc = "idle" /\ job'[w].pc \in {"cookie", "limit"}
  <2>1. CASE Arrive(w)
    BY <2>1, <1>0 DEF Arrive, At
  <2>2. CASE LoginForm(w)
    BY <2>2, <1>0 DEF LoginForm, At, NoRequest
  <2> QED BY <2>1, <2>2
<1>3. GradeNow' = GradeNow
  BY <1>1, <1>2, GradesChange DEF Grade
<1>4. UNCHANGED <<failures, sessions, spent, users, secret>>
  BY DEF Arrive, LoginForm
<1>5. \A i \in Ips : failures'[i] = failures[i] /\ Trying(i)' = Trying(i)
  BY <1>1, <1>2, <1>4, SameTrying
<1>6. BudgetNow' = BudgetNow
  BY <1>5, SameBudget
<1> QED BY <1>3, <1>4, <1>6, Stutter DEF Open

LEMMA SimSession ==
    ASSUME TypeInv, Rights, NEW w \in Workers, ValidateSession(w)
    PROVE  Simulated
<1> DEFINE t == job[w].cookie
           s == sessions[t]
           live == s # None /\ s.left > 0
<1>0. /\ job \in [Workers -> Request] /\ sessions \in [Tokens -> Session \cup {None}]
      /\ job[w].pc = "cookie" /\ t \in Tokens /\ s \in Session \cup {None}
      /\ (s # None => s.admin)
  BY DEF TypeInv, TypeOK, Addressed, Rights, ValidateSession, At
<1>1. /\ \A v \in Workers \ {w} : job'[v] = job[v]
      /\ job'[w].pc \notin {"verify", "record"}
  <2>1. ~Verify(w)
    BY <1>0 DEF Verify, At
  <2> QED BY <2>1, JobStep
<1>2. BudgetNow' = BudgetNow
  <2>1. UNCHANGED failures
    BY DEF ValidateSession
  <2>2. \A i \in Ips : failures'[i] = failures[i] /\ Trying(i)' = Trying(i)
    BY <1>0, <1>1, <2>1, SameTrying
  <2> QED BY <2>2, SameBudget
<1>3. UNCHANGED <<spent, users, secret>>
  BY DEF ValidateSession
<1>4. Grade(w) = "none"
  BY <1>0 DEF Grade
<1>5. sessions' = [sessions EXCEPT ![t] =
             IF live THEN [s EXCEPT !.left = SessionTTL] ELSE None]
  BY DEF ValidateSession
<1>6. live => Open' = Open
  <2>1. live => [s EXCEPT !.left = SessionTTL] \in Session /\ s # None
    BY <1>0, LimitAssumption DEF Session
  <2>2. live => [s EXCEPT !.left = SessionTTL] # None
    BY <2>1, RowAssumption
  <2> HIDE DEF live, s
  <2> QED BY <1>0, <1>5, <2>1, <2>2 DEF Open, s
<1>7. Open' \in SUBSET Open
  <2>1. CASE live
    BY <2>1, <1>6
  <2>2. CASE ~live
    <3> HIDE DEF live, s
    <3> QED BY <2>2, <1>0, <1>5 DEF Open
  <2> QED BY <2>1, <2>2
<1>8. CASE live /\ job' = [job EXCEPT ![w] = [NoRequest EXCEPT
                   !.pc = "granted", !.need = job[w].need, !.admin = s.admin]]
  <2>1. job'[w].pc = "granted" /\ job'[w].admin = s.admin
    BY <1>8, <1>0 DEF NoRequest
  <2>2. Grade(w)' = "admin"
    BY <2>1, <1>8, <1>0 DEF Grade
  <2>3. GradeNow[w] = "none" /\ GradeNow' = [GradeNow EXCEPT ![w] = "admin"]
    BY <1>1, <1>4, <2>2, GradesChange
  <2>4. Open # {} /\ Open' = Open
    BY <1>0, <1>6, <1>8 DEF Open
  <2> QED BY <2>3, <2>4, <1>2, <1>3 DEF Simulated, Access!Next, Access!AdmitSession
<1>9. CASE Finish(w) \/ job' = [job EXCEPT ![w].pc = "limit", ![w].cookie = None]
  <2>1. job'[w].pc \in {"idle", "limit"}
    <3>1. CASE Finish(w)
      BY <3>1, <1>0 DEF Finish, NoRequest
    <3>2. CASE job' = [job EXCEPT ![w].pc = "limit", ![w].cookie = None]
      <4>1. job[w] \in Request /\ job'[w] = [job[w] EXCEPT !.pc = "limit", !.cookie = None]
        BY <3>2, <1>0
      <4> QED BY <4>1 DEF Request
    <3> QED BY <1>9, <3>1, <3>2
  <2>2. Grade(w)' = "none"
    BY <2>1 DEF Grade
  <2>3. GradeNow' = GradeNow
    BY <2>2, <1>1, <1>4, GradesChange
  <2> QED BY <2>3, <1>2, <1>3, <1>7 DEF Simulated, Access!Next, Access!Close
<1> QED BY <1>8, <1>9 DEF ValidateSession

LEMMA SimCheck ==
    ASSUME TypeInv, TypeInv', HeldBounded, HeldBounded', NEW w \in Workers, CheckLimit(w)
    PROVE  Simulated
<1>0. job \in [Workers -> Request] /\ job[w].pc = "limit" /\ job[w].ip \in Ips
  BY DEF TypeInv, TypeOK, Addressed, CheckLimit, At
<1>1. UNCHANGED <<failures, sessions, spent, users, secret>>
  BY DEF CheckLimit
<1>2. Open' = Open
  BY <1>1 DEF Open
<1>3. CASE Finish(w)
  <2>1. job'[w].pc = "idle" /\ \A v \in Workers \ {w} : job'[v] = job[v]
    BY <1>0, <1>3 DEF Finish, NoRequest
  <2>2. GradeNow' = GradeNow
    BY <1>0, <2>1, GradesChange DEF Grade
  <2>3. \A i \in Ips : failures'[i] = failures[i] /\ Trying(i)' = Trying(i)
    BY <1>0, <1>1, <2>1, SameTrying
  <2> QED BY <1>1, <1>2, <2>2, <2>3, SameBudget, Stutter
<1>4. CASE Goto(w, "verify") /\ ~Limited(failures[job[w].ip])
  <2>0. PICK ip \in Ips : ip = job[w].ip
    BY <1>0
  <2>1. /\ job'[w].pc = "verify" /\ job'[w].ip = ip
        /\ \A v \in Workers \ {w} : job'[v] = job[v]
    BY <2>0, <1>0, <1>4 DEF Goto, Request
  <2>2. GradeNow' = GradeNow
    BY <1>0, <2>1, GradesChange DEF Grade
  <2>3. /\ w \in Workers \ Trying(ip) /\ Trying(ip)' = Trying(ip) \cup {w}
        /\ \A i \in Ips \ {ip} : Trying(i)' = Trying(i)
    BY <2>0, <1>0, <2>1 DEF Trying
  <2>4. Cardinality(Trying(ip)') = Cardinality(Trying(ip)) + 1
    BY ZenonT(60), <2>3, <1>0, Numbers, FS_AddElement
  <2>5. Held(ip)' = Held(ip) + 1
    BY <2>4, <1>0, <1>1, Numbers DEF Held
  <2>6. Held(ip)' <= Capacity
    BY <1>0 DEF HeldBounded, Capacity
  <2>7. Held(ip) \in Nat
    BY <1>0, Numbers DEF Held
  <2>8. BudgetNow' = [BudgetNow EXCEPT ![ip] = Held(ip)'] /\ BudgetNow[ip] = Held(ip)
    BY <1>0, <1>1, <2>3, BudgetChange
  <2>9. BudgetNow[ip] < Capacity /\ BudgetNow' = [BudgetNow EXCEPT ![ip] = @ + 1]
    BY <2>5, <2>6, <2>7, <2>8, <1>0, Numbers
  <2> QED BY <2>2, <2>9, <1>0, <1>1, <1>2 DEF Simulated, Access!Next, Access!Charge
<1> QED BY <1>3, <1>4 DEF CheckLimit

(* The password is checked in one step: right, it admits the request at    *)
(* once; wrong, nothing changes but what will be recorded.                 *)
LEMMA SimVerify ==
    ASSUME TypeInv, TypeInv', Rights, NEW w \in Workers, Verify(w)
    PROVE  Simulated
<1> DEFINE right == Configured(job[w]) \/ Owned(job[w]) # {}
           adm == Configured(job[w]) \/ \E i \in Owned(job[w]) : users[i].admin
<1>0. /\ job \in [Workers -> Request] /\ job[w] \in Request
      /\ job[w].pc = "verify" /\ job[w].ip \in Ips
      /\ job[w].name \in Names /\ job[w].secret \in Secrets
  BY DEF TypeInv, TypeOK, Addressed, Verify, At, Rights, RightOf
<1>1. UNCHANGED <<failures, sessions, spent, users, secret>>
  BY DEF Verify
<1>2. Open' = Open
  BY <1>1 DEF Open
<1>3. /\ job'[w].pc = IF right THEN "clear" ELSE "record"
      /\ job'[w].admin = adm /\ job'[w].ip = job[w].ip
      /\ \A v \in Workers \ {w} : job'[v] = job[v]
  <2>1. job' = [job EXCEPT ![w] = [job[w] EXCEPT
         !.pc = IF right THEN "clear" ELSE "record",
         !.admin = adm, !.name = None, !.secret = None]]
    BY DEF Verify
  <2> HIDE DEF right, adm
  <2>2. job'[w] = [job[w] EXCEPT !.pc = IF right THEN "clear" ELSE "record",
         !.admin = adm, !.name = None, !.secret = None]
        /\ \A v \in Workers \ {w} : job'[v] = job[v]
    BY <2>1, <1>0
  <2> QED BY <2>2, <1>0 DEF Request
<1>4. Access!Worth(job[w].name, job[w].secret) =
        IF adm THEN "admin" ELSE IF right THEN "user" ELSE "none"
  BY DEF Access!Worth, Configured, Owned
<1>5. adm => right
  OBVIOUS
<1>6. GradeNow[w] = "none" /\ GradeNow' = [GradeNow EXCEPT ![w] = Grade(w)']
  BY <1>0, <1>3, GradesChange DEF Grade
<1> HIDE DEF right, adm
<1>7. CASE right
  <2>1. Grade(w)' = Access!Worth(job[w].name, job[w].secret) /\ Grade(w)' # "none"
    BY <1>3, <1>4, <1>5, <1>7 DEF Grade
  <2>2. PICK ip \in Ips : ip = job[w].ip
    BY <1>0
  <2>3. Trying(ip)' \subseteq Trying(ip) /\ \A i \in Ips \ {ip} : Trying(i)' = Trying(i)
    BY <2>2, <1>0, <1>3, <1>7 DEF Trying
  <2>4. Held(ip)' \in 0..Held(ip) /\ Held(ip) \in Nat
    <3>1. Cardinality(Trying(ip)') <= Cardinality(Trying(ip))
          /\ Cardinality(Trying(ip)') \in Nat
      BY <2>3, Numbers, FS_Subset, FS_CardinalityType
    <3> QED BY <3>1, <1>1, Numbers DEF Held
  <2>5. BudgetNow' = [BudgetNow EXCEPT ![ip] = Held(ip)'] /\ BudgetNow[ip] = Held(ip)
    BY <2>3, <1>1, BudgetChange
  <2>6. \E i \in Ips : \E n \in 0..BudgetNow[i] : BudgetNow' = [BudgetNow EXCEPT ![i] = n]
    BY <2>4, <2>5
  <2>7. \E name \in Names, pass \in Secrets :
         /\ Access!Worth(name, pass) # "none"
         /\ GradeNow' = [GradeNow EXCEPT ![w] = Access!Worth(name, pass)]
    BY <2>1, <1>0, <1>6
  <2>8. Access!Admit(w)
    BY <2>6, <2>7, <1>1, <1>2, <1>6 DEF Access!Admit
  <2> QED BY <2>8 DEF Simulated, Access!Next
<1>8. CASE ~right
  <2>1. Grade(w)' = Grade(w)
    BY <1>0, <1>3, <1>8 DEF Grade
  <2>2. \A i \in Ips : failures'[i] = failures[i] /\ Trying(i)' = Trying(i)
    BY <1>0, <1>1, <1>3, <1>8 DEF Trying
  <2> QED BY <2>1, <2>2, <1>1, <1>2, <1>3, GradesChange, SameBudget, Stutter
<1> QED BY <1>7, <1>8

LEMMA SimRecord ==
    ASSUME TypeInv, NEW w \in Workers, RecordFailure(w)
    PROVE  Simulated
<1>1. /\ job'[w].pc = "idle" /\ job[w].pc = "record"
      /\ \A v \in Workers \ {w} : job'[v] = job[v]
  BY DEF TypeInv, TypeOK, RecordFailure, At, Finish, NoRequest
<1>2. GradeNow' = GradeNow
  BY <1>1, GradesChange DEF Grade
<1>3. BudgetNow' = BudgetNow
  BY HeldRecord DEF BudgetNow
<1> QED BY <1>2, <1>3, Stutter DEF RecordFailure, Open

LEMMA SimClear ==
    ASSUME TypeInv, TypeInv', NEW w \in Workers, ClearFailures(w)
    PROVE  Simulated
<1>0. /\ job \in [Workers -> Request] /\ job[w] \in Request
      /\ job[w].pc = "clear" /\ job[w].ip \in Ips
      /\ failures \in [Ips -> Seq(0..(Window - 1))]
  BY DEF TypeInv, TypeOK, Addressed, ClearFailures, At
<1>1. UNCHANGED <<sessions, spent, users, secret>>
  BY DEF ClearFailures
<1>2. PICK ip \in Ips : ip = job[w].ip
  BY <1>0
<1>3. /\ \A v \in Workers \ {w} : job'[v] = job[v]
      /\ job'[w].pc \notin {"verify", "record"}
  BY <1>0, JobStep DEF Verify, At
<1>4. Grade(w)' = Grade(w) \/ Grade(w)' = "none"
  <2>1. CASE Finish(w)
    BY <2>1, <1>0 DEF Finish, NoRequest, Grade
  <2>2. ASSUME NEW pc \in {"session", "granted"}, Goto(w, pc)
        PROVE  Grade(w)' = Grade(w)
    <3>1. job'[w].pc = pc /\ job'[w].admin = job[w].admin
      BY <2>2, <1>0 DEF Goto, Request
    <3> QED BY <3>1, <1>0 DEF Grade
  <2> QED BY <2>1, <2>2 DEF ClearFailures
<1>5. GradeNow[w] = Grade(w) /\ Grade(w) # "none"
  BY <1>0, <1>3, GradesChange DEF Grade
<1>6. GradeNow' \in {GradeNow, [GradeNow EXCEPT ![w] = "none"]}
  BY <1>3, <1>4, GradesChange
<1>7. \A i \in Ips : Trying(i)' = Trying(i)
  BY <1>0, <1>3, SameTrying
<1>8. failures'[ip] = <<>> /\ \A i \in Ips \ {ip} : failures'[i] = failures[i]
  BY <1>0, <1>2 DEF ClearFailures
<1>9. BudgetNow' = [BudgetNow EXCEPT ![ip] = Held(ip)'] /\ BudgetNow[ip] = Held(ip)
  BY <1>7, <1>8, BudgetChange
<1>10. Held(ip)' \in 0..Held(ip)
  <2>1. Held(ip)' = Cardinality(Trying(ip)) /\ Held(ip) = Len(failures[ip]) + Cardinality(Trying(ip))
    BY <1>7, <1>8, EmptySeq, Numbers DEF Held
  <2> QED BY <2>1, Numbers
<1>11. \E i \in Ips : \E n \in 0..BudgetNow[i] : BudgetNow' = [BudgetNow EXCEPT ![i] = n]
  BY <1>9, <1>10
<1>12. Access!Settle(w)
  BY <1>1, <1>5, <1>6, <1>11 DEF Access!Settle, Open
<1> QED BY <1>12 DEF Simulated, Access!Next

(* The end of a request that was let in.                                   *)
LEMMA SimDone ==
    ASSUME TypeInv, Rights, NEW w \in Workers,
           \/ CreateSession(w) \/ Answer(w) \/ CreateUser(w)
           \/ UpdateUser(w) \/ DeleteUser(w)
    PROVE  Simulated
<1>0. /\ job \in [Workers -> Request] /\ RightOf(job[w])
      /\ users \in [Ids -> Account \cup {None}] /\ made \in Ids
      /\ sessions \in [Tokens -> Session \cup {None}]
  BY DEF TypeInv, TypeOK, Rights
<1>1. job[w].pc \in {"session", "granted"} /\ Finish(w) /\ UNCHANGED <<failures, secret>>
  BY DEF CreateSession, Answer, CreateUser, UpdateUser, DeleteUser, At
<1>2. job'[w].pc = "idle" /\ \A v \in Workers \ {w} : job'[v] = job[v]
  BY <1>0, <1>1 DEF Finish, NoRequest
<1>3. /\ GradeNow[w] # "none" /\ GradeNow' = [GradeNow EXCEPT ![w] = "none"]
      /\ GradeNow[w] = Grade(w)
  BY <1>1, <1>2, GradesChange DEF Grade
<1>4. BudgetNow' = BudgetNow
  BY <1>1, <1>2, SameTrying, SameBudget
<1>5. CASE Answer(w)
  <2>1. UNCHANGED <<users, Open, spent>>
    BY <1>5 DEF Answer, Open
  <2> QED BY <2>1, <1>1, <1>3, <1>4 DEF Simulated, Access!Next, Access!Done
<1>6. CASE CreateSession(w)
  <2>1. GradeNow[w] = "admin"
    BY <1>0, <1>3, <1>6 DEF CreateSession, At, RightOf, Grade
  <2>2. PICK t \in Tokens \ spent :
         /\ sessions' = [sessions EXCEPT ![t] =
              [admin |-> job[w].admin, left |-> SessionTTL]]
         /\ spent' = spent \cup {t}
    BY <1>6 DEF CreateSession
  <2>3. sessions'[t] # None
    <3>1. sessions'[t] \in Session
      BY <2>2, <1>0, <1>6, LimitAssumption DEF TypeInv, TypeOK, Request, Session
    <3> QED BY <3>1, RowAssumption
  <2>4. Open' = Open \cup {t}
    BY <2>2, <2>3, <1>0 DEF Open
  <2>5. UNCHANGED users
    BY <1>6 DEF CreateSession
  <2> QED BY <2>1, <2>2, <2>4, <2>5, <1>1, <1>3, <1>4
          DEF Simulated, Access!Next, Access!Done
<1>7. CASE CreateUser(w) \/ UpdateUser(w) \/ DeleteUser(w)
  <2>1. GradeNow[w] = "admin"
    BY <1>0, <1>3, <1>7 DEF CreateUser, UpdateUser, DeleteUser, At, RightOf, Grade
  <2>2. UNCHANGED <<Open, spent>>
    BY <1>7 DEF CreateUser, UpdateUser, DeleteUser, Open
  <2>3. \E i \in Ids \ {1}, row \in Account \cup {None} : users' = [users EXCEPT ![i] = row]
    <3>1. CASE CreateUser(w)
      <4>1. PICK acc \in Account : users' = [users EXCEPT ![made + 1] = acc]
        BY <3>1 DEF CreateUser
      <4>2. made + 1 \in Ids \ {1}
        BY <1>0, <3>1, LimitAssumption DEF CreateUser, Ids
      <4> QED BY <4>1, <4>2
    <3>2. CASE UpdateUser(w)
      BY <3>2, Updated
    <3>3. CASE DeleteUser(w)
      <4>1. PICK i \in 2..made : users' = [users EXCEPT ![i] = None]
        BY <3>3 DEF DeleteUser
      <4>2. i \in Ids \ {1}
        BY <1>0, LimitAssumption DEF Ids
      <4> QED BY <4>1, <4>2
    <3> QED BY <1>7, <3>1, <3>2, <3>3
  <2> QED BY <2>1, <2>2, <2>3, <1>1, <1>3, <1>4 DEF Simulated, Access!Next, Access!Done
<1> QED BY <1>5, <1>6, <1>7

LEMMA Simulation ==
    ASSUME TypeInv, TypeInv', HeldBounded, HeldBounded', Rights, [Next]_vars
    PROVE  Simulated
<1>1. CASE Tick \/ Logout \/ Restart
  BY <1>1, SimClock
<1>2. CASE UNCHANGED vars
  BY <1>2, Stutter DEF vars, Open, GradeNow, Grade, BudgetNow, Held, Trying
<1>3. ASSUME NEW w \in Workers,
             \/ Arrive(w) \/ LoginForm(w) \/ ValidateSession(w)
             \/ CheckLimit(w) \/ Verify(w) \/ RecordFailure(w)
             \/ ClearFailures(w) \/ CreateSession(w) \/ Answer(w)
             \/ CreateUser(w) \/ UpdateUser(w) \/ DeleteUser(w)
      PROVE  Simulated
  BY <1>3, SimArrival, SimSession, SimCheck, SimVerify, SimRecord, SimClear, SimDone
<1> QED BY <1>1, <1>2, <1>3, NextStep

(* app/auth.py and the user handlers of routes_admin.py implement          *)
(* AccessPromise: rights come only from a password that is right when it   *)
(* is checked or from an administrator's open session, closed sessions     *)
(* stay closed, accounts change only at the hands of administrators and    *)
(* wrong guesses are charged before they are made.                         *)
THEOREM AccessImplemented == Spec => AccessKept
<1>1. Spec => [](TypeInv /\ HeldBounded /\ Rights)
  <2>1. TypeInv /\ Rights /\ [Next]_vars => Rights'
    BY RightsStep
  <2> QED BY <2>1, TypeInit, TypeStep, HeldInit, HeldStep, RightsInit, PTL DEF Spec
<1>2. TypeInv /\ TypeInv' /\ HeldBounded /\ HeldBounded' /\ Rights /\ [Next]_vars
        => [Access!Next]_(Access!vars)
  BY Simulation DEF Simulated
<1> QED BY <1>1, <1>2, SimInit, PTL DEF Spec, AccessKept, Access!Spec
===============================================================================
