------------------------------ MODULE AuthProofs ------------------------------
(***************************************************************************)
(* Type correctness of Auth, the bound on failed attempts and the          *)
(* distinctness of accounts, for any number of threads, addresses and      *)
(* accounts.                                                               *)
(***************************************************************************)
EXTENDS Auth, FiniteSetTheorems, SequenceTheorems, TLAPS

(* The failures of an address are in the order in which they happened.     *)
Ordered == \A ip \in Ips : \A i, k \in 1..Len(failures[ip]) :
             i <= k => failures[ip][k] <= failures[ip][i]

(* A request that shows a cookie has one, and the address of a request     *)
(* that may be counted is known.                                           *)
Addressed == \A w \in Workers :
    /\ job[w].pc = "cookie" => job[w].cookie \in Tokens
    /\ job[w].pc \in {"cookie", "limit", "verify", "record", "clear"}
         => job[w].ip \in Ips

TypeInv == TypeOK /\ Ordered /\ Addressed

(* The actions that a step may be.                                         *)
LEMMA NextStep ==
    ASSUME Next
    PROVE  \/ Tick \/ Logout \/ Restart
           \/ \E w \in Workers :
                \/ Arrive(w) \/ LoginForm(w) \/ ValidateSession(w)
                \/ CheckLimit(w) \/ Verify(w) \/ RecordFailure(w)
                \/ ClearFailures(w) \/ CreateSession(w) \/ Answer(w)
                \/ CreateUser(w) \/ UpdateUser(w) \/ DeleteUser(w)
BY DEF Next, Step

(* Ageing and pruning a list drops its expired prefix and nothing else.    *)
LEMMA PrunedPart ==
    ASSUME NEW list \in Seq(0..(Window - 1)),
           \A i, k \in 1..Len(list) : i <= k => list[k] <= list[i]
    PROVE  LET new == Pruned(Aged(list)) IN
           /\ new \in Seq(0..(Window - 1)) /\ Len(new) <= Len(list)
           /\ \A i, k \in 1..Len(new) : i <= k => new[k] <= new[i]
<1> DEFINE aged == Aged(list)
           old  == Expired(aged)
           m    == Cardinality(old)
           new  == Pruned(aged)
<1>1. Len(list) \in Nat /\ DOMAIN list = 1..Len(list)
  BY LenProperties
<1>2. \A k \in 1..Len(list) : list[k] \in 0..(Window - 1)
  BY ElementOfSeq
<1>3. /\ aged = [k \in 1..Len(list) |-> list[k] + 1] /\ aged \in Seq(Nat)
      /\ Len(aged) = Len(list) /\ DOMAIN aged = 1..Len(list)
  <2>1. aged = [k \in 1..Len(list) |-> list[k] + 1]
    BY <1>1 DEF Aged
  <2>2. \A k \in 1..Len(list) : list[k] + 1 \in Nat
    BY <1>2, LimitAssumption
  <2>3. aged \in [1..Len(list) -> Nat]
    BY <2>1, <2>2
  <2>4. aged \in Seq(Nat)
    BY <2>3, <1>1, SeqDef
  <2>5. Len(aged) \in Nat /\ DOMAIN aged = 1..Len(aged) /\ DOMAIN aged = 1..Len(list)
    BY <2>3, <2>4, LenProperties
  <2>6. Len(aged) = Len(list)
    <3>1. \A a, b \in Nat : 1..a = 1..b => a = b
      OBVIOUS
    <3> QED BY <3>1, <2>5, <1>1
  <2> QED BY <2>1, <2>4, <2>5, <2>6
<1>4. /\ old \subseteq 1..Len(list) /\ IsFiniteSet(old) /\ m \in 0..Len(list)
      /\ \A k \in 1..Len(list) : k \in old <=> list[k] + 1 >= Window
  <2>1. old \subseteq 1..Len(list)
    BY <1>3 DEF Expired
  <2>2. IsFiniteSet(1..Len(list)) /\ Cardinality(1..Len(list)) = Len(list)
    BY <1>1, FS_Interval
  <2>3. IsFiniteSet(old) /\ Cardinality(old) <= Len(list)
    BY <2>1, <2>2, FS_Subset
  <2>4. \A k \in 1..Len(list) : k \in old <=> list[k] + 1 >= Window
    BY <1>3 DEF Expired
  <2> QED BY <2>1, <2>3, <2>4, <1>1, FS_CardinalityType
<1>5. new = SubSeq(aged, m + 1, Len(list))
  BY <1>3 DEF Pruned
<1> HIDE DEF aged, old, m, new
<1>6. ASSUME NEW k \in 1..Len(list), k > m
      PROVE  list[k] + 1 < Window
  <2> SUFFICES ASSUME list[k] + 1 >= Window PROVE FALSE
    BY <1>1, <1>2, LimitAssumption
  <2>1. 1..k \subseteq old
    <3> SUFFICES ASSUME NEW i \in 1..k PROVE i \in old
      OBVIOUS
    <3>1. i \in 1..Len(list) /\ i <= k
      BY <1>1
    <3>2. list[k] <= list[i]
      BY <3>1
    <3>3. list[i] + 1 >= Window
      BY <1>2, <3>1, <3>2, LimitAssumption
    <3> QED BY <3>1, <3>3, <1>4
  <2>2. IsFiniteSet(1..k) /\ Cardinality(1..k) = k
    <3>1. 1 \in Int /\ k \in Int /\ 1 <= k
      BY <1>1
    <3> QED BY <3>1, FS_Interval
  <2>3. k <= m
    BY <2>1, <2>2, <1>4, FS_Subset DEF m
  <2> QED BY <2>3, <1>4, <1>6
<1>7. \A k \in 1..Len(list) : aged[k] = list[k] + 1
  BY <1>3
<1>8. \A k \in (m + 1)..Len(list) : aged[k] \in 0..(Window - 1)
  <2> TAKE k \in (m + 1)..Len(list)
  <2>1. k \in 1..Len(list) /\ k > m
    BY <1>4, <1>1
  <2> QED BY <2>1, <1>2, <1>6, <1>7, LimitAssumption
<1>9. /\ new \in Seq(0..(Window - 1))
      /\ Len(new) = IF m + 1 <= Len(list) THEN Len(list) - (m + 1) + 1 ELSE 0
      /\ \A i \in 1..(Len(list) - (m + 1) + 1) : new[i] = aged[m + 1 + i - 1]
  <2>1. m + 1 \in Int /\ Len(list) \in Int
    BY <1>1, <1>4
  <2> QED BY <2>1, <1>5, <1>8, SubSeqProperties
<1>10. Len(new) = Len(list) - m
  <2>1. Len(list) \in Int /\ m \in Int /\ m <= Len(list)
    BY <1>1, <1>4
  <2>2. \A a, b \in Int : b <= a => (IF b + 1 <= a THEN a - (b + 1) + 1 ELSE 0) = a - b
    OBVIOUS
  <2> QED BY <2>1, <2>2, <1>9
<1>11. ASSUME NEW i \in 1..Len(new), NEW k \in 1..Len(new), i <= k
       PROVE  new[k] <= new[i]
  <2>1. /\ i + m \in 1..Len(list) /\ k + m \in 1..Len(list) /\ i + m <= k + m
        /\ m + 1 + i - 1 = i + m /\ m + 1 + k - 1 = k + m
        /\ i \in 1..(Len(list) - (m + 1) + 1) /\ k \in 1..(Len(list) - (m + 1) + 1)
    BY <1>1, <1>4, <1>10, <1>11
  <2>2. list[k + m] <= list[i + m]
    BY <2>1
  <2>3. new[i] = list[i + m] + 1 /\ new[k] = list[k + m] + 1
    BY <2>1, <1>7, <1>9
  <2>4. list[i + m] \in Int /\ list[k + m] \in Int
    BY <2>1, <1>2, LimitAssumption
  <2> QED BY <2>2, <2>3, <2>4
<1>12. Len(new) <= Len(list)
  BY <1>1, <1>4, <1>10
<1> QED BY <1>9, <1>11, <1>12 DEF new, aged

-------------------------------------------------------------------------------
(* Type correctness                                                        *)

LEMMA NoRequestType == NoRequest \in Request /\ NoRequest.pc = "idle"
BY DEF NoRequest, Request

LEMMA TypeInit == Init => TypeInv
<1> SUFFICES ASSUME Init PROVE TypeInv
  OBVIOUS
<1>1. failures \in [Ips -> Seq(0..(Window - 1))] /\ Ordered
  <2>1. \A ip \in Ips : failures[ip] = <<>>
    BY DEF Init, Fresh
  <2>2. <<>> \in Seq(0..(Window - 1)) /\ Len(<<>>) = 0
    BY EmptySeq
  <2> QED BY <2>1, <2>2 DEF Init, Fresh, Ordered
<1>2. job \in [Workers -> Request] /\ Addressed
  BY NoRequestType DEF Init, Fresh, Addressed
<1>3. users \in [Ids -> Account \cup {None}]
  BY MasterAssumption, LimitAssumption DEF Init, Account
<1>4. sessions \in [Tokens -> Session \cup {None}]
  BY DEF Init, Fresh
<1>5. made \in Ids
  BY LimitAssumption DEF Init, Ids
<1> QED BY <1>1, <1>2, <1>3, <1>4, <1>5, MasterAssumption DEF Init, TypeInv, TypeOK

(* What a worker's request becomes is all that may break the job's type.   *)
LEMMA SetJob ==
    ASSUME job \in [Workers -> Request], Addressed, NEW w \in Workers,
           NEW r \in Request, job' = [job EXCEPT ![w] = r],
           r.pc = "cookie" => r.cookie \in Tokens,
           r.pc \in {"cookie", "limit", "verify", "record", "clear"} => r.ip \in Ips
    PROVE  job' \in [Workers -> Request] /\ Addressed'
<1>1. job' \in [Workers -> Request]
  OBVIOUS
<1>2. job'[w] = r /\ \A v \in Workers \ {w} : job'[v] = job[v]
  OBVIOUS
<1> QED BY <1>1, <1>2 DEF Addressed

LEMMA FinishType ==
    ASSUME job \in [Workers -> Request], Addressed, NEW w \in Workers, Finish(w)
    PROVE  job' \in [Workers -> Request] /\ Addressed'
BY SetJob, NoRequestType DEF Finish

LEMMA GotoType ==
    ASSUME job \in [Workers -> Request], Addressed, NEW w \in Workers,
           NEW pc \in {"limit", "verify", "clear", "record", "session", "granted"},
           pc \in {"limit", "verify", "record", "clear"} => job[w].ip \in Ips,
           Goto(w, pc)
    PROVE  job' \in [Workers -> Request] /\ Addressed'
<1> DEFINE r == [job[w] EXCEPT !.pc = pc]
<1>1. r \in Request /\ r.pc = pc /\ r.ip = job[w].ip
  BY DEF Request
<1>2. job' = [job EXCEPT ![w] = r]
  BY DEF Goto
<1> HIDE DEF r
<1> QED BY <1>1, <1>2, SetJob

(* The failure lists keep their type and their order when a failure is     *)
(* added to one of them or one of them is emptied.                         *)
LEMMA SetFailures ==
    ASSUME failures \in [Ips -> Seq(0..(Window - 1))], Ordered, NEW ip \in Ips,
           \/ failures' = [failures EXCEPT ![ip] = Append(@, 0)]
           \/ failures' = [failures EXCEPT ![ip] = <<>>]
    PROVE  failures' \in [Ips -> Seq(0..(Window - 1))] /\ Ordered'
<1> DEFINE S == 0..(Window - 1)
           old == failures[ip]
           new == failures'[ip]
<1>1. old \in Seq(S) /\ 0 \in S /\ \A k \in S : k \in Nat /\ 0 <= k
  BY LimitAssumption
<1>2. \A i, k \in 1..Len(old) : i <= k => old[k] <= old[i]
  BY DEF Ordered
<1>3. \A i \in Ips \ {ip} : failures'[i] = failures[i]
  OBVIOUS
<1>4. new = Append(old, 0) \/ new = <<>>
  OBVIOUS
<1>5. failures' = [failures EXCEPT ![ip] = new]
  OBVIOUS
<1> HIDE DEF S, old, new
<1>6. CASE new = <<>>
  <2>1. new \in Seq(S) /\ Len(new) = 0
    BY <1>6, EmptySeq
  <2>2. \A i, k \in 1..Len(new) : i <= k => new[k] <= new[i]
    BY <2>1
  <2>3. failures' \in [Ips -> Seq(S)]
    BY <2>1, <1>5 DEF S
  <2> QED BY <2>2, <2>3, <1>3 DEF S, new, Ordered
<1>7. CASE new = Append(old, 0)
  <2>1. /\ new \in Seq(S) /\ Len(new) = Len(old) + 1
        /\ \A i \in 1..Len(old) : new[i] = old[i]
        /\ new[Len(old) + 1] = 0
    BY <1>1, <1>7, AppendProperties
  <2>2. Len(old) \in Nat /\ \A i \in 1..Len(old) : old[i] \in S
    BY <1>1, LenProperties, ElementOfSeq
  <2>3. ASSUME NEW i \in 1..Len(new), NEW k \in 1..Len(new), i <= k
        PROVE  new[k] <= new[i]
    <3>1. CASE k <= Len(old)
      <4>1. i \in 1..Len(old) /\ k \in 1..Len(old)
        BY <2>1, <2>2, <2>3, <3>1
      <4> QED BY <4>1, <2>1, <2>3, <1>2
    <3>2. CASE k = Len(old) + 1
      <4>1. new[i] \in S
        <5>1. i \in 1..Len(old) \/ i = Len(old) + 1
          BY <2>1, <2>2
        <5> QED BY <5>1, <2>1, <2>2, <1>1
      <4> QED BY <4>1, <2>1, <3>2, <1>1
    <3> QED BY <3>1, <3>2, <2>1, <2>2
  <2>4. failures' \in [Ips -> Seq(S)]
    BY <2>1, <1>5 DEF S
  <2> QED BY <2>3, <2>4, <1>3 DEF S, new, Ordered
<1> QED BY <1>4, <1>6, <1>7

LEMMA TickType == TypeInv /\ Tick => TypeInv'
<1> SUFFICES ASSUME TypeInv, Tick PROVE TypeInv'
  OBVIOUS
<1>1. ASSUME NEW ip \in Ips
      PROVE  LET new == Pruned(Aged(failures[ip])) IN
             /\ new \in Seq(0..(Window - 1))
             /\ \A i, k \in 1..Len(new) : i <= k => new[k] <= new[i]
  <2>1. /\ failures[ip] \in Seq(0..(Window - 1))
        /\ \A i, k \in 1..Len(failures[ip]) :
             i <= k => failures[ip][k] <= failures[ip][i]
    BY DEF TypeInv, TypeOK, Ordered
  <2> QED BY <2>1, PrunedPart
<1>2. failures' = [i \in Ips |-> Pruned(Aged(failures[i]))]
  BY DEF Tick
<1>3. failures' \in [Ips -> Seq(0..(Window - 1))] /\ Ordered'
  BY <1>1, <1>2 DEF Ordered
<1>4. sessions' \in [Tokens -> Session \cup {None}]
  <2> SUFFICES ASSUME NEW t \in Tokens PROVE sessions'[t] \in Session \cup {None}
    BY DEF Tick
  <2>1. CASE sessions[t] = None \/ sessions[t].left = 0
    BY <2>1 DEF Tick, TypeInv, TypeOK
  <2>2. CASE ~(sessions[t] = None \/ sessions[t].left = 0)
    <3>1. sessions[t] \in Session /\ sessions[t].left # 0
      BY <2>2 DEF TypeInv, TypeOK
    <3>2. sessions'[t] = [sessions[t] EXCEPT !.left = @ - 1]
      BY <2>2 DEF Tick
    <3>3. sessions[t].left - 1 \in 0..SessionTTL
      BY <3>1, LimitAssumption DEF Session
    <3> QED BY <3>1, <3>2, <3>3 DEF Session
  <2> QED BY <2>1, <2>2
<1> QED BY <1>3, <1>4 DEF Tick, TypeInv, TypeOK, Addressed

LEMMA ArriveType == ASSUME TypeInv, NEW w \in Workers, Arrive(w) PROVE TypeInv'
<1>1. PICK need \in {"any", "admin"}, ip \in Ips, cookie \in spent \cup {None},
          name \in Names \cup {None}, pass \in Secrets \cup {None} :
        /\ (name = None) = (pass = None)
        /\ name # None \/ cookie # None
        /\ job' = [job EXCEPT ![w] =
              [pc |-> IF cookie = None THEN "limit" ELSE "cookie",
               need |-> need, name |-> name, secret |-> pass,
               cookie |-> cookie, ip |-> ip, admin |-> FALSE]]
  BY DEF Arrive
<1> DEFINE r == [pc |-> IF cookie = None THEN "limit" ELSE "cookie",
               need |-> need, name |-> name, secret |-> pass,
               cookie |-> cookie, ip |-> ip, admin |-> FALSE]
<1>2. cookie \in Tokens \cup {None}
  BY DEF TypeInv, TypeOK
<1>3. r \in Request /\ (r.pc = "cookie" => r.cookie \in Tokens) /\ r.ip \in Ips
  BY <1>2 DEF Request
<1>4. job' = [job EXCEPT ![w] = r]
  BY <1>1
<1> HIDE DEF r
<1>5. job' \in [Workers -> Request] /\ Addressed'
  BY <1>3, <1>4, SetJob DEF TypeInv, TypeOK
<1> QED BY <1>5 DEF Arrive, TypeInv, TypeOK, Ordered

LEMMA LoginFormType == ASSUME TypeInv, NEW w \in Workers, LoginForm(w) PROVE TypeInv'
<1>1. PICK ip \in Ips, name \in Names, pass \in Secrets :
        job' = [job EXCEPT ![w] =
           [NoRequest EXCEPT !.pc = "limit", !.need = "login", !.ip = ip,
                             !.name = name, !.secret = pass]]
  BY DEF LoginForm
<1> DEFINE r == [NoRequest EXCEPT !.pc = "limit", !.need = "login", !.ip = ip,
                             !.name = name, !.secret = pass]
<1>2. r \in Request /\ r.pc = "limit" /\ r.ip \in Ips
  BY DEF Request, NoRequest
<1>3. job' = [job EXCEPT ![w] = r]
  BY <1>1
<1> HIDE DEF r
<1>4. job' \in [Workers -> Request] /\ Addressed'
  BY <1>2, <1>3, SetJob DEF TypeInv, TypeOK
<1> QED BY <1>4 DEF LoginForm, TypeInv, TypeOK, Ordered

LEMMA ValidateSessionType ==
    ASSUME TypeInv, NEW w \in Workers, ValidateSession(w) PROVE TypeInv'
<1> DEFINE t == job[w].cookie
           s == sessions[t]
           live == s # None /\ s.left > 0
<1>1. /\ job[w] \in Request /\ job[w].pc = "cookie" /\ t \in Tokens
      /\ job[w].ip \in Ips /\ s \in Session \cup {None}
  BY DEF ValidateSession, At, TypeInv, TypeOK, Addressed
<1>2. sessions' \in [Tokens -> Session \cup {None}]
  <2>1. live => [s EXCEPT !.left = SessionTTL] \in Session
    BY <1>1, LimitAssumption DEF Session
  <2>2. sessions' = [sessions EXCEPT ![t] =
             IF live THEN [s EXCEPT !.left = SessionTTL] ELSE None]
    BY DEF ValidateSession
  <2> HIDE DEF live, s, t
  <2> QED BY <2>1, <2>2, <1>1 DEF TypeInv, TypeOK
<1>3. job' \in [Workers -> Request] /\ Addressed'
  <2> DEFINE r1 == [NoRequest EXCEPT !.pc = "granted", !.need = job[w].need,
                                     !.admin = s.admin]
             r2 == [job[w] EXCEPT !.pc = "limit", !.cookie = None]
  <2>1. CASE live /\ job' = [job EXCEPT ![w] = r1]
    <3>1. r1 \in Request /\ r1.pc = "granted"
      BY <1>1, <2>1 DEF Request, NoRequest, Session
    <3>2. job' = [job EXCEPT ![w] = r1]
      BY <2>1
    <3> HIDE DEF r1
    <3> QED BY <3>1, <3>2, SetJob DEF TypeInv, TypeOK
  <2>2. CASE job' = [job EXCEPT ![w].pc = "limit", ![w].cookie = None]
    <3>1. r2 \in Request /\ r2.pc = "limit" /\ r2.ip \in Ips
      BY <1>1 DEF Request
    <3>2. job' = [job EXCEPT ![w] = r2]
      BY <2>2, <1>1 DEF TypeInv, TypeOK
    <3> HIDE DEF r2
    <3> QED BY <3>1, <3>2, SetJob DEF TypeInv, TypeOK
  <2>3. CASE Finish(w)
    BY <2>3, FinishType DEF TypeInv, TypeOK
  <2>4. \/ live /\ job' = [job EXCEPT ![w] = r1]
        \/ job' = [job EXCEPT ![w].pc = "limit", ![w].cookie = None]
        \/ Finish(w)
    BY DEF ValidateSession
  <2> QED BY <2>1, <2>2, <2>3, <2>4
<1> QED BY <1>2, <1>3 DEF ValidateSession, TypeInv, TypeOK, Ordered

LEMMA CheckLimitType == ASSUME TypeInv, NEW w \in Workers, CheckLimit(w) PROVE TypeInv'
<1>1. job[w].ip \in Ips
  BY DEF CheckLimit, At, TypeInv, Addressed
<1>2. Finish(w) \/ Goto(w, "verify")
  BY DEF CheckLimit
<1>3. job' \in [Workers -> Request] /\ Addressed'
  BY <1>1, <1>2, FinishType, GotoType DEF TypeInv, TypeOK
<1> QED BY <1>3 DEF CheckLimit, TypeInv, TypeOK, Ordered

LEMMA VerifyType == ASSUME TypeInv, NEW w \in Workers, Verify(w) PROVE TypeInv'
<1> DEFINE j == job[w]
           pc == IF Configured(j) \/ Owned(j) # {} THEN "clear" ELSE "record"
           adm == Configured(j) \/ \E i \in Owned(j) : users[i].admin
           r == [j EXCEPT !.pc = pc, !.admin = adm, !.name = None, !.secret = None]
<1>1. j \in Request /\ j.ip \in Ips
  BY DEF Verify, At, TypeInv, TypeOK, Addressed
<1>2. pc \in {"clear", "record"} /\ adm \in BOOLEAN
  <2>1. pc \in {"clear", "record"}
    OBVIOUS
  <2>2. adm \in BOOLEAN
    OBVIOUS
  <2> QED BY <2>1, <2>2
<1>3. job' = [job EXCEPT ![w] = r]
  BY DEF Verify
<1> HIDE DEF j, pc, adm
<1>4. r \in Request /\ r.pc = pc /\ r.ip \in Ips
  BY <1>1, <1>2 DEF Request
<1> HIDE DEF r
<1>5. job' \in [Workers -> Request] /\ Addressed'
  BY <1>2, <1>3, <1>4, SetJob DEF TypeInv, TypeOK
<1> QED BY <1>5 DEF Verify, TypeInv, TypeOK, Ordered

LEMMA RecordFailureType ==
    ASSUME TypeInv, NEW w \in Workers, RecordFailure(w) PROVE TypeInv'
<1>1. job[w].ip \in Ips
  BY DEF RecordFailure, At, TypeInv, Addressed
<1>2. failures' \in [Ips -> Seq(0..(Window - 1))] /\ Ordered'
  BY <1>1, SetFailures DEF RecordFailure, TypeInv, TypeOK
<1>3. job' \in [Workers -> Request] /\ Addressed'
  BY FinishType DEF RecordFailure, TypeInv, TypeOK
<1> QED BY <1>2, <1>3 DEF RecordFailure, TypeInv, TypeOK

LEMMA ClearFailuresType ==
    ASSUME TypeInv, NEW w \in Workers, ClearFailures(w) PROVE TypeInv'
<1>1. job[w].ip \in Ips
  BY DEF ClearFailures, At, TypeInv, Addressed
<1>2. failures' \in [Ips -> Seq(0..(Window - 1))] /\ Ordered'
  BY <1>1, SetFailures DEF ClearFailures, TypeInv, TypeOK
<1>3. Finish(w) \/ Goto(w, "session") \/ Goto(w, "granted")
  BY DEF ClearFailures
<1>4. job' \in [Workers -> Request] /\ Addressed'
  BY <1>3, FinishType, GotoType DEF TypeInv, TypeOK
<1> QED BY <1>2, <1>4 DEF ClearFailures, TypeInv, TypeOK

LEMMA CreateSessionType ==
    ASSUME TypeInv, NEW w \in Workers, CreateSession(w) PROVE TypeInv'
<1>1. job[w] \in Request
  BY DEF TypeInv, TypeOK
<1>2. PICK t \in Tokens \ spent :
        /\ sessions' = [sessions EXCEPT ![t] =
              [admin |-> job[w].admin, left |-> SessionTTL]]
        /\ spent' = spent \cup {t}
  BY DEF CreateSession
<1>3. [admin |-> job[w].admin, left |-> SessionTTL] \in Session
  BY <1>1, LimitAssumption DEF Session, Request
<1>4. sessions' \in [Tokens -> Session \cup {None}] /\ spent' \in SUBSET Tokens
  BY <1>2, <1>3 DEF TypeInv, TypeOK
<1>5. job' \in [Workers -> Request] /\ Addressed'
  BY FinishType DEF CreateSession, TypeInv, TypeOK
<1> QED BY <1>4, <1>5 DEF CreateSession, TypeInv, TypeOK, Ordered

LEMMA AnswerType == ASSUME TypeInv, NEW w \in Workers, Answer(w) PROVE TypeInv'
<1>1. job' \in [Workers -> Request] /\ Addressed'
  BY FinishType DEF Answer, TypeInv, TypeOK
<1> QED BY <1>1 DEF Answer, TypeInv, TypeOK, Ordered

LEMMA CreateUserType == ASSUME TypeInv, NEW w \in Workers, CreateUser(w) PROVE TypeInv'
<1>1. PICK acc \in Account : users' = [users EXCEPT ![made + 1] = acc]
  BY DEF CreateUser
<1>2. users' \in [Ids -> Account \cup {None}]
  BY <1>1 DEF TypeInv, TypeOK
<1>3. made' \in Ids
  BY LimitAssumption DEF CreateUser, TypeInv, TypeOK, Ids
<1>4. job' \in [Workers -> Request] /\ Addressed'
  BY FinishType DEF CreateUser, TypeInv, TypeOK
<1> QED BY <1>2, <1>3, <1>4 DEF CreateUser, TypeInv, TypeOK, Ordered

(* An update keeps the name of the one account it touches, not account 1.  *)
LEMMA Updated ==
    ASSUME TypeInv, NEW w \in Workers, UpdateUser(w)
    PROVE  \E i \in Ids \ {1}, acc \in Account :
             /\ users[i] # None /\ acc.name = users[i].name
             /\ users' = [users EXCEPT ![i] = acc]
<1>1. PICK i \in 2..made, pass \in Secrets \cup {None}, adm \in {TRUE, FALSE} :
         /\ users[i] # None
         /\ users' = [users EXCEPT ![i].secret = IF pass = None THEN @ ELSE pass,
                                   ![i].admin = adm]
  BY DEF UpdateUser
<1> DEFINE pw == IF pass = None THEN users[i].secret ELSE pass
           acc == [users[i] EXCEPT !.secret = pw, !.admin = adm]
<1>2. i \in Ids \ {1}
  BY LimitAssumption DEF TypeInv, TypeOK, Ids
<1>3. users[i] \in Account
  BY <1>1, <1>2 DEF TypeInv, TypeOK
<1>4. pw \in Secrets
  BY <1>3 DEF Account
<1>5. users' = [users EXCEPT ![i] = acc]
  BY <1>1, <1>2 DEF TypeInv, TypeOK
<1> HIDE DEF pw
<1>6. acc \in Account /\ acc.name = users[i].name
  BY <1>3, <1>4 DEF Account
<1> HIDE DEF acc
<1> QED BY <1>1, <1>2, <1>5, <1>6

LEMMA UpdateUserType == ASSUME TypeInv, NEW w \in Workers, UpdateUser(w) PROVE TypeInv'
<1>1. PICK i \in Ids \ {1}, acc \in Account : 
             /\ users[i] # None /\ acc.name = users[i].name
             /\ users' = [users EXCEPT ![i] = acc]
  BY Updated
<1>2. users' \in [Ids -> Account \cup {None}]
  BY <1>1 DEF TypeInv, TypeOK
<1>3. job' \in [Workers -> Request] /\ Addressed'
  BY FinishType DEF UpdateUser, TypeInv, TypeOK
<1> QED BY <1>2, <1>3 DEF UpdateUser, TypeInv, TypeOK, Ordered

LEMMA DeleteUserType == ASSUME TypeInv, NEW w \in Workers, DeleteUser(w) PROVE TypeInv'
<1>1. users' \in [Ids -> Account \cup {None}]
  BY DEF DeleteUser, TypeInv, TypeOK
<1>2. job' \in [Workers -> Request] /\ Addressed'
  BY FinishType DEF DeleteUser, TypeInv, TypeOK
<1> QED BY <1>1, <1>2 DEF DeleteUser, TypeInv, TypeOK, Ordered

LEMMA LogoutType == TypeInv /\ Logout => TypeInv'
BY DEF Logout, TypeInv, TypeOK, Ordered, Addressed

LEMMA RestartType == TypeInv /\ Restart => TypeInv'
<1> SUFFICES ASSUME TypeInv, Restart PROVE TypeInv'
  OBVIOUS
<1>1. <<>> \in Seq(0..(Window - 1)) /\ Len(<<>>) = 0
  BY EmptySeq
<1>2. \A ip \in Ips : failures'[ip] = <<>>
  BY DEF Restart
<1>3. failures' \in [Ips -> Seq(0..(Window - 1))] /\ Ordered'
  BY <1>1, <1>2 DEF Restart, Ordered
<1>4. job' \in [Workers -> Request] /\ Addressed'
  BY NoRequestType DEF Restart, Addressed
<1> QED BY <1>3, <1>4 DEF Restart, TypeInv, TypeOK

LEMMA TypeStep == TypeInv /\ [Next]_vars => TypeInv'
<1> SUFFICES ASSUME TypeInv, [Next]_vars PROVE TypeInv'
  OBVIOUS
<1>1. CASE UNCHANGED vars
  BY <1>1 DEF vars, TypeInv, TypeOK, Ordered, Addressed
<1>2. CASE Tick \/ Logout \/ Restart
  BY <1>2, TickType, LogoutType, RestartType
<1>3. ASSUME NEW w \in Workers,
             \/ Arrive(w) \/ LoginForm(w) \/ ValidateSession(w)
             \/ CheckLimit(w) \/ Verify(w) \/ RecordFailure(w)
             \/ ClearFailures(w) \/ CreateSession(w) \/ Answer(w)
             \/ CreateUser(w) \/ UpdateUser(w) \/ DeleteUser(w)
      PROVE  TypeInv'
  BY <1>3, ArriveType, LoginFormType, ValidateSessionType, CheckLimitType,
     VerifyType, RecordFailureType, ClearFailuresType, CreateSessionType,
     AnswerType, CreateUserType, UpdateUserType, DeleteUserType
<1> QED BY <1>1, <1>2, <1>3, NextStep

LEMMA TypeInvariant == Spec => []TypeInv
<1> QED BY TypeInit, TypeStep, PTL DEF Spec

(* app/auth.py: in every reachable state the failure lists hold only ages  *)
(* inside the window, for any number of threads, clients and accounts, and *)
(* every other variable has its type.                                      *)
THEOREM AccessTypes == Spec => []TypeOK
<1>1. TypeInv => TypeOK
  BY DEF TypeInv
<1> QED BY <1>1, TypeInvariant, PTL

-------------------------------------------------------------------------------
(* Accounts                                                                *)

(* A new row of the table takes no name that another account has.          *)
LEMMA SetAccount ==
    ASSUME users \in [Ids -> Account \cup {None}], AccountsDistinct,
           NEW i \in Ids \ {1}, NEW row,
           \/ row = None
           \/ \A k \in Ids \ {i} : users[k] # None => users[k].name # row.name,
           users' = [users EXCEPT ![i] = row]
    PROVE  AccountsDistinct'
<1>1. 1 \in Ids
  BY LimitAssumption DEF Ids
<1>2. users'[i] = row /\ \A k \in Ids \ {i} : users'[k] = users[k]
  OBVIOUS
<1>3. users'[1] = users[1]
  BY <1>1, <1>2
<1>4. ASSUME NEW a \in Ids, NEW b \in Ids, users'[a] # None, users'[b] # None, a # b
      PROVE  users'[a].name # users'[b].name
  <2>1. CASE a = i
    BY <2>1, <1>2, <1>4
  <2>2. CASE b = i
    BY <2>2, <1>2, <1>4
  <2>3. CASE a # i /\ b # i
    BY <2>3, <1>2, <1>4 DEF AccountsDistinct
  <2> QED BY <2>1, <2>2, <2>3
<1> QED BY <1>3, <1>4 DEF AccountsDistinct

LEMMA AccountsInit == Init => AccountsDistinct
<1> SUFFICES ASSUME Init PROVE AccountsDistinct
  OBVIOUS
<1>1. 1 \in Ids
  BY LimitAssumption DEF Ids
<1>2. users[1] = [name |-> Master, secret |-> FirstSecret, admin |-> TRUE]
  BY <1>1 DEF Init
<1>3. \A i \in Ids : i # 1 => users[i] = None
  BY DEF Init
<1>4. [name |-> Master, secret |-> FirstSecret, admin |-> TRUE] # None
  <2>1. [name |-> Master, secret |-> FirstSecret, admin |-> TRUE] \in Account
    BY MasterAssumption DEF Account
  <2> QED BY <2>1, RowAssumption
<1> QED BY <1>2, <1>3, <1>4 DEF AccountsDistinct

LEMMA AccountsStep == TypeInv /\ AccountsDistinct /\ [Next]_vars => AccountsDistinct'
<1> SUFFICES ASSUME TypeInv, AccountsDistinct, [Next]_vars PROVE AccountsDistinct'
  OBVIOUS
<1>0. users \in [Ids -> Account \cup {None}] /\ 1 \in Ids /\ made \in Ids
  BY LimitAssumption DEF TypeInv, TypeOK, Ids
<1>1. CASE UNCHANGED users
  BY <1>1 DEF AccountsDistinct
<1>2. ASSUME NEW w \in Workers, CreateUser(w) PROVE AccountsDistinct'
  <2>1. PICK acc \in Account :
         /\ \A i \in Ids : users[i] # None => users[i].name # acc.name
         /\ users' = [users EXCEPT ![made + 1] = acc]
    BY <1>2 DEF CreateUser
  <2>2. made + 1 \in Ids \ {1}
    BY <1>0, <1>2, LimitAssumption DEF CreateUser, Ids
  <2> QED BY <2>1, <2>2, <1>0, SetAccount
<1>3. ASSUME NEW w \in Workers, UpdateUser(w) PROVE AccountsDistinct'
  <2>1. PICK i \in Ids \ {1}, acc \in Account :
             /\ users[i] # None /\ acc.name = users[i].name
             /\ users' = [users EXCEPT ![i] = acc]
    BY <1>3, Updated
  <2>2. \A k \in Ids \ {i} : users[k] # None => users[k].name # acc.name
    BY <2>1 DEF AccountsDistinct
  <2> QED BY <2>1, <2>2, <1>0, SetAccount
<1>4. ASSUME NEW w \in Workers, DeleteUser(w) PROVE AccountsDistinct'
  <2>1. PICK i \in 2..made : users' = [users EXCEPT ![i] = None]
    BY <1>4 DEF DeleteUser
  <2>2. i \in Ids \ {1}
    BY <1>0, LimitAssumption DEF Ids
  <2> QED BY <2>1, <2>2, <1>0, SetAccount
<1>5. UNCHANGED users \/ \E w \in Workers : CreateUser(w) \/ UpdateUser(w) \/ DeleteUser(w)
  <2>1. CASE Tick \/ Logout \/ Restart
    BY <2>1 DEF Tick, Logout, Restart
  <2>2. ASSUME NEW w \in Workers,
             \/ Arrive(w) \/ LoginForm(w) \/ ValidateSession(w)
             \/ CheckLimit(w) \/ Verify(w) \/ RecordFailure(w)
             \/ ClearFailures(w) \/ CreateSession(w) \/ Answer(w)
        PROVE  UNCHANGED users
    BY <2>2 DEF Arrive, LoginForm, ValidateSession, CheckLimit, Verify,
       RecordFailure, ClearFailures, CreateSession, Answer
  <2>3. CASE UNCHANGED vars
    BY <2>3 DEF vars
  <2> QED BY <2>1, <2>2, <2>3, NextStep
<1> QED BY <1>1, <1>2, <1>3, <1>4, <1>5

(* db.py:121-136 and routes_admin.py:165-232: however the handlers of      *)
(* several administrators interleave, account 1 keeps its name and its     *)
(* rights and no two accounts share a name.                                *)
THEOREM AccountsAlwaysDistinct == Spec => []AccountsDistinct
<1> QED BY TypeInvariant, AccountsInit, AccountsStep, PTL DEF Spec

-------------------------------------------------------------------------------
(* Failed attempts                                                         *)

(* Counted with the attempts under way, the failures of an address never   *)
(* exceed the capacity: an attempt is let in only below the limit, and     *)
(* there are at most as many others under way as there are other threads.  *)
HeldBounded == \A ip \in Ips : Held(ip) <= Capacity

LEMMA Numbers ==
    ASSUME TypeInv, NEW ip \in Ips
    PROVE  /\ Len(failures[ip]) \in Nat /\ Cardinality(Trying(ip)) \in Nat
           /\ Cardinality(Workers) \in Nat /\ Capacity \in Nat
           /\ IsFiniteSet(Trying(ip)) /\ Trying(ip) \subseteq Workers
<1>1. Len(failures[ip]) \in Nat
  <2>1. failures[ip] \in Seq(0..(Window - 1))
    BY DEF TypeInv, TypeOK
  <2> QED BY <2>1, LenProperties
<1>2. Trying(ip) \subseteq Workers
  BY DEF Trying
<1>3. IsFiniteSet(Trying(ip)) /\ Cardinality(Trying(ip)) \in Nat
  BY <1>2, WorkersFinite, FS_Subset, FS_CardinalityType
<1>4. Cardinality(Workers) \in Nat
  BY WorkersFinite, FS_CardinalityType
<1> QED BY <1>1, <1>2, <1>3, <1>4, LimitAssumption DEF Capacity

(* A step that lets no attempt begin and adds no failure keeps the bound.  *)
LEMMA NoMore ==
    ASSUME TypeInv, TypeInv', HeldBounded, NEW ip \in Ips,
           Trying(ip)' \subseteq Trying(ip),
           Len(failures'[ip]) <= Len(failures[ip])
    PROVE  Held(ip)' <= Capacity
<1>1. Cardinality(Trying(ip)') <= Cardinality(Trying(ip))
  BY Numbers, FS_Subset
<1>2. Len(failures'[ip]) \in Nat /\ Cardinality(Trying(ip)') \in Nat
  <2>1. failures'[ip] \in Seq(0..(Window - 1))
    BY DEF TypeInv, TypeOK
  <2>2. Trying(ip)' \subseteq Workers
    BY DEF Trying
  <2> QED BY <2>1, <2>2, LenProperties, WorkersFinite, FS_Subset, FS_CardinalityType
<1>3. Held(ip) <= Capacity
  BY DEF HeldBounded
<1>4. /\ Held(ip) = Len(failures[ip]) + Cardinality(Trying(ip))
      /\ Held(ip)' = Len(failures'[ip]) + Cardinality(Trying(ip)')
  BY DEF Held
<1> QED BY <1>1, <1>2, <1>3, <1>4, Numbers

(* What a step of worker w does to the requests.                           *)
LEMMA JobStep ==
    ASSUME TypeInv, NEW w \in Workers,
           \/ Arrive(w) \/ LoginForm(w) \/ ValidateSession(w)
           \/ Verify(w) \/ RecordFailure(w)
           \/ ClearFailures(w) \/ CreateSession(w) \/ Answer(w)
           \/ CreateUser(w) \/ UpdateUser(w) \/ DeleteUser(w)
    PROVE  /\ \A v \in Workers \ {w} : job'[v] = job[v]
           /\ job'[w].pc \notin {"verify", "record"} \/ Verify(w)
<1>1. job \in [Workers -> Request]
  BY DEF TypeInv, TypeOK
<1>2. ASSUME Finish(w)
      PROVE  /\ \A v \in Workers \ {w} : job'[v] = job[v]
             /\ job'[w].pc \notin {"verify", "record"}
  BY <1>1, <1>2 DEF Finish, NoRequest
<1>3. ASSUME NEW pc \in {"session", "granted"}, Goto(w, pc)
      PROVE  /\ \A v \in Workers \ {w} : job'[v] = job[v]
             /\ job'[w].pc \notin {"verify", "record"}
  <2>1. job'[w] = [job[w] EXCEPT !.pc = pc] /\ \A v \in Workers \ {w} : job'[v] = job[v]
    BY <1>1, <1>3 DEF Goto
  <2>2. job[w] \in Request
    BY <1>1
  <2> QED BY <2>1, <2>2 DEF Request
<1>4. CASE Arrive(w)
  BY <1>1, <1>4 DEF Arrive
<1>5. CASE LoginForm(w)
  BY <1>1, <1>5 DEF LoginForm, NoRequest
<1>6. CASE ValidateSession(w)
  <2>1. CASE Finish(w)
    BY <2>1, <1>2
  <2>2. CASE job' = [job EXCEPT ![w] = [NoRequest EXCEPT
                   !.pc = "granted", !.need = job[w].need,
                   !.admin = sessions[job[w].cookie].admin]]
    BY <2>2, <1>1 DEF NoRequest
  <2>3. CASE job' = [job EXCEPT ![w].pc = "limit", ![w].cookie = None]
    <3>1. job[w] \in Request /\ job'[w] = [job[w] EXCEPT !.pc = "limit", !.cookie = None]
      BY <2>3, <1>1
    <3>2. \A v \in Workers \ {w} : job'[v] = job[v]
      BY <2>3, <1>1
    <3> QED BY <3>1, <3>2 DEF Request
  <2> QED BY <1>6, <2>1, <2>2, <2>3 DEF ValidateSession
<1>7. CASE Verify(w)
  BY <1>1, <1>7 DEF Verify
<1>8. CASE ClearFailures(w)
  BY <1>2, <1>3, <1>8 DEF ClearFailures
<1>9. CASE RecordFailure(w) \/ CreateSession(w) \/ Answer(w)
             \/ CreateUser(w) \/ UpdateUser(w) \/ DeleteUser(w)
  BY <1>2, <1>9 DEF RecordFailure, CreateSession, Answer, CreateUser,
     UpdateUser, DeleteUser
<1> QED BY <1>4, <1>5, <1>6, <1>7, <1>8, <1>9

LEMMA HeldInit == Init => HeldBounded
<1> SUFFICES ASSUME Init, NEW ip \in Ips PROVE Held(ip) <= Capacity
  BY DEF HeldBounded
<1>1. Len(failures[ip]) = 0
  BY EmptySeq DEF Init, Fresh
<1>2. Trying(ip) = {}
  BY DEF Init, Fresh, NoRequest, Trying
<1>3. Cardinality(Trying(ip)) = 0
  BY <1>2, FS_EmptySet
<1>4. Capacity \in Nat
  BY TypeInit, Numbers
<1> QED BY <1>1, <1>3, <1>4 DEF Held

(* Steps that neither admit an attempt nor record a failure.               *)
LEMMA HeldQuiet ==
    ASSUME TypeInv, TypeInv', HeldBounded, NEW ip \in Ips,
           \/ Tick \/ Logout \/ Restart \/ UNCHANGED vars
           \/ \E w \in Workers :
                \/ Arrive(w) \/ LoginForm(w) \/ ValidateSession(w) \/ Verify(w)
                \/ ClearFailures(w) \/ CreateSession(w) \/ Answer(w)
                \/ CreateUser(w) \/ UpdateUser(w) \/ DeleteUser(w)
    PROVE  Held(ip)' <= Capacity
<1>0. job \in [Workers -> Request] /\ failures \in [Ips -> Seq(0..(Window - 1))]
  BY DEF TypeInv, TypeOK
<1>1. CASE Tick
  <2>1. Trying(ip)' \subseteq Trying(ip)
    BY <1>1 DEF Tick, Trying
  <2>2. failures'[ip] = Pruned(Aged(failures[ip]))
    BY <1>1 DEF Tick
  <2>3. \A i, k \in 1..Len(failures[ip]) : i <= k => failures[ip][k] <= failures[ip][i]
    BY DEF TypeInv, Ordered
  <2>4. Len(failures'[ip]) <= Len(failures[ip])
    BY <2>2, <2>3, <1>0, PrunedPart
  <2> QED BY <2>1, <2>4, NoMore
<1>2. CASE Logout \/ UNCHANGED vars
  <2>1. Trying(ip)' \subseteq Trying(ip) /\ failures'[ip] = failures[ip]
    BY <1>2 DEF Logout, vars, Trying
  <2> QED BY <2>1, Numbers, NoMore
<1>3. CASE Restart
  <2>1. Trying(ip)' \subseteq Trying(ip) /\ failures'[ip] = <<>>
    BY <1>3 DEF Restart, Trying, NoRequest
  <2> QED BY <2>1, Numbers, NoMore, EmptySeq
<1>4. ASSUME NEW w \in Workers,
                \/ Arrive(w) \/ LoginForm(w) \/ ValidateSession(w) \/ Verify(w)
                \/ ClearFailures(w) \/ CreateSession(w) \/ Answer(w)
                \/ CreateUser(w) \/ UpdateUser(w) \/ DeleteUser(w)
      PROVE  Held(ip)' <= Capacity
  <2>1. /\ \A v \in Workers \ {w} : job'[v] = job[v]
        /\ job'[w].pc \notin {"verify", "record"} \/ Verify(w)
    BY <1>4, JobStep
  <2>2. ASSUME Verify(w) PROVE job[w].pc = "verify" /\ job'[w].ip = job[w].ip
    BY <2>2, <1>0 DEF Verify, At, Request
  <2>3. Trying(ip)' \subseteq Trying(ip)
    BY <2>1, <2>2 DEF Trying
  <2>4. UNCHANGED failures \/ ClearFailures(w)
    BY <1>4 DEF Arrive, LoginForm, ValidateSession, Verify, CreateSession,
       Answer, CreateUser, UpdateUser, DeleteUser
  <2>5. failures'[ip] = failures[ip] \/ failures'[ip] = <<>>
    BY <2>4, <1>0 DEF ClearFailures
  <2>6. Len(failures'[ip]) <= Len(failures[ip])
    BY <2>5, Numbers, EmptySeq
  <2> QED BY <2>3, <2>6, NoMore
<1> QED BY <1>1, <1>2, <1>3, <1>4

(* A recorded failure was an attempt under way.                            *)
LEMMA HeldRecord ==
    ASSUME TypeInv, NEW ip \in Ips,
           NEW w \in Workers, RecordFailure(w)
    PROVE  Held(ip)' = Held(ip)
<1>0. job \in [Workers -> Request] /\ failures \in [Ips -> Seq(0..(Window - 1))]
  BY DEF TypeInv, TypeOK
<1>1. job' = [job EXCEPT ![w] = NoRequest] /\ job[w].pc = "record"
  BY DEF RecordFailure, Finish, At
<1>2. Trying(ip)' = Trying(ip) \ {w}
  BY <1>0, <1>1 DEF Trying, NoRequest
<1>3. CASE ip = job[w].ip
  <2>1. w \in Trying(ip)
    BY <1>1, <1>3 DEF Trying
  <2>2. Cardinality(Trying(ip)') = Cardinality(Trying(ip)) - 1
    BY <2>1, <1>2, Numbers, FS_RemoveElement
  <2>3. failures'[ip] = Append(failures[ip], 0)
    BY <1>0, <1>3 DEF RecordFailure
  <2>4. failures[ip] \in Seq(0..(Window - 1)) /\ 0 \in 0..(Window - 1)
    BY <1>0, LimitAssumption
  <2>5. Len(failures'[ip]) = Len(failures[ip]) + 1
    BY <2>3, <2>4, AppendProperties
  <2> QED BY <2>2, <2>5, Numbers DEF Held
<1>4. CASE ip # job[w].ip
  <2>1. failures'[ip] = failures[ip]
    BY <1>0, <1>4 DEF RecordFailure
  <2>2. Trying(ip)' = Trying(ip)
    BY <1>2, <1>4 DEF Trying
  <2> QED BY <2>1, <2>2 DEF Held
<1> QED BY <1>3, <1>4

(* An attempt is let in only while fewer than MaxFailures are counted.     *)
LEMMA HeldCheck ==
    ASSUME TypeInv, TypeInv', HeldBounded, NEW ip \in Ips,
           NEW w \in Workers, CheckLimit(w)
    PROVE  Held(ip)' <= Capacity
<1>0. job \in [Workers -> Request] /\ failures'[ip] = failures[ip]
  BY DEF TypeInv, TypeOK, CheckLimit
<1>1. CASE Finish(w)
  <2>1. Trying(ip)' \subseteq Trying(ip)
    BY <1>0, <1>1 DEF Finish, Trying, NoRequest
  <2> QED BY <2>1, <1>0, Numbers, NoMore
<1>2. CASE Goto(w, "verify") /\ ~Limited(failures[job[w].ip])
  <2>1. job' = [job EXCEPT ![w].pc = "verify"]
    BY <1>2 DEF Goto
  <2>2. job'[w].ip = job[w].ip /\ \A v \in Workers \ {w} : job'[v] = job[v]
    BY <2>1, <1>0 DEF Request
  <2>3. CASE ip = job[w].ip
    <3>1. Len(failures[ip]) < MaxFailures
      BY <1>2, <2>3, Numbers, LimitAssumption DEF Limited
    <3>2. Trying(ip)' \subseteq Workers
      BY DEF Trying
    <3>3. Cardinality(Trying(ip)') <= Cardinality(Workers)
          /\ Cardinality(Trying(ip)') \in Nat
      BY <3>2, WorkersFinite, FS_Subset, FS_CardinalityType
    <3> QED BY <3>1, <3>3, <1>0, Numbers, LimitAssumption DEF Held, Capacity
  <2>4. CASE ip # job[w].ip
    <3>1. Trying(ip)' \subseteq Trying(ip)
      BY <2>2, <2>4 DEF Trying
    <3> QED BY <3>1, <1>0, Numbers, NoMore
  <2> QED BY <2>3, <2>4
<1>3. Finish(w) \/ (Goto(w, "verify") /\ ~Limited(failures[job[w].ip]))
  BY DEF CheckLimit
<1> QED BY <1>1, <1>2, <1>3

LEMMA HeldStep == TypeInv /\ TypeInv' /\ HeldBounded /\ [Next]_vars => HeldBounded'
<1> SUFFICES ASSUME TypeInv, TypeInv', HeldBounded, [Next]_vars, NEW ip \in Ips
             PROVE  Held(ip)' <= Capacity
  BY DEF HeldBounded, Capacity
<1>1. CASE Tick \/ Logout \/ Restart \/ UNCHANGED vars
  BY <1>1, HeldQuiet
<1>2. ASSUME NEW w \in Workers,
             \/ Arrive(w) \/ LoginForm(w) \/ ValidateSession(w)
             \/ CheckLimit(w) \/ Verify(w) \/ RecordFailure(w)
             \/ ClearFailures(w) \/ CreateSession(w) \/ Answer(w)
             \/ CreateUser(w) \/ UpdateUser(w) \/ DeleteUser(w)
      PROVE  Held(ip)' <= Capacity
  <2>1. CASE CheckLimit(w)
    BY <2>1, HeldCheck
  <2>2. CASE RecordFailure(w)
    BY <2>2, HeldRecord DEF HeldBounded
  <2>3. CASE ~CheckLimit(w) /\ ~RecordFailure(w)
    BY <1>2, <2>3, HeldQuiet
  <2> QED BY <2>1, <2>2, <2>3
<1> QED BY <1>1, <1>2, NextStep

(* app/auth.py:48-65: for any number of threads and any timing, an address *)
(* has at most MaxFailures failures and one more for every further thread. *)
THEOREM FailuresAlwaysBounded == Spec => []FailuresBounded
<1>1. TypeInv /\ HeldBounded => FailuresBounded
  BY Numbers DEF HeldBounded, FailuresBounded, Held
<1> QED BY <1>1, TypeInvariant, HeldInit, HeldStep, TypeInit, TypeStep, PTL DEF Spec
===============================================================================
