---------------------------- MODULE AccessPromise -----------------------------
(***************************************************************************)
(* What app/auth.py promises, without its steps: rights come only from a   *)
(* password that is right at that moment or from an open session, every    *)
(* session was opened by an administrator and stays closed once closed,    *)
(* accounts change only at the hands of administrators, and an address     *)
(* never has more than a fixed number of wrong guesses to its name.        *)
(***************************************************************************)
EXTENDS Naturals

CONSTANTS Workers, Ips, Names, Secrets, Tokens, Ids, Account, Master, None,
          Capacity   \* wrong guesses an address may have to its name

VARIABLES accounts,  \* the accounts, by id
          password,  \* the configured password of Master
          open,      \* the sessions that exist
          spent,     \* the tokens handed out so far
          grade,     \* what each worker's request is entitled to
          budget     \* wrong guesses held against each address

vars == <<accounts, password, open, spent, grade, budget>>

Grades == {"none", "user", "admin"}

Init ==
    /\ password \in Secrets
    /\ \E i \in Ids : accounts = [k \in Ids |-> IF k = i
           THEN [name |-> Master, secret |-> password, admin |-> TRUE] ELSE None]
    /\ open = {} /\ spent = {}
    /\ grade = [w \in Workers |-> "none"]
    /\ budget = [ip \in Ips |-> 0]

(* The grade a name and a password are worth now.                          *)
Worth(name, pass) ==
    LET mine == {i \in Ids : accounts[i] # None /\ accounts[i].name = name
                                                /\ accounts[i].secret = pass}
    IN  IF (name = Master /\ pass = password) \/ \E i \in mine : accounts[i].admin
        THEN "admin" ELSE IF mine # {} THEN "user" ELSE "none"

(* A request is admitted by its password; whatever the address had to its  *)
(* name may be held against it a little longer.                            *)
Admit(w) ==
    /\ grade[w] = "none"
    /\ \E name \in Names, pass \in Secrets :
         /\ Worth(name, pass) # "none"
         /\ grade' = [grade EXCEPT ![w] = Worth(name, pass)]
    /\ \E ip \in Ips : \E n \in 0..budget[ip] : budget' = [budget EXCEPT ![ip] = n]
    /\ UNCHANGED <<accounts, password, open, spent>>

(* Sessions belong to administrators.                                      *)
AdmitSession(w) ==
    /\ grade[w] = "none" /\ open # {}
    /\ grade' = [grade EXCEPT ![w] = "admin"]
    /\ UNCHANGED <<accounts, password, open, spent, budget>>

(* A guess is charged before it is made.                                   *)
Charge(ip) ==
    /\ budget[ip] < Capacity
    /\ budget' = [budget EXCEPT ![ip] = @ + 1]
    /\ UNCHANGED <<accounts, password, open, spent, grade>>

Forgive ==
    /\ budget' \in [Ips -> 0..Capacity]
    /\ \A ip \in Ips : budget'[ip] <= budget[ip]
    /\ UNCHANGED <<accounts, password, open, spent, grade>>

(* A request ends, having opened a session or changed one account if it    *)
(* was an administrator's; never account 1.                                *)
Done(w) ==
    /\ grade[w] # "none"
    /\ grade' = [grade EXCEPT ![w] = "none"]
    /\ UNCHANGED <<password, budget>>
    /\ \/ UNCHANGED <<accounts, open, spent>>
       \/ /\ grade[w] = "admin"
          /\ \E t \in Tokens \ spent : open' = open \cup {t} /\ spent' = spent \cup {t}
          /\ UNCHANGED accounts
       \/ /\ grade[w] = "admin"
          /\ \E i \in Ids \ {1}, row \in Account \cup {None} :
               accounts' = [accounts EXCEPT ![i] = row]
          /\ UNCHANGED <<open, spent>>

(* Admission also clears what the address had to its name.                 *)
Settle(w) ==
    /\ grade[w] # "none"
    /\ \E ip \in Ips : \E n \in 0..budget[ip] : budget' = [budget EXCEPT ![ip] = n]
    /\ grade' \in {grade, [grade EXCEPT ![w] = "none"]}
    /\ UNCHANGED <<accounts, password, open, spent>>

Close ==
    /\ open' \in SUBSET open
    /\ UNCHANGED <<accounts, password, spent, grade, budget>>

Restart ==
    /\ open' = {} /\ password' \in Secrets
    /\ grade' = [w \in Workers |-> "none"]
    /\ budget' = [ip \in Ips |-> 0]
    /\ UNCHANGED <<accounts, spent>>

Next ==
    \/ \E w \in Workers : Admit(w) \/ AdmitSession(w) \/ Done(w) \/ Settle(w)
    \/ \E ip \in Ips : Charge(ip)
    \/ Forgive \/ Close \/ Restart

Spec == Init /\ [][Next]_vars
===============================================================================
