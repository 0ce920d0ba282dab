------------------------------ MODULE Accounts ------------------------------
(***************************************************************************)
(* Accounts: verification codes, registration, the reset of a password and *)
(* the password half of a login, from the client's dialogs through         *)
(* GateServer and VerifyServer to Redis and the user table.                *)
(*                                                                         *)
(* GateServer handles the requests of different connections in parallel,   *)
(* and so does VerifyServer; a request is a job here, one call of Redis,   *)
(* of MySQL or of the mail server a step.  A person reads the mail to one  *)
(* address, which is named like the person, and types codes read there,    *)
(* into either dialog and beside any address.  Codes are never guessed.    *)
(***************************************************************************)
EXTENDS Naturals, FiniteSets

CONSTANTS Person, Name, Password,
          Job,          \* the requests that may be under way together
          None,
          Lifetime,     \* the ten minutes of a code
          MaxCodes, MaxSalts, MaxFaults     \* bounds of the model

ASSUME AccountsAssumption ==
    /\ Lifetime \in Nat \ {0} /\ MaxCodes \in Nat /\ MaxSalts \in Nat /\ MaxFaults \in Nat
    /\ None \notin Name

Purpose == {"REGISTER", "RESET_PASSWORD"}
Key == Purpose \X Person        \* code_<email> and reset_code_<email>
Code == 1..MaxCodes
Salt == 1..MaxSalts
Forever == Lifetime + 1

VARIABLES
    store, ttl,     \* Redis: the code of a key or 0, and the time it has left
    codes, due,     \* codes made so far; the time until the end of each
    mailed,         \* the codes mailed for a key
    raced,          \* have two requests for a key both found nothing, or a GET failed
    user,           \* the rows of the user table, by address
    salts,          \* salts made so far
    job,            \* the requests
    faultsLeft

redis == <<store, ttl>>
made == <<codes, due, mailed, raced>>
vars == <<redis, made, user, salts, job, faultsLeft>>

NoUser == [name |-> None, hash |-> <<None, 0>>, salt |-> 0]

\* What a job knows: the step it is at, whose it is, the address, the purpose
\* and the code that it is about, the name, the password and the salt; of a
\* login also whether nothing has happened that could justify a refusal.
Idle == [at |-> "idle", by |-> None, email |-> None, purpose |-> "REGISTER", code |-> 0,
         name |-> None, password |-> None, salt |-> 0, right |-> FALSE]

Init ==
    /\ store = [k \in Key |-> 0] /\ ttl = [k \in Key |-> 0]
    /\ codes = 0 /\ due = [c \in Code |-> 0]
    /\ mailed = [k \in Key |-> {}] /\ raced = [k \in Key |-> FALSE]
    /\ user = [e \in Person |-> NoUser] /\ salts = 0
    /\ job = [j \in Job |-> Idle]
    /\ faultsLeft = MaxFaults

KeyOf(j) == <<job[j].purpose, job[j].email>>
Step(j, from, to) == job[j].at = from /\ job' = [job EXCEPT ![j].at = to]
Answer(j) == job' = [job EXCEPT ![j] = Idle]
Fails == faultsLeft > 0 /\ faultsLeft' = faultsLeft - 1
Works == UNCHANGED faultsLeft
-----------------------------------------------------------------------------
(* Verification codes: VerifyServiceImpl::GetVerifyCode *)

\* A click in either dialog, with any address, by anybody.
SendVerify(j, e, purpose) ==
    /\ job[j] = Idle /\ codes < MaxCodes
    /\ job' = [job EXCEPT ![j] = [Idle EXCEPT !.at = "get", !.email = e, !.purpose = purpose]]
    /\ UNCHANGED <<redis, made, user, salts, faultsLeft>>

\* Mutant: a code that is there is not used again.
GetCodeNever(j) ==
    /\ job[j].at = "get" /\ codes < MaxCodes
    /\ codes' = codes + 1
    /\ job' = [job EXCEPT ![j].at = "set", ![j].code = codes + 1]
    /\ UNCHANGED <<redis, due, mailed, raced, user, salts, faultsLeft>>

\* A code that is there is mailed again; a Get that fails finds nothing.
GetCode(j) ==
    /\ job[j].at = "get"
    /\ \/ /\ store[KeyOf(j)] # 0 /\ Works
          /\ job' = [job EXCEPT ![j].at = "mail", ![j].code = store[KeyOf(j)]]
          /\ UNCHANGED <<codes, raced>>
       \/ /\ codes < MaxCodes
          /\ \/ store[KeyOf(j)] = 0 /\ Works
             \/ Fails
          /\ codes' = codes + 1
          /\ job' = [job EXCEPT ![j].at = "set", ![j].code = codes + 1]
          /\ raced' = [raced EXCEPT ![KeyOf(j)] = \/ @ \/ faultsLeft' # faultsLeft
                           \/ \E i \in Job : job[i].at = "set" /\ KeyOf(i) = KeyOf(j)]
    /\ UNCHANGED <<redis, due, mailed, user, salts>>

\* SET takes away what EXPIRE gave the code before.
SetCode(j) ==
    /\ job[j].at = "set"
    /\ \/ /\ Works
          /\ store' = [store EXCEPT ![KeyOf(j)] = job[j].code]
          /\ ttl' = [ttl EXCEPT ![KeyOf(j)] = Forever]
          /\ Step(j, "set", "expire")
       \/ /\ Fails
          /\ Answer(j)
          /\ UNCHANGED redis
    /\ UNCHANGED <<made, user, salts>>

\* Whose code it is by now does not matter.  After a failure the code stays for
\* good, and is mailed when the next one asks.
Expire(j) ==
    /\ job[j].at = "expire"
    /\ \/ /\ Works
          /\ ttl' = [ttl EXCEPT ![KeyOf(j)] = IF store[KeyOf(j)] = 0 THEN 0 ELSE Lifetime]
          /\ due' = [due EXCEPT ![job[j].code] = Lifetime]
          /\ Step(j, "expire", "mail")
       \/ /\ Fails
          /\ Answer(j)
          /\ UNCHANGED <<ttl, due>>
    /\ UNCHANGED <<store, codes, mailed, raced, user, salts>>

\* The mail server may refuse, which ends the call.
SendMail(j) ==
    /\ job[j].at = "mail"
    /\ Answer(j)
    /\ mailed' \in {mailed, [mailed EXCEPT ![KeyOf(j)] = @ \cup {job[j].code}]}
    /\ UNCHANGED <<redis, codes, due, raced, user, salts, faultsLeft>>

Tick ==
    /\ store' = [k \in Key |-> IF ttl[k] = 1 THEN 0 ELSE store[k]]
    /\ ttl' = [k \in Key |-> IF ttl[k] \in {0, Forever} THEN ttl[k] ELSE ttl[k] - 1]
    /\ due' = [c \in Code |-> IF due[c] = 0 THEN 0 ELSE due[c] - 1]
    /\ UNCHANGED <<codes, mailed, raced, user, salts, job, faultsLeft>>
-----------------------------------------------------------------------------
(* Registration and reset *)

Seen(p) == UNION {mailed[<<purpose, p>>] : purpose \in Purpose}

\* The client makes the salt, and the hash of the password with it.
Submit(j, p, e, purpose, name, password, code) ==
    /\ job[j] = Idle /\ salts < MaxSalts
    /\ code \in Seen(p)
    /\ salts' = salts + 1
    /\ job' = [job EXCEPT ![j] = [at |-> "check", by |-> p, email |-> e, purpose |-> purpose,
                   code |-> code, name |-> name, password |-> password, salt |-> salts + 1,
                   right |-> FALSE]]
    /\ UNCHANGED <<redis, made, user, faultsLeft>>

\* on_registerBtn_clicked, onResetPassword
RegisterClick(j, p, e, name, password, code) == Submit(j, p, e, "REGISTER", name, password, code)
ResetClick(j, p, e, password, code) == Submit(j, p, e, "RESET_PASSWORD", None, password, code)

\* Mutant: the prefix of the key is that of the registration.
CheckCodePrefix(j) ==
    /\ job[j].at = "check"
    /\ IF store[<<"REGISTER", job[j].email>>] = job[j].code THEN Step(j, "check", "checked") ELSE Answer(j)
    /\ UNCHANGED <<redis, made, user, salts, faultsLeft>>

\* The code is not used up.
CheckCode(j) ==
    /\ job[j].at = "check"
    /\ IF store[KeyOf(j)] = job[j].code THEN Step(j, "check", "checked") ELSE Answer(j)
    /\ UNCHANGED <<redis, made, user, salts, faultsLeft>>

Secret(j) == <<job[j].password, job[j].salt>>       \* PBKDF2

\* The procedure reg_user, one transaction; a name or an address that is taken
\* is refused.
RegUser(j) ==
    /\ job[j].at = "checked" /\ job[j].purpose = "REGISTER"
    /\ Answer(j)
    /\ user' = IF user[job[j].email] # NoUser \/ \E e \in Person : user[e].name = job[j].name
                 THEN user
                 ELSE [user EXCEPT ![job[j].email] =
                          [name |-> job[j].name, hash |-> Secret(j), salt |-> job[j].salt]]
    /\ UNCHANGED <<redis, made, salts, faultsLeft>>

CheckEmailExist(j) ==
    /\ job[j].at = "checked" /\ job[j].purpose = "RESET_PASSWORD"
    /\ IF user[job[j].email] # NoUser THEN Step(j, "checked", "update") ELSE Answer(j)
    /\ UNCHANGED <<redis, made, user, salts, faultsLeft>>

\* Mutant: the salt stays.
NewPasswordOnly(row, j) == [row EXCEPT !.hash = Secret(j)]

NewPassword(row, j) == [row EXCEPT !.hash = Secret(j), !.salt = job[j].salt]

\* A login of that user that is under way may be refused now.
UpdatePasswordByEmail(j) ==
    /\ job[j].at = "update"
    /\ user' = [user EXCEPT ![job[j].email] = NewPassword(@, j)]
    /\ job' = [i \in Job |-> IF i = j THEN Idle
                             ELSE [job[i] EXCEPT !.right = @ /\ job[i].name # user[job[j].email].name]]
    /\ UNCHANGED <<redis, made, salts, faultsLeft>>
-----------------------------------------------------------------------------
(* Login *)

Rows(name) == {user[e] : e \in {e \in Person : user[e].name = name}}

\* on_loginBtn_clicked: only the name is sent.
LoginClick(j, name, password) ==
    /\ job[j] = Idle
    /\ job' = [job EXCEPT ![j] = [Idle EXCEPT !.at = "salt", !.name = name, !.password = password,
                   !.right = \E row \in Rows(name) : row.hash[1] = password]]
    /\ UNCHANGED <<redis, made, user, salts, faultsLeft>>

GetPasswdSalt(j) ==
    /\ job[j].at = "salt"
    /\ IF Rows(job[j].name) = {}
         THEN Step(j, "salt", "refused")
         ELSE \E row \in Rows(job[j].name) :
                  job' = [job EXCEPT ![j].at = "hash", ![j].salt = row.salt]
    /\ UNCHANGED <<redis, made, user, salts, faultsLeft>>

\* The answer: the texts are read again, and may have been edited since.
ComputeHash(j, name, password) ==
    /\ job[j].at = "hash"
    /\ job' = [job EXCEPT ![j].at = "valid", ![j].name = name, ![j].password = password,
                   ![j].right = @ /\ name = job[j].name /\ password = job[j].password]
    /\ UNCHANGED <<redis, made, user, salts, faultsLeft>>

LoginValid(j) ==
    /\ job[j].at = "valid"
    /\ IF \E row \in Rows(job[j].name) : row.hash = Secret(j) THEN Answer(j) ELSE Step(j, "valid", "refused")
    /\ UNCHANGED <<redis, made, user, salts, faultsLeft>>

Refuse(j) ==
    /\ job[j].at = "refused"
    /\ Answer(j)
    /\ UNCHANGED <<redis, made, user, salts, faultsLeft>>
\* A call of Redis or MySQL that fails is answered like a wrong code, an unknown
\* user or a wrong password.  (RegUser answers 0, which is success, when the pool
\* is closed and gives no connection; the request ends here all the same.)
CallFails(j) ==
    /\ Fails
    /\ \/ job[j].at \in {"check", "checked", "update"} /\ Answer(j)
       \/ /\ job[j].at \in {"salt", "valid"}
          /\ job' = [job EXCEPT ![j].at = "refused", ![j].right = FALSE]
    /\ UNCHANGED <<redis, made, user, salts>>
-----------------------------------------------------------------------------
Click(j) ==
    \/ \E e \in Person, purpose \in Purpose : SendVerify(j, e, purpose)
    \/ \E p, e \in Person, name \in Name, password \in Password :
           \E code \in Seen(p) : \/ RegisterClick(j, p, e, name, password, code)
                                 \/ ResetClick(j, p, e, password, code)
    \/ \E name \in Name, password \in Password : LoginClick(j, name, password)

VerifyServer(j) == GetCode(j) \/ SetCode(j) \/ Expire(j) \/ SendMail(j)

GateServer(j) ==
    \/ CheckCode(j) \/ RegUser(j) \/ CheckEmailExist(j) \/ UpdatePasswordByEmail(j)
    \/ GetPasswdSalt(j) \/ LoginValid(j) \/ Refuse(j) \/ CallFails(j)

Next ==
    \/ Tick
    \/ \E j \in Job : \/ Click(j) \/ VerifyServer(j) \/ GateServer(j)
                      \/ \E name \in Name, password \in Password : ComputeHash(j, name, password)

Spec == Init /\ [][Next]_vars
-----------------------------------------------------------------------------
Row == [name : Name \cup {None}, hash : (Password \cup {None}) \X (Salt \cup {0}), salt : Salt \cup {0}]
Request == [at : {"idle", "get", "set", "expire", "mail", "check", "checked", "update",
                  "salt", "hash", "valid", "refused"},
            by : Person \cup {None}, email : Person \cup {None}, purpose : Purpose,
            code : Code \cup {0}, name : Name \cup {None}, password : Password \cup {None},
            salt : Salt \cup {0}, right : BOOLEAN]

TypeOK ==
    /\ store \in [Key -> Code \cup {0}] /\ ttl \in [Key -> 0..Forever]
    /\ codes \in 0..MaxCodes /\ due \in [Code -> 0..Lifetime]
    /\ mailed \in [Key -> SUBSET Code] /\ raced \in [Key -> BOOLEAN]
    /\ user \in [Person -> Row] /\ salts \in 0..MaxSalts
    /\ job \in [Job -> Request] /\ faultsLeft \in 0..MaxFaults

\* A user's row is made or changed only by a request of the person who reads the
\* mail to its address, with a code that was mailed there for just this purpose.
OwnerChanges == [][\A e \in Person : user'[e] # user[e] =>
    \E j \in Job : /\ job[j].at \in {"checked", "update"} /\ job'[j].at = "idle"
                   /\ job[j].by = e /\ job[j].code \in mailed[KeyOf(j)]]_vars

\* Every code that was mailed is the one the server compares with until its time
\* is over, however often codes are asked for, unless two requests for the key
\* both found nothing or a GET failed.  (A code whose EXPIRE failed has due = 0.)
MailedIsStored == \A k \in Key : ~raced[k] =>
    \A c \in mailed[k] : due[c] > 0 => store[k] = c

\* A login with the right name and password is refused only if a call fails or
\* the texts are edited, or the password reset, while it is under way: the salt
\* and the hash are fetched in two requests.
RightAccepted == \A j \in Job : job[j].at = "refused" => ~job[j].right
=============================================================================
