--------------------------- MODULE AccountsProofs ---------------------------
(***************************************************************************)
(* Proofs about accounts, for any persons, requests, bounds and faults.    *)
(* An account is made and changed by the owner of its address only: a code *)
(* is made for one key, and is found with no other, whether it is stored,  *)
(* on its way or mailed; so a code that is read in the mail of a person    *)
(* and equals the stored one was mailed for that very key.                 *)
(* The right password is accepted: a row has the salt its hash was made    *)
(* with, and a login that read it is refused only after a later change.    *)
(* A mailed code that has time left is the stored one: of the requests for *)
(* a key one at most is storing, and the time begins with its EXPIRE.      *)
(***************************************************************************)
EXTENDS Accounts, TLAPS

\* The code c was made for the key k.
OnItsWay(j) == job[j].at \in {"set", "expire", "mail"}
MadeFor(k, c) ==
    \/ store[k] = c
    \/ c \in mailed[k]
    \/ \E j \in Job : OnItsWay(j) /\ KeyOf(j) = k /\ job[j].code = c

Writing(j) == job[j].at \in {"check", "checked", "update"}

\* What the steps of a request have before them.
PreparedAt(j) ==
    /\ job[j].at = "get" \/ OnItsWay(j) \/ Writing(j) => job[j].email \in Person
    /\ OnItsWay(j) \/ Writing(j) => job[j].code \in Code
    /\ Writing(j) => job[j].by \in Person /\ job[j].code \in Seen(job[j].by)
    /\ job[j].at \in {"checked", "update"} =>
           job[j].code \in mailed[KeyOf(j)] /\ job[j].by = job[j].email

Prepared == \A j \in Job : PreparedAt(j)

\* No code has two keys, and none that is in use is made again.
OneKey ==
    /\ \A k \in Key, c \in Code : MadeFor(k, c) => c <= codes
    /\ \A k, l \in Key, c \in Code : MadeFor(k, c) /\ MadeFor(l, c) => k = l

Inv == TypeOK /\ Prepared /\ OneKey

LEMMA IdleType == Idle \in Request /\ NoUser \in Row
BY DEF Idle, NoUser, Request, Row, Purpose

LEMMA InitInv == Init => Inv
<1> SUFFICES ASSUME Init PROVE Inv
  OBVIOUS
<1>1. TypeOK
  BY IdleType, AccountsAssumption DEF Init, TypeOK, Forever
<1>2. \A j \in Job : job[j].at = "idle"
  BY DEF Init, Idle
<1>3. Prepared
  BY <1>2 DEF Prepared, PreparedAt, OnItsWay, Writing
<1>4. OneKey
  BY <1>2 DEF OneKey, MadeFor, OnItsWay, Init, Code
<1> QED BY <1>1, <1>3, <1>4 DEF Inv

LEMMA KeyIn ==
    ASSUME TypeOK, NEW j \in Job, job[j].email \in Person
    PROVE  KeyOf(j) \in Key
BY DEF TypeOK, Request, KeyOf, Key

\* What OneKey says of the codes that are not new.
LEMMA Unused ==
    ASSUME Inv, codes' = codes,
           \A k \in Key, c \in Code : MadeFor(k, c)' => MadeFor(k, c)
    PROVE  OneKey'
BY DEF Inv, OneKey

\* A request stays prepared while codes are only added to the mail.
LEMMA StillPrepared ==
    ASSUME Inv, NEW i \in Job, job'[i] = [job[i] EXCEPT !.right = job'[i].right],
           mailed' \in [Key -> SUBSET Code],
           \A k \in Key : mailed[k] \subseteq mailed'[k]
    PROVE  PreparedAt(i)'
<1>1. /\ job'[i].at = job[i].at /\ job'[i].by = job[i].by /\ job'[i].email = job[i].email
      /\ job'[i].purpose = job[i].purpose /\ job'[i].code = job[i].code
  BY DEF Inv, TypeOK, Request
<1>2. \A p \in Person : Seen(p) \subseteq Seen(p)'
  BY DEF Seen, Key
<1> QED BY <1>1, <1>2, KeyIn DEF Inv, Prepared, PreparedAt, OnItsWay, Writing, KeyOf

LEMMA IdlePrepared ==
    ASSUME NEW i \in Job, job'[i] = Idle
    PROVE  PreparedAt(i)'
BY DEF Idle, PreparedAt, OnItsWay, Writing

\* A step of one request.
LEMMA StepPrepared ==
    ASSUME Inv, NEW j \in Job, NEW r, job' = [job EXCEPT ![j] = r],
           mailed' \in [Key -> SUBSET Code],
           \A k \in Key : mailed[k] \subseteq mailed'[k],
           PreparedAt(j)'
    PROVE  Prepared'
<1> SUFFICES ASSUME NEW i \in Job, i # j PROVE PreparedAt(i)'
  BY DEF Prepared
<1>1. job'[i] = job[i] /\ job[i] \in Request
  BY DEF Inv, TypeOK
<1>2. job'[i] = [job[i] EXCEPT !.right = job'[i].right]
  BY <1>1 DEF Request
<1> QED BY <1>2, StillPrepared

LEMMA SendVerifyInv ==
    ASSUME Inv, NEW j \in Job, NEW e \in Person, NEW purpose \in Purpose, SendVerify(j, e, purpose)
    PROVE  Inv'
<1> DEFINE r == [Idle EXCEPT !.at = "get", !.email = e, !.purpose = purpose]
<1>1. job' = [job EXCEPT ![j] = r] /\ UNCHANGED <<redis, made, user, salts, faultsLeft>>
  BY DEF SendVerify
<1>2. r \in Request /\ r.at = "get" /\ r.email = e
  BY IdleType DEF Request, Idle
<1> HIDE DEF r
<1>3. TypeOK'
  BY <1>1, <1>2 DEF Inv, TypeOK, redis, made
<1>4. job'[j] = r /\ \A i \in Job : i # j => job'[i] = job[i]
  BY <1>1 DEF Inv, TypeOK
<1>5. PreparedAt(j)'
  BY <1>2, <1>4 DEF PreparedAt, OnItsWay, Writing
<1>6. Prepared'
  BY <1>1, <1>5, StepPrepared DEF Inv, TypeOK, made
<1>7. \A k \in Key, c \in Code : MadeFor(k, c)' => MadeFor(k, c)
  BY <1>1, <1>2, <1>4 DEF MadeFor, OnItsWay, KeyOf, redis, made
<1> QED BY <1>1, <1>3, <1>6, <1>7, Unused DEF Inv, made

LEMMA GetCodeInv == ASSUME Inv, NEW j \in Job, GetCode(j) PROVE Inv'
<1> DEFINE key == KeyOf(j)
<1>1. /\ job[j].at = "get" /\ job[j].email \in Person /\ key \in Key
      /\ UNCHANGED <<redis, due, mailed, user, salts>>
  BY KeyIn DEF GetCode, Inv, Prepared, PreparedAt
<1>2. CASE /\ store[key] # 0 /\ Works
           /\ job' = [job EXCEPT ![j].at = "mail", ![j].code = store[key]]
           /\ UNCHANGED <<codes, raced>>
  <2> DEFINE r == [job[j] EXCEPT !.at = "mail", !.code = store[key]]
  <2>1. job' = [job EXCEPT ![j] = r] /\ store[key] \in Code
    BY <1>1, <1>2 DEF Inv, TypeOK
  <2>2. r \in Request /\ r.at = "mail" /\ r.email = job[j].email /\ r.code = store[key]
        /\ r.purpose = job[j].purpose
    BY ZenonT(30), <2>1 DEF Inv, TypeOK, Request
  <2> HIDE DEF r
  <2>3. TypeOK'
    BY <1>1, <1>2, <2>1, <2>2 DEF Inv, TypeOK, redis, Works
  <2>4. job'[j] = r /\ \A i \in Job : i # j => job'[i] = job[i]
    BY <2>1 DEF Inv, TypeOK
  <2>5. PreparedAt(j)'
    BY <1>1, <2>1, <2>2, <2>4 DEF PreparedAt, OnItsWay, Writing
  <2>6. Prepared'
    BY <1>1, <2>1, <2>5, StepPrepared DEF Inv, TypeOK
  <2>7. \A k \in Key, c \in Code : MadeFor(k, c)' => MadeFor(k, c)
    <3> SUFFICES ASSUME NEW k \in Key, NEW c \in Code, MadeFor(k, c)' PROVE MadeFor(k, c)
      OBVIOUS
    <3>1. CASE \E i \in Job : i # j /\ (OnItsWay(i) /\ KeyOf(i) = k /\ job[i].code = c)'
      BY <2>4, <3>1 DEF MadeFor, OnItsWay, KeyOf
    <3>2. CASE (OnItsWay(j) /\ KeyOf(j) = k /\ job[j].code = c)'
      BY <2>2, <2>4, <3>2 DEF MadeFor, KeyOf
    <3> QED BY <1>1, <3>1, <3>2 DEF MadeFor, redis
  <2> QED BY <1>2, <2>3, <2>6, <2>7, Unused DEF Inv
<1>3. CASE /\ codes < MaxCodes /\ ((store[key] = 0 /\ Works) \/ Fails)
           /\ codes' = codes + 1
           /\ job' = [job EXCEPT ![j].at = "set", ![j].code = codes + 1]
           /\ raced' = [raced EXCEPT ![key] = \/ @ \/ faultsLeft' # faultsLeft
                            \/ \E i \in Job : job[i].at = "set" /\ KeyOf(i) = key]
  <2> DEFINE r == [job[j] EXCEPT !.at = "set", !.code = codes + 1]
  <2>1. job' = [job EXCEPT ![j] = r] /\ codes \in Nat /\ codes + 1 \in Code /\ codes' \in 0..MaxCodes
    <3>1. job' = [job EXCEPT ![j] = r]
      BY <1>3 DEF Inv, TypeOK
    <3>2. codes \in 0..MaxCodes /\ MaxCodes \in Nat /\ codes < MaxCodes /\ codes' = codes + 1
      BY <1>3, AccountsAssumption DEF Inv, TypeOK
    <3> HIDE DEF r
    <3> QED BY <3>1, <3>2 DEF Code
  <2>2. r \in Request /\ r.at = "set" /\ r.email = job[j].email /\ r.code = codes + 1
        /\ r.purpose = job[j].purpose
    BY ZenonT(30), <2>1 DEF Inv, TypeOK, Request
  <2> HIDE DEF r
  <2>3. raced' \in [Key -> BOOLEAN] /\ faultsLeft' \in 0..MaxFaults
    <3> DEFINE found == \/ raced[key] \/ faultsLeft' # faultsLeft
                        \/ \E i \in Job : job[i].at = "set" /\ KeyOf(i) = key
    <3>1. raced' = [raced EXCEPT ![key] = found] /\ found \in BOOLEAN
      BY <1>1, <1>3 DEF Inv, TypeOK
    <3> HIDE DEF found
    <3>2. raced' \in [Key -> BOOLEAN]
      BY <3>1 DEF Inv, TypeOK
    <3>3. faultsLeft' \in 0..MaxFaults
      BY <1>3, AccountsAssumption DEF Inv, TypeOK, Works, Fails
    <3> QED BY <3>2, <3>3
  <2>4. TypeOK'
    BY <1>1, <2>1, <2>2, <2>3 DEF Inv, TypeOK, redis
  <2>5. job'[j] = r /\ \A i \in Job : i # j => job'[i] = job[i]
    BY <2>1 DEF Inv, TypeOK
  <2>6. PreparedAt(j)'
    BY <1>1, <2>1, <2>2, <2>5 DEF PreparedAt, OnItsWay, Writing
  <2>7. Prepared'
    BY <1>1, <2>1, <2>6, StepPrepared DEF Inv, TypeOK
  <2>8. \A k \in Key, c \in Code : MadeFor(k, c)' => MadeFor(k, c) \/ (k = key /\ c = codes + 1)
    <3> SUFFICES ASSUME NEW k \in Key, NEW c \in Code, MadeFor(k, c)'
                 PROVE  MadeFor(k, c) \/ (k = key /\ c = codes + 1)
      OBVIOUS
    <3>1. CASE \E i \in Job : i # j /\ (OnItsWay(i) /\ KeyOf(i) = k /\ job[i].code = c)'
      BY <2>5, <3>1 DEF MadeFor, OnItsWay, KeyOf
    <3>2. CASE (OnItsWay(j) /\ KeyOf(j) = k /\ job[j].code = c)'
      BY <2>2, <2>5, <3>2 DEF KeyOf
    <3> QED BY <1>1, <3>1, <3>2 DEF MadeFor, redis
  <2>9. OneKey'
    BY <1>3, <2>1, <2>8 DEF Inv, OneKey, Code
  <2> QED BY <2>4, <2>7, <2>9 DEF Inv
<1> QED BY <1>2, <1>3 DEF GetCode

\* The steps that only move a request on, or answer it.
LEMMA Moved ==
    ASSUME TypeOK, NEW j \in Job, NEW from, NEW to, Step(j, from, to)
    PROVE  \E r : /\ job' = [job EXCEPT ![j] = r] /\ job'[j] = r
                  /\ r.at = to /\ r.by = job[j].by /\ r.email = job[j].email
                  /\ r.purpose = job[j].purpose /\ r.code = job[j].code
                  /\ \A i \in Job : i # j => job'[i] = job[i]
                  /\ to \in {"expire", "mail", "checked", "update", "refused"} => r \in Request
<1> WITNESS [job[j] EXCEPT !.at = to]
<1> QED BY DEF TypeOK, Step, Request

LEMMA Answered ==
    ASSUME TypeOK, NEW j \in Job, Answer(j)
    PROVE  /\ job' = [job EXCEPT ![j] = Idle] /\ job'[j] = Idle
           /\ job' \in [Job -> Request]
           /\ \A i \in Job : i # j => job'[i] = job[i]
BY IdleType DEF TypeOK, Answer

LEMMA SetCodeInv == ASSUME Inv, NEW j \in Job, SetCode(j) PROVE Inv'
<1> DEFINE key == KeyOf(j)
<1>1. /\ job[j].at = "set" /\ job[j].email \in Person /\ key \in Key /\ job[j].code \in Code
      /\ UNCHANGED <<made, user, salts>>
  BY KeyIn DEF SetCode, Inv, Prepared, PreparedAt, OnItsWay
<1>2. CASE /\ Works
           /\ store' = [store EXCEPT ![key] = job[j].code]
           /\ ttl' = [ttl EXCEPT ![key] = Forever]
           /\ Step(j, "set", "expire")
  <2>1. PICK r : /\ job' = [job EXCEPT ![j] = r] /\ job'[j] = r
                 /\ r.at = "expire" /\ r.email = job[j].email
                 /\ r.purpose = job[j].purpose /\ r.code = job[j].code
                 /\ \A i \in Job : i # j => job'[i] = job[i]
                 /\ r \in Request
    BY <1>2, Moved DEF Inv
  <2>2. Forever \in 0..Forever
    BY AccountsAssumption DEF Forever
  <2>3. TypeOK'
    BY <1>1, <1>2, <2>1, <2>2 DEF Inv, TypeOK, made, Works
  <2>4. PreparedAt(j)'
    BY <1>1, <2>1 DEF PreparedAt, OnItsWay, Writing
  <2>5. Prepared'
    BY <1>1, <2>1, <2>4, StepPrepared DEF Inv, TypeOK, made
  <2>6. \A k \in Key, c \in Code : MadeFor(k, c)' => MadeFor(k, c)
    BY <1>1, <1>2, <2>1 DEF MadeFor, OnItsWay, KeyOf, made, Inv, TypeOK
  <2> QED BY <1>1, <2>3, <2>5, <2>6, Unused DEF Inv, made
<1>3. CASE Fails /\ Answer(j) /\ UNCHANGED redis
  <2>1. faultsLeft' \in 0..MaxFaults
    BY <1>3, AccountsAssumption DEF Inv, TypeOK, Fails
  <2>2. TypeOK'
    BY <1>1, <1>3, <2>1, Answered DEF Inv, TypeOK, made, redis
  <2>3. Prepared'
    BY <1>1, <1>3, Answered, IdlePrepared, StepPrepared DEF Inv, TypeOK, made
  <2>4. \A k \in Key, c \in Code : MadeFor(k, c)' => MadeFor(k, c)
    BY <1>1, <1>3, Answered DEF MadeFor, OnItsWay, KeyOf, made, redis, Inv, Idle
  <2> QED BY <1>1, <2>2, <2>3, <2>4, Unused DEF Inv, made
<1> QED BY <1>2, <1>3 DEF SetCode

LEMMA ExpireInv == ASSUME Inv, NEW j \in Job, Expire(j) PROVE Inv'
<1> DEFINE key == KeyOf(j)
<1>1. /\ job[j].at = "expire" /\ job[j].email \in Person /\ key \in Key /\ job[j].code \in Code
      /\ UNCHANGED <<store, codes, mailed, raced, user, salts>>
  BY KeyIn DEF Expire, Inv, Prepared, PreparedAt, OnItsWay
<1>2. CASE /\ Works
           /\ ttl' = [ttl EXCEPT ![key] = IF store[key] = 0 THEN 0 ELSE Lifetime]
           /\ due' = [due EXCEPT ![job[j].code] = Lifetime]
           /\ Step(j, "expire", "mail")
  <2>1. PICK r : /\ job' = [job EXCEPT ![j] = r] /\ job'[j] = r
                 /\ r.at = "mail" /\ r.email = job[j].email
                 /\ r.purpose = job[j].purpose /\ r.code = job[j].code
                 /\ \A i \in Job : i # j => job'[i] = job[i]
                 /\ r \in Request
    BY <1>2, Moved DEF Inv
  <2>2. Lifetime \in 0..Lifetime /\ Lifetime \in 0..Forever /\ 0 \in 0..Forever
    BY AccountsAssumption DEF Forever
  <2>3. TypeOK'
    BY <1>1, <1>2, <2>1, <2>2 DEF Inv, TypeOK, Works
  <2>4. PreparedAt(j)'
    BY <1>1, <2>1 DEF PreparedAt, OnItsWay, Writing
  <2>5. Prepared'
    BY <1>1, <2>1, <2>4, StepPrepared DEF Inv, TypeOK
  <2>6. \A k \in Key, c \in Code : MadeFor(k, c)' => MadeFor(k, c)
    BY <1>1, <2>1 DEF MadeFor, OnItsWay, KeyOf
  <2> QED BY <1>1, <2>3, <2>5, <2>6, Unused DEF Inv
<1>3. CASE Fails /\ Answer(j) /\ UNCHANGED <<ttl, due>>
  <2>1. faultsLeft' \in 0..MaxFaults
    BY <1>3, AccountsAssumption DEF Inv, TypeOK, Fails
  <2>2. TypeOK'
    BY <1>1, <1>3, <2>1, Answered DEF Inv, TypeOK
  <2>3. Prepared'
    BY <1>1, <1>3, Answered, IdlePrepared, StepPrepared DEF Inv, TypeOK
  <2>4. \A k \in Key, c \in Code : MadeFor(k, c)' => MadeFor(k, c)
    BY <1>1, <1>3, Answered DEF MadeFor, OnItsWay, KeyOf, Inv, Idle
  <2> QED BY <1>1, <2>2, <2>3, <2>4, Unused DEF Inv
<1> QED BY <1>2, <1>3 DEF Expire

LEMMA SendMailInv == ASSUME Inv, NEW j \in Job, SendMail(j) PROVE Inv'
<1> DEFINE key == KeyOf(j)
<1>1. /\ job[j].at = "mail" /\ job[j].email \in Person /\ key \in Key /\ job[j].code \in Code
      /\ Answer(j) /\ UNCHANGED <<redis, codes, due, raced, user, salts, faultsLeft>>
  BY KeyIn DEF SendMail, Inv, Prepared, PreparedAt, OnItsWay
<1>2. /\ mailed' \in [Key -> SUBSET Code]
      /\ \A k \in Key : mailed[k] \subseteq mailed'[k]
      /\ \A k \in Key : mailed'[k] \subseteq mailed[k] \cup {c \in Code : k = key /\ c = job[j].code}
  BY <1>1 DEF SendMail, Inv, TypeOK
<1>3. TypeOK'
  BY <1>1, <1>2, Answered DEF Inv, TypeOK, redis
<1>4. Prepared'
  BY <1>1, <1>2, Answered, IdlePrepared, StepPrepared DEF Inv
<1>5. \A k \in Key, c \in Code : MadeFor(k, c)' => MadeFor(k, c)
  BY <1>1, <1>2, Answered DEF MadeFor, OnItsWay, KeyOf, redis, Inv, Idle
<1> QED BY <1>1, <1>3, <1>4, <1>5, Unused DEF Inv

LEMMA TickInv == Inv /\ Tick => Inv'
<1> SUFFICES ASSUME Inv, Tick PROVE Inv'
  OBVIOUS
<1>1. /\ store' = [k \in Key |-> IF ttl[k] = 1 THEN 0 ELSE store[k]]
      /\ UNCHANGED <<codes, mailed, raced, user, salts, job, faultsLeft>>
  BY DEF Tick
<1>2. \A n \in Nat : \A m \in 0..n : m # 0 => m - 1 \in 0..n
  OBVIOUS
<1>3. ttl' \in [Key -> 0..Forever] /\ due' \in [Code -> 0..Lifetime]
  BY <1>2, AccountsAssumption DEF Tick, Inv, TypeOK, Forever
<1>4. TypeOK'
  BY <1>1, <1>3 DEF Inv, TypeOK
<1>5. Prepared'
  BY <1>1 DEF Inv, Prepared, PreparedAt, OnItsWay, Writing, Seen, KeyOf
<1>6. \A k \in Key, c \in Code : MadeFor(k, c)' => MadeFor(k, c)
  BY <1>1 DEF MadeFor, OnItsWay, KeyOf, Code
<1> QED BY <1>1, <1>4, <1>5, <1>6, Unused DEF Inv

LEMMA SubmitInv ==
    ASSUME Inv, NEW j \in Job, NEW p \in Person, NEW e \in Person, NEW purpose \in Purpose,
           NEW name \in Name \cup {None}, NEW password \in Password, NEW code \in Seen(p),
           Submit(j, p, e, purpose, name, password, code)
    PROVE  Inv'
<1> DEFINE r == [at |-> "check", by |-> p, email |-> e, purpose |-> purpose, code |-> code,
                 name |-> name, password |-> password, salt |-> salts + 1, right |-> FALSE]
<1>1. /\ job' = [job EXCEPT ![j] = r] /\ salts < MaxSalts /\ salts' = salts + 1
      /\ UNCHANGED <<redis, made, user, faultsLeft>>
  BY DEF Submit
<1>2. salts \in 0..MaxSalts /\ MaxSalts \in Nat
  BY AccountsAssumption DEF Inv, TypeOK
<1>3. salts' \in 0..MaxSalts /\ salts + 1 \in Salt
  BY <1>1, <1>2 DEF Salt
<1>4. code \in Code
  <2>1. PICK k \in Key : code \in mailed[k]
    BY DEF Seen, Key
  <2> QED BY <2>1 DEF Inv, TypeOK
<1>5. /\ r \in Request /\ r.at = "check" /\ r.by = p /\ r.email = e /\ r.code = code
  BY <1>3, <1>4 DEF Request
<1> HIDE DEF r
<1>6. TypeOK'
  BY <1>1, <1>3, <1>5 DEF Inv, TypeOK, redis, made
<1>7. job'[j] = r /\ \A i \in Job : i # j => job'[i] = job[i]
  BY <1>1 DEF Inv, TypeOK
<1>8. PreparedAt(j)'
  BY ZenonT(40), <1>1, <1>4, <1>5, <1>7 DEF PreparedAt, OnItsWay, Writing, Seen, made
<1>9. Prepared'
  BY <1>1, <1>8, StepPrepared DEF Inv, TypeOK, made
<1>10. \A k \in Key, c \in Code : MadeFor(k, c)' => MadeFor(k, c)
  BY <1>1, <1>5, <1>7 DEF MadeFor, OnItsWay, KeyOf, redis, made
<1> QED BY <1>1, <1>6, <1>9, <1>10, Unused DEF Inv, made

\* Here the codes do their work: the one that was typed is that of the key.
LEMMA CheckCodeInv == ASSUME Inv, NEW j \in Job, CheckCode(j) PROVE Inv'
<1> DEFINE key == KeyOf(j)
<1>1. /\ job[j].at = "check" /\ job[j].email \in Person /\ key \in Key
      /\ job[j].code \in Code /\ job[j].by \in Person /\ job[j].code \in Seen(job[j].by)
      /\ UNCHANGED <<redis, made, user, salts, faultsLeft>>
  BY KeyIn DEF CheckCode, Inv, Prepared, PreparedAt, Writing
<1>2. CASE store[key] = job[j].code /\ Step(j, "check", "checked")
  <2>1. PICK r : /\ job' = [job EXCEPT ![j] = r] /\ job'[j] = r
                 /\ r.at = "checked" /\ r.by = job[j].by /\ r.email = job[j].email
                 /\ r.purpose = job[j].purpose /\ r.code = job[j].code
                 /\ \A i \in Job : i # j => job'[i] = job[i]
                 /\ r \in Request
    BY <1>2, Moved DEF Inv
  <2>2. PICK purpose \in Purpose : job[j].code \in mailed[<<purpose, job[j].by>>]
    BY <1>1 DEF Seen
  <2>3. <<purpose, job[j].by>> = key
    BY <1>1, <1>2, <2>2 DEF Inv, OneKey, MadeFor, Key
  <2>4. job[j].code \in mailed[key] /\ job[j].by = job[j].email
    BY <2>2, <2>3 DEF KeyOf
  <2>5. TypeOK'
    BY <1>1, <2>1 DEF Inv, TypeOK, redis, made
  <2>6. PreparedAt(j)'
    <3>1. r.code \in Seen(r.by) /\ Seen(r.by)' = Seen(r.by)
      BY <1>1, <2>1 DEF Seen, made
    <3>2. r.code \in mailed[<<r.purpose, r.email>>]' /\ KeyOf(j)' = <<r.purpose, r.email>>
      BY <1>1, <2>1, <2>4 DEF KeyOf, made
    <3> QED BY <1>1, <2>1, <2>4, <3>1, <3>2 DEF PreparedAt, OnItsWay, Writing
  <2>7. Prepared'
    BY <1>1, <2>1, <2>6, StepPrepared DEF Inv, TypeOK, made
  <2>8. \A k \in Key, c \in Code : MadeFor(k, c)' => MadeFor(k, c)
    BY <1>1, <2>1 DEF MadeFor, OnItsWay, KeyOf, redis, made
  <2> QED BY <1>1, <2>5, <2>7, <2>8, Unused DEF Inv, made
<1>3. CASE Answer(j)
  <2>1. TypeOK'
    BY <1>1, <1>3, Answered DEF Inv, TypeOK, redis, made
  <2>2. Prepared'
    BY <1>1, <1>3, Answered, IdlePrepared, StepPrepared DEF Inv, TypeOK, made
  <2>3. \A k \in Key, c \in Code : MadeFor(k, c)' => MadeFor(k, c)
    BY <1>1, <1>3, Answered DEF MadeFor, OnItsWay, KeyOf, redis, made, Inv, Idle
  <2> QED BY <1>1, <2>1, <2>2, <2>3, Unused DEF Inv, made
<1> QED BY <1>2, <1>3 DEF CheckCode

LEMMA SecretType ==
    ASSUME TypeOK, NEW j \in Job
    PROVE  /\ Secret(j) \in (Password \cup {None}) \X (Salt \cup {0})
           /\ job[j].salt \in Salt \cup {0} /\ job[j].name \in Name \cup {None}
BY DEF TypeOK, Request, Secret

LEMMA RegUserInv == ASSUME Inv, NEW j \in Job, RegUser(j) PROVE Inv'
<1>1. job[j].email \in Person /\ Answer(j) /\ UNCHANGED <<redis, made, salts, faultsLeft>>
  BY DEF RegUser, Inv, Prepared, PreparedAt, Writing
<1>2. [name |-> job[j].name, hash |-> Secret(j), salt |-> job[j].salt] \in Row
  BY SecretType DEF Row, Inv
<1>3. user' \in [Person -> Row]
  BY <1>1, <1>2 DEF RegUser, Inv, TypeOK
<1>4. TypeOK'
  BY <1>1, <1>3, Answered DEF Inv, TypeOK, redis, made
<1>5. Prepared'
  BY <1>1, Answered, IdlePrepared, StepPrepared DEF Inv, TypeOK, made
<1>6. \A k \in Key, c \in Code : MadeFor(k, c)' => MadeFor(k, c)
  BY <1>1, Answered DEF MadeFor, OnItsWay, KeyOf, redis, made, Inv, Idle
<1> QED BY <1>1, <1>4, <1>5, <1>6, Unused DEF Inv, made

LEMMA CheckEmailExistInv == ASSUME Inv, NEW j \in Job, CheckEmailExist(j) PROVE Inv'
<1>1. /\ job[j].at = "checked" /\ PreparedAt(j)
      /\ UNCHANGED <<redis, made, user, salts, faultsLeft>>
  BY DEF CheckEmailExist, Inv, Prepared
<1>2. CASE Step(j, "checked", "update")
  <2>1. PICK r : /\ job' = [job EXCEPT ![j] = r] /\ job'[j] = r
                 /\ r.at = "update" /\ r.by = job[j].by /\ r.email = job[j].email
                 /\ r.purpose = job[j].purpose /\ r.code = job[j].code
                 /\ \A i \in Job : i # j => job'[i] = job[i]
                 /\ r \in Request
    BY <1>2, Moved DEF Inv
  <2>2. TypeOK'
    BY <1>1, <2>1 DEF Inv, TypeOK, redis, made
  <2>3. PreparedAt(j)'
    BY ZenonT(40), <1>1, <2>1 DEF PreparedAt, OnItsWay, Writing, Seen, KeyOf, made
  <2>4. Prepared'
    BY <1>1, <2>1, <2>3, StepPrepared DEF Inv, TypeOK, made
  <2>5. \A k \in Key, c \in Code : MadeFor(k, c)' => MadeFor(k, c)
    BY <1>1, <2>1 DEF MadeFor, OnItsWay, KeyOf, redis, made
  <2> QED BY <1>1, <2>2, <2>4, <2>5, Unused DEF Inv, made
<1>3. CASE Answer(j)
  <2>1. TypeOK'
    BY <1>1, <1>3, Answered DEF Inv, TypeOK, redis, made
  <2>2. Prepared'
    BY <1>1, <1>3, Answered, IdlePrepared, StepPrepared DEF Inv, TypeOK, made
  <2>3. \A k \in Key, c \in Code : MadeFor(k, c)' => MadeFor(k, c)
    BY <1>1, <1>3, Answered DEF MadeFor, OnItsWay, KeyOf, redis, made, Inv, Idle
  <2> QED BY <1>1, <2>1, <2>2, <2>3, Unused DEF Inv, made
<1> QED BY <1>2, <1>3 DEF CheckEmailExist

LEMMA UpdateInv == ASSUME Inv, NEW j \in Job, UpdatePasswordByEmail(j) PROVE Inv'
<1>1. /\ job[j].at = "update" /\ job[j].email \in Person
      /\ user' = [user EXCEPT ![job[j].email] = NewPassword(user[job[j].email], j)]
      /\ UNCHANGED <<redis, made, salts, faultsLeft>>
  BY DEF UpdatePasswordByEmail, Inv, Prepared, PreparedAt, Writing
<1>2. NewPassword(user[job[j].email], j) \in Row
  <2>1. user[job[j].email] \in Row /\ Secret(j) \in (Password \cup {None}) \X (Salt \cup {0})
        /\ job[j].salt \in Salt \cup {0}
    BY <1>1, SecretType DEF Inv, TypeOK
  <2> QED BY <2>1 DEF NewPassword, Row
<1>3. \A i \in Job : /\ i = j => job'[i] = Idle
                     /\ i # j => \E b \in BOOLEAN : job'[i] = [job[i] EXCEPT !.right = b]
  <2>1. \A i \in Job : job[i].right \in BOOLEAN
    BY DEF Inv, TypeOK, Request
  <2> QED BY <2>1 DEF UpdatePasswordByEmail
<1>4. \A i \in Job : /\ job'[i] \in Request
                     /\ i # j => /\ job'[i].at = job[i].at /\ job'[i].email = job[i].email
                                 /\ job'[i].purpose = job[i].purpose /\ job'[i].code = job[i].code
                                 /\ job'[i] = [job[i] EXCEPT !.right = job'[i].right]
  <2> SUFFICES ASSUME NEW i \in Job, i # j
               PROVE  /\ job'[i] \in Request
                      /\ job'[i].at = job[i].at /\ job'[i].email = job[i].email
                      /\ job'[i].purpose = job[i].purpose /\ job'[i].code = job[i].code
                      /\ job'[i] = [job[i] EXCEPT !.right = job'[i].right]
    BY <1>3, IdleType
  <2>1. PICK b \in BOOLEAN : job'[i] = [job[i] EXCEPT !.right = b]
    BY <1>3
  <2>2. job[i] \in Request
    BY DEF Inv, TypeOK
  <2> QED BY <2>1, <2>2 DEF Request
<1>5. job' \in [Job -> Request]
  <2>1. DOMAIN job' = Job /\ job' = [i \in Job |-> job'[i]]
    BY DEF UpdatePasswordByEmail
  <2> QED BY <1>4, <2>1
<1>6. TypeOK'
  BY <1>1, <1>2, <1>5 DEF Inv, TypeOK, redis, made
<1>7. Prepared'
  <2> SUFFICES ASSUME NEW i \in Job PROVE PreparedAt(i)'
    BY DEF Prepared
  <2>1. CASE i = j
    BY <1>3, <2>1, IdlePrepared
  <2>2. CASE i # j
    BY <1>1, <1>4, <2>2, StillPrepared DEF Inv, TypeOK, made
  <2> QED BY <2>1, <2>2
<1>8. \A k \in Key, c \in Code : MadeFor(k, c)' => MadeFor(k, c)
  <2>1. job'[j].at = "idle"
    BY <1>3 DEF Idle
  <2> QED BY ZenonT(30), <1>1, <1>4, <2>1 DEF MadeFor, OnItsWay, KeyOf, redis, made
<1> QED BY <1>1, <1>6, <1>7, <1>8, Unused DEF Inv, made

\* A login is never on its way to a key or to a row, and neither is an answer.
LEMMA Aside ==
    ASSUME Inv, NEW j \in Job, NEW r \in Request, job' = [job EXCEPT ![j] = r],
           r.at \in {"idle", "salt", "hash", "valid", "refused"},
           UNCHANGED <<redis, made, user, salts>>, faultsLeft' \in 0..MaxFaults
    PROVE  Inv'
<1>1. job'[j] = r /\ \A i \in Job : i # j => job'[i] = job[i]
  BY DEF Inv, TypeOK
<1>2. TypeOK'
  BY DEF Inv, TypeOK, redis, made
<1>3. PreparedAt(j)'
  BY <1>1 DEF PreparedAt, OnItsWay, Writing
<1>4. Prepared'
  BY <1>3, StepPrepared DEF Inv, TypeOK, made
<1>5. \A k \in Key, c \in Code : MadeFor(k, c)' => MadeFor(k, c)
  BY <1>1 DEF MadeFor, OnItsWay, KeyOf, redis, made
<1> QED BY <1>2, <1>4, <1>5, Unused DEF Inv, made

LEMMA LoginStep ==
    ASSUME Inv, NEW j \in Job, NEW r \in Request, job' = [job EXCEPT ![j] = r],
           r.at \in {"idle", "salt", "hash", "valid", "refused"},
           UNCHANGED <<redis, made, user, salts, faultsLeft>>
    PROVE  Inv'
BY Aside DEF Inv, TypeOK

LEMMA CallFailsInv == ASSUME Inv, NEW j \in Job, CallFails(j) PROVE Inv'
<1>1. UNCHANGED <<redis, made, user, salts>> /\ faultsLeft' \in 0..MaxFaults
  BY AccountsAssumption DEF CallFails, Fails, Inv, TypeOK
<1>2. CASE Answer(j)
  <2>1. job' = [job EXCEPT ![j] = Idle] /\ Idle \in Request /\ Idle.at = "idle"
    BY <1>2, IdleType DEF Answer, Idle
  <2> QED BY <1>1, <2>1, Aside
<1>3. CASE job' = [job EXCEPT ![j].at = "refused", ![j].right = FALSE]
  <2> DEFINE r == [job[j] EXCEPT !.at = "refused", !.right = FALSE]
  <2>1. r \in Request /\ r.at = "refused"
    BY ZenonT(30) DEF Inv, TypeOK, Request
  <2>2. job' = [job EXCEPT ![j] = r]
    BY <1>3 DEF Inv, TypeOK, Request
  <2> QED BY <1>1, <2>1, <2>2, Aside
<1> QED BY <1>2, <1>3 DEF CallFails

LEMMA LoginInv ==
    ASSUME Inv, NEW j \in Job,
           \/ \E name \in Name, password \in Password :
                  LoginClick(j, name, password) \/ ComputeHash(j, name, password)
           \/ GetPasswdSalt(j) \/ LoginValid(j) \/ Refuse(j)
    PROVE  Inv'
<1>1. ASSUME NEW name \in Name, NEW password \in Password, LoginClick(j, name, password)
      PROVE  Inv'
  <2> DEFINE good == \E row \in Rows(name) : row.hash[1] = password
             r == [Idle EXCEPT !.at = "salt", !.name = name, !.password = password, !.right = good]
  <2>1. good \in BOOLEAN
    OBVIOUS
  <2>2. job' = [job EXCEPT ![j] = r] /\ UNCHANGED <<redis, made, user, salts, faultsLeft>>
    BY <1>1 DEF LoginClick
  <2> HIDE DEF good
  <2>3. r \in Request /\ r.at = "salt"
    BY <2>1, IdleType DEF Request, Idle
  <2> QED BY <2>2, <2>3, LoginStep
<1>2. CASE GetPasswdSalt(j)
  <2>1. job[j].at = "salt" /\ UNCHANGED <<redis, made, user, salts, faultsLeft>>
    BY <1>2 DEF GetPasswdSalt
  <2>2. CASE Step(j, "salt", "refused")
    BY <2>1, <2>2, Moved, LoginStep DEF Inv
  <2>3. ASSUME NEW row \in Rows(job[j].name),
               job' = [job EXCEPT ![j].at = "hash", ![j].salt = row.salt]
        PROVE  Inv'
    <3> DEFINE r == [job[j] EXCEPT !.at = "hash", !.salt = row.salt]
    <3>1. row.salt \in Salt \cup {0}
      BY DEF Rows, Inv, TypeOK, Row
    <3>2. r \in Request /\ r.at = "hash"
      BY ZenonT(30), <3>1 DEF Inv, TypeOK, Request
    <3>3. job' = [job EXCEPT ![j] = r]
      BY <2>3 DEF Inv, TypeOK
    <3> QED BY <2>1, <3>2, <3>3, LoginStep
  <2> QED BY <1>2, <2>2, <2>3 DEF GetPasswdSalt
<1>3. ASSUME NEW name \in Name, NEW password \in Password, ComputeHash(j, name, password)
      PROVE  Inv'
  <2> DEFINE still == job[j].right /\ name = job[j].name /\ password = job[j].password
             r == [job[j] EXCEPT !.at = "valid", !.name = name, !.password = password, !.right = still]
  <2>1. still \in BOOLEAN
    BY DEF Inv, TypeOK, Request
  <2>2. job' = [job EXCEPT ![j] = r] /\ UNCHANGED <<redis, made, user, salts, faultsLeft>>
    BY <1>3 DEF ComputeHash, Inv, TypeOK
  <2> HIDE DEF still
  <2>3. r \in Request /\ r.at = "valid"
    BY ZenonT(40), <2>1 DEF Inv, TypeOK, Request
  <2> QED BY <2>2, <2>3, LoginStep
<1>4. CASE Answer(j) /\ UNCHANGED <<redis, made, user, salts, faultsLeft>>
  <2>1. job' = [job EXCEPT ![j] = Idle] /\ Idle \in Request /\ Idle.at = "idle"
    BY <1>4, IdleType DEF Answer, Idle
  <2> QED BY <1>4, <2>1, LoginStep
<1>5. CASE LoginValid(j)
  BY <1>4, <1>5, Moved, LoginStep DEF LoginValid, Inv
<1>6. CASE Refuse(j)
  BY <1>4, <1>6 DEF Refuse
<1> QED BY <1>1, <1>2, <1>3, <1>5, <1>6

LEMMA StepInv == Inv /\ [Next]_vars => Inv'
<1> SUFFICES ASSUME Inv, [Next]_vars PROVE Inv'
  OBVIOUS
<1>1. ASSUME NEW j \in Job, Click(j) PROVE Inv'
  <2>1. ASSUME NEW p \in Person, NEW e \in Person, NEW name \in Name, NEW password \in Password,
               NEW code \in Seen(p),
               RegisterClick(j, p, e, name, password, code) \/ ResetClick(j, p, e, password, code)
        PROVE  Inv'
    BY <2>1, SubmitInv DEF RegisterClick, ResetClick, Purpose
  <2> QED BY <1>1, <2>1, SendVerifyInv, LoginInv DEF Click
<1>2. ASSUME NEW j \in Job, VerifyServer(j) PROVE Inv'
  BY <1>2, GetCodeInv, SetCodeInv, ExpireInv, SendMailInv DEF VerifyServer
<1>3. ASSUME NEW j \in Job, CheckCode(j) \/ RegUser(j) \/ CheckEmailExist(j) \/ UpdatePasswordByEmail(j)
      PROVE  Inv'
  BY <1>3, CheckCodeInv, RegUserInv, CheckEmailExistInv, UpdateInv
<1>4. ASSUME NEW j \in Job, GetPasswdSalt(j) \/ LoginValid(j) \/ Refuse(j) PROVE Inv'
  BY <1>4, LoginInv
<1>5. CASE UNCHANGED vars
  BY <1>5 DEF vars, redis, made, Inv, TypeOK, Prepared, PreparedAt, OneKey, MadeFor, OnItsWay,
     Writing, Seen, KeyOf
<1> QED BY <1>1, <1>2, <1>3, <1>4, <1>5, TickInv, LoginInv, CallFailsInv DEF Next, GateServer

\* Types, for any persons, requests, bounds and faults.
THEOREM TypeCorrect == Spec => []TypeOK
<1>1. Inv => TypeOK
  BY DEF Inv
<1> QED BY <1>1, InitInv, StepInv, PTL DEF Spec

\* Only UPDATE and the procedure change a row, and only the one of the address.
LEMMA RowsOf ==
    ASSUME Inv, Next, NEW e \in Person, user'[e] # user[e]
    PROVE  \E j \in Job : /\ RegUser(j) \/ UpdatePasswordByEmail(j)
                          /\ job[j].email = e
<1>1. ~UNCHANGED user
  OBVIOUS
<1>2. ASSUME NEW j \in Job, Click(j) PROVE UNCHANGED user
  BY <1>2 DEF Click, SendVerify, RegisterClick, ResetClick, Submit, LoginClick
<1>3. ASSUME NEW j \in Job, VerifyServer(j) PROVE UNCHANGED user
  BY <1>3 DEF VerifyServer, GetCode, SetCode, Expire, SendMail
<1>4. ASSUME NEW j \in Job, NEW name, NEW password,
             CheckCode(j) \/ CheckEmailExist(j) \/ GetPasswdSalt(j) \/ LoginValid(j) \/ Refuse(j)
             \/ CallFails(j) \/ ComputeHash(j, name, password)
      PROVE  UNCHANGED user
  BY <1>4 DEF CheckCode, CheckEmailExist, GetPasswdSalt, LoginValid, Refuse, CallFails, ComputeHash
<1>5. PICK j \in Job : RegUser(j) \/ UpdatePasswordByEmail(j)
  <2>1. Tick => UNCHANGED user
    BY DEF Tick
  <2>2. PICK j \in Job : \/ Click(j) \/ VerifyServer(j) \/ GateServer(j)
                         \/ \E name \in Name, password \in Password : ComputeHash(j, name, password)
    BY <1>1, <2>1 DEF Next
  <2> QED BY <1>1, <1>2, <1>3, <1>4, <2>2 DEF GateServer
<1>6. user' = [user EXCEPT ![job[j].email] = user'[job[j].email]]
  BY <1>5 DEF RegUser, UpdatePasswordByEmail, Inv, TypeOK
<1>7. job[j].email = e
  BY <1>6 DEF Inv, TypeOK
<1> QED BY <1>5, <1>7

\* An account is made and changed by the owner of its address only.
THEOREM OwnersOnly == Spec => OwnerChanges
<1> DEFINE Owned == \A e \in Person : user'[e] # user[e] =>
        \E j \in Job : /\ job[j].at \in {"checked", "update"} /\ job'[j].at = "idle"
                       /\ job[j].by = e /\ job[j].code \in mailed[KeyOf(j)]
<1>1. Inv /\ [Next]_vars => [Owned]_vars
  <2> SUFFICES ASSUME Inv, Next, NEW e \in Person, user'[e] # user[e]
               PROVE  \E j \in Job : /\ job[j].at \in {"checked", "update"} /\ job'[j].at = "idle"
                                     /\ job[j].by = e /\ job[j].code \in mailed[KeyOf(j)]
    OBVIOUS
  <2>1. PICK j \in Job : (RegUser(j) \/ UpdatePasswordByEmail(j)) /\ job[j].email = e
    BY RowsOf
  <2>2. job[j].at \in {"checked", "update"}
    BY <2>1 DEF RegUser, UpdatePasswordByEmail
  <2>3. job'[j].at = "idle"
    BY <2>1, Answered DEF RegUser, UpdatePasswordByEmail, Inv, Idle
  <2> QED BY <2>1, <2>2, <2>3 DEF Inv, Prepared, PreparedAt
<1> QED BY <1>1, InitInv, StepInv, PTL DEF Spec, OwnerChanges
-----------------------------------------------------------------------------
(* A right password is refused only for a reason.  The argument: a row has    *)
(* the salt that its hash was made with, a name has one row, and a login that *)
(* is right knows the password, and later the salt, of that row.              *)

RowsMatch ==
    /\ \A e \in Person : user[e].hash[2] = user[e].salt
    /\ \A e, f \in Person : user[e].name = user[f].name /\ user[e].name # None => e = f

Knows(j) ==
    job[j].right =>
        /\ job[j].at \in {"salt", "hash", "valid"} /\ job[j].name # None
        /\ \E row \in Rows(job[j].name) :
               /\ row.hash[1] = job[j].password
               /\ job[j].at # "salt" => row.salt = job[j].salt

Login == RowsMatch /\ \A j \in Job : Knows(j)

LEMMA InitLogin == Init => Login
BY DEF Init, Login, RowsMatch, Knows, NoUser, Idle

\* A step of one request that leaves the rows alone.
LEMMA OneLogin ==
    ASSUME TypeOK, Login, UNCHANGED user, NEW j \in Job, NEW r, job' = [job EXCEPT ![j] = r],
           r.right =>
               /\ r.at \in {"salt", "hash", "valid"} /\ r.name # None
               /\ \E row \in Rows(r.name) : /\ row.hash[1] = r.password
                                            /\ r.at # "salt" => row.salt = r.salt
    PROVE  Login'
<1>1. job'[j] = r /\ \A i \in Job : i # j => job'[i] = job[i]
  BY DEF TypeOK
<1>2. \A name : Rows(name)' = Rows(name)
  BY DEF Rows
<1>3. \A i \in Job : Knows(i)'
  BY <1>1, <1>2 DEF Login, Knows
<1> QED BY <1>3 DEF Login, RowsMatch

LEMMA NotRight ==
    ASSUME TypeOK, Login, UNCHANGED user, NEW j \in Job, NEW r, job' = [job EXCEPT ![j] = r], ~r.right
    PROVE  Login'
BY OneLogin

LEMMA AnsweredLogin ==
    ASSUME TypeOK, Login, UNCHANGED user, NEW j \in Job, Answer(j)
    PROVE  Login'
<1>1. job' = [job EXCEPT ![j] = Idle] /\ ~Idle.right
  BY DEF Answer, Idle
<1> QED BY <1>1, NotRight

\* A request that is no login, or has been refused, is not right.
LEMMA StepLogin ==
    ASSUME TypeOK, Login, UNCHANGED user, NEW j \in Job, NEW from, NEW to, Step(j, from, to),
           ~job[j].right
    PROVE  Login'
<1>1. job' = [job EXCEPT ![j] = [job[j] EXCEPT !.at = to]] /\ ~[job[j] EXCEPT !.at = to].right
  BY DEF Step, TypeOK, Request
<1> QED BY <1>1, NotRight

LEMMA VerifyLogin == ASSUME TypeOK, Login, NEW j \in Job, VerifyServer(j) PROVE Login'
<1>1. job[j].at \in {"get", "set", "expire", "mail"} /\ UNCHANGED user
  BY DEF VerifyServer, GetCode, SetCode, Expire, SendMail, Step
<1>2. ~job[j].right
  BY <1>1 DEF Login, Knows
<1>3. ASSUME NEW to, NEW code, job' = [job EXCEPT ![j].at = to, ![j].code = code]
      PROVE  Login'
  <2>1. job' = [job EXCEPT ![j] = [job[j] EXCEPT !.at = to, !.code = code]]
    BY <1>3
  <2>2. ~[job[j] EXCEPT !.at = to, !.code = code].right
    BY <1>2 DEF TypeOK, Request
  <2> QED BY <1>1, <2>1, <2>2, NotRight
<1>4. CASE GetCode(j)
  BY <1>3, <1>4 DEF GetCode
<1> QED BY <1>1, <1>2, <1>4, StepLogin, AnsweredLogin DEF VerifyServer, SetCode, Expire, SendMail

LEMMA RegUserLogin == ASSUME TypeOK, Login, NEW j \in Job, RegUser(j) PROVE Login'
<1>1. CASE UNCHANGED user
  BY <1>1, AnsweredLogin DEF RegUser
<1>2. CASE user' # user
  <2> DEFINE new == [name |-> job[j].name, hash |-> Secret(j), salt |-> job[j].salt]
             e == job[j].email
  <2>1. /\ user' = [user EXCEPT ![e] = new] /\ user[e] = NoUser
        /\ \A f \in Person : user[f].name # job[j].name
    BY <1>2 DEF RegUser
  <2>2. e \in Person /\ user'[e] = new /\ \A f \in Person : f # e => user'[f] = user[f]
    BY <1>2, <2>1 DEF TypeOK
  <2>3. new.name = job[j].name /\ new.hash[2] = new.salt
    BY DEF Secret
  <2> HIDE DEF new
  <2>4. RowsMatch'
    BY <2>1, <2>2, <2>3 DEF Login, RowsMatch
  <2>5. \A name : name # None => Rows(name) \subseteq Rows(name)'
    BY <2>1, <2>2 DEF Rows, NoUser
  <2>6. \A i \in Job : Knows(i)'
    BY <2>5, Answered DEF RegUser, Login, Knows, Idle
  <2> QED BY <2>4, <2>6 DEF Login
<1> QED BY <1>1, <1>2

LEMMA UpdateLogin == ASSUME TypeOK, Login, NEW j \in Job, UpdatePasswordByEmail(j) PROVE Login'
<1> DEFINE e == job[j].email
           new == NewPassword(user[e], j)
<1>1. user' = [user EXCEPT ![e] = new]
  BY DEF UpdatePasswordByEmail
<1>2. \A f \in Person : f # e => user'[f] = user[f]
  BY <1>1 DEF TypeOK
<1>3. e \in Person => user'[e] = new /\ new.name = user[e].name /\ new.hash[2] = new.salt
  BY <1>1 DEF TypeOK, Row, NewPassword, Secret
<1> HIDE DEF new
<1>4. RowsMatch'
  BY <1>2, <1>3 DEF Login, RowsMatch
<1>5. ASSUME NEW i \in Job, job'[i].right
      PROVE  /\ job'[i] = job[i] /\ job[i].right /\ job[i].name # user[e].name
  <2>1. job'[i] = IF i = j THEN Idle ELSE [job[i] EXCEPT !.right = @ /\ job[i].name # user[e].name]
    BY DEF UpdatePasswordByEmail
  <2>2. job[i] \in Request
    BY DEF TypeOK
  <2>3. job[i].right /\ job[i].name # user[e].name
    <3> DEFINE b == job[i].right /\ job[i].name # user[e].name
    <3>1. i # j /\ job'[i] = [job[i] EXCEPT !.right = b]
      BY <1>5, <2>1 DEF Idle
    <3> HIDE DEF b
    <3>2. job'[i].right = b
      BY <2>2, <3>1 DEF Request
    <3> QED BY <1>5, <3>2 DEF b
  <2>4. job'[i] = job[i]
    BY <1>5, <2>1, <2>2, <2>3 DEF Idle, Request
  <2> QED BY <2>3, <2>4
<1>6. \A name : name # user[e].name => Rows(name) \subseteq Rows(name)'
  BY <1>2 DEF Rows
<1>7. \A i \in Job : Knows(i)'
  BY <1>5, <1>6 DEF Login, Knows
<1> QED BY <1>4, <1>7 DEF Login

LEMMA PasswordLogin ==
    ASSUME TypeOK, Login, NEW j \in Job,
           \/ \E name \in Name, password \in Password :
                  LoginClick(j, name, password) \/ ComputeHash(j, name, password)
           \/ GetPasswdSalt(j) \/ LoginValid(j) \/ Refuse(j)
    PROVE  Login'
<1>1. UNCHANGED user
  BY DEF LoginClick, ComputeHash, GetPasswdSalt, LoginValid, Refuse
<1>2. Knows(j)
  BY DEF Login
<1>3. ASSUME NEW name \in Name, NEW password \in Password, LoginClick(j, name, password)
      PROVE  Login'
  <2> DEFINE good == \E row \in Rows(name) : row.hash[1] = password
             r == [Idle EXCEPT !.at = "salt", !.name = name, !.password = password, !.right = good]
  <2>1. job' = [job EXCEPT ![j] = r]
    BY <1>3 DEF LoginClick
  <2> HIDE DEF good
  <2>2. r.at = "salt" /\ r.name = name /\ r.password = password /\ r.right = good
    BY DEF Idle
  <2> HIDE DEF r
  <2>3. name # None
    BY AccountsAssumption
  <2>4. r.right => /\ r.at \in {"salt", "hash", "valid"} /\ r.name # None
                   /\ \E row \in Rows(r.name) : /\ row.hash[1] = r.password
                                                /\ r.at # "salt" => row.salt = r.salt
    BY <2>2, <2>3 DEF good
  <2> QED BY <1>1, <2>1, <2>4, OneLogin
<1>4. CASE GetPasswdSalt(j)
  <2>1. CASE Rows(job[j].name) = {}
    BY <1>1, <1>2, <1>4, <2>1, StepLogin DEF GetPasswdSalt, Knows
  <2>2. ASSUME NEW row \in Rows(job[j].name),
               job' = [job EXCEPT ![j].at = "hash", ![j].salt = row.salt]
        PROVE  Login'
    <3> DEFINE r == [job[j] EXCEPT !.at = "hash", !.salt = row.salt]
    <3>1. job' = [job EXCEPT ![j] = r]
      BY <2>2 DEF TypeOK
    <3>2. r.at = "hash" /\ r.name = job[j].name /\ r.password = job[j].password
          /\ r.salt = row.salt /\ r.right = job[j].right
      BY DEF TypeOK, Request
    <3> HIDE DEF r
    <3>3. job[j].name # None => \A other \in Rows(job[j].name) : other = row
      BY DEF Rows, Login, RowsMatch
    <3>4. r.right => /\ r.at \in {"salt", "hash", "valid"} /\ r.name # None
                     /\ row.hash[1] = r.password /\ row.salt = r.salt
      BY <1>2, <3>2, <3>3 DEF Knows
    <3> QED BY <1>1, <3>1, <3>2, <3>4, OneLogin
  <2> QED BY <1>4, <2>1, <2>2 DEF GetPasswdSalt
<1>5. ASSUME NEW name \in Name, NEW password \in Password, ComputeHash(j, name, password)
      PROVE  Login'
  <2> DEFINE still == job[j].right /\ name = job[j].name /\ password = job[j].password
             r == [job[j] EXCEPT !.at = "valid", !.name = name, !.password = password, !.right = still]
  <2>1. job[j].at = "hash" /\ job' = [job EXCEPT ![j] = r]
    BY <1>5 DEF ComputeHash, TypeOK
  <2> HIDE DEF still
  <2>2. r.at = "valid" /\ r.name = name /\ r.password = password /\ r.salt = job[j].salt
        /\ r.right = still
    BY DEF TypeOK, Request
  <2> HIDE DEF r
  <2>3. r.right => /\ r.at \in {"salt", "hash", "valid"} /\ r.name # None
                   /\ \E row \in Rows(r.name) : /\ row.hash[1] = r.password
                                                /\ r.at # "salt" => row.salt = r.salt
    BY <1>2, <2>1, <2>2 DEF Knows, still
  <2> QED BY <1>1, <2>1, <2>3, OneLogin
<1>6. CASE LoginValid(j)
  <2>1. CASE \E row \in Rows(job[j].name) : row.hash = Secret(j)
    BY <1>1, <1>6, <2>1, AnsweredLogin DEF LoginValid
  <2>2. CASE ~\E row \in Rows(job[j].name) : row.hash = Secret(j)
    <3>1. ASSUME job[j].right PROVE FALSE
      <4>1. PICK row \in Rows(job[j].name) : row.hash[1] = job[j].password /\ row.salt = job[j].salt
        BY <1>2, <1>6, <3>1 DEF Knows, LoginValid
      <4>2. row \in Row /\ row.hash[2] = row.salt
        BY DEF Rows, TypeOK, Login, RowsMatch
      <4>3. row.hash = <<row.hash[1], row.hash[2]>>
        BY <4>2 DEF Row
      <4> QED BY <2>2, <4>1, <4>2, <4>3 DEF Secret
    <3> QED BY <1>1, <1>6, <2>2, <3>1, StepLogin DEF LoginValid
  <2> QED BY <2>1, <2>2
<1>7. CASE Refuse(j)
  BY <1>1, <1>7, AnsweredLogin DEF Refuse
<1> QED BY <1>3, <1>4, <1>5, <1>6, <1>7

LEMMA CallFailsLogin == ASSUME TypeOK, Login, NEW j \in Job, CallFails(j) PROVE Login'
<1>1. UNCHANGED user
  BY DEF CallFails
<1>2. CASE job' = [job EXCEPT ![j].at = "refused", ![j].right = FALSE]
  <2> DEFINE r == [job[j] EXCEPT !.at = "refused", !.right = FALSE]
  <2>1. job' = [job EXCEPT ![j] = r] /\ ~r.right
    BY ZenonT(30), <1>2 DEF TypeOK, Request
  <2> QED BY <1>1, <2>1, NotRight
<1> QED BY <1>1, <1>2, AnsweredLogin DEF CallFails

LEMMA WriteLogin ==
    ASSUME TypeOK, Login, NEW j \in Job, CheckCode(j) \/ CheckEmailExist(j)
    PROVE  Login'
<1>1. job[j].at \in {"check", "checked"} /\ UNCHANGED user
  BY DEF CheckCode, CheckEmailExist, Step
<1>2. ~job[j].right
  BY <1>1 DEF Login, Knows
<1> QED BY <1>1, <1>2, StepLogin, AnsweredLogin DEF CheckCode, CheckEmailExist

LEMMA ClickLogin == ASSUME TypeOK, Login, NEW j \in Job, Click(j) PROVE Login'
<1>1. ASSUME NEW e \in Person, NEW purpose \in Purpose, SendVerify(j, e, purpose)
      PROVE  Login'
  <2>1. job' = [job EXCEPT ![j] = [Idle EXCEPT !.at = "get", !.email = e, !.purpose = purpose]]
        /\ UNCHANGED user /\ ~[Idle EXCEPT !.at = "get", !.email = e, !.purpose = purpose].right
    BY <1>1 DEF SendVerify, Idle
  <2> QED BY <2>1, NotRight
<1>2. ASSUME NEW p, NEW e, NEW purpose, NEW name, NEW password, NEW code,
             Submit(j, p, e, purpose, name, password, code)
      PROVE  Login'
  <2> DEFINE r == [at |-> "check", by |-> p, email |-> e, purpose |-> purpose,
                   code |-> code, name |-> name, password |-> password, salt |-> salts + 1,
                   right |-> FALSE]
  <2>1. job' = [job EXCEPT ![j] = r] /\ UNCHANGED user /\ ~r.right
    BY <1>2 DEF Submit
  <2> QED BY <2>1, NotRight
<1> QED BY <1>1, <1>2, PasswordLogin DEF Click, RegisterClick, ResetClick

LEMMA LoginKept == TypeOK /\ Login /\ [Next]_vars => Login'
<1> SUFFICES ASSUME TypeOK, Login, [Next]_vars PROVE Login'
  OBVIOUS
<1>1. Tick \/ UNCHANGED vars => Login'
  BY DEF Tick, vars, Login, RowsMatch, Knows, Rows
<1>2. ASSUME NEW j \in Job, GateServer(j) PROVE Login'
  BY <1>2, WriteLogin, RegUserLogin, UpdateLogin, PasswordLogin, CallFailsLogin DEF GateServer
<1> QED BY <1>1, <1>2, ClickLogin, VerifyLogin, PasswordLogin DEF Next

\* The right name and password are refused only if a call fails or the texts are
\* edited, or the password reset, while the login is under way.
THEOREM RightIsAccepted == Spec => []RightAccepted
<1>1. Login => RightAccepted
  BY DEF Login, Knows, RightAccepted
<1> QED BY <1>1, InitLogin, LoginKept, TypeCorrect, PTL DEF Spec

-----------------------------------------------------------------------------
(* A code that was mailed is the stored one until its time is over.  The        *)
(* argument: of the requests for a key one at most is storing a code; it found  *)
(* nothing, and nothing else writes the key before it; and a stored code lasts  *)
(* at least as long as its ten minutes, because they begin with EXPIRE.         *)

Stores(j, k) == job[j].at \in {"set", "expire"} /\ KeyOf(j) = k
Mails(j, k, c) == job[j].at = "mail" /\ KeyOf(j) = k /\ job[j].code = c

StoredFor(k) ==
    /\ \A i, j \in Job : Stores(i, k) /\ Stores(j, k) => i = j
    /\ \A j \in Job : Stores(j, k) =>
           /\ job[j].at = "set" => store[k] = 0
           /\ job[j].at = "expire" => store[k] = job[j].code /\ ttl[k] = Forever
    /\ store[k] # 0 => due[store[k]] <= ttl[k]
    /\ \A c \in Code : c \in mailed[k] \/ (\E j \in Job : Mails(j, k, c)) =>
           (due[c] > 0 => store[k] = c)

Stored == \A k \in Key : ~raced[k] => StoredFor(k)

LEMMA InitStored == Init => Stored
BY DEF Init, Stored, StoredFor, Stores, Mails, Idle

\* The steps that neither write a code nor send one.
LEMMA Elsewhere ==
    ASSUME Stored, UNCHANGED <<redis, due, mailed, raced>>,
           \A i \in Job : OnItsWay(i)' => job'[i].at = job[i].at /\ KeyOf(i)' = KeyOf(i)
                                          /\ job'[i].code = job[i].code
    PROVE  Stored'
<1>1. /\ \A i \in Job, k \in Key : Stores(i, k)' =>
             Stores(i, k) /\ job'[i].at = job[i].at /\ job'[i].code = job[i].code
      /\ \A i \in Job, k \in Key, c \in Code : Mails(i, k, c)' => Mails(i, k, c)
  BY DEF Stores, Mails, OnItsWay
<1>2. ASSUME NEW k \in Key, StoredFor(k) PROVE StoredFor(k)'
  BY <1>1, <1>2 DEF StoredFor, redis
<1> QED BY <1>2 DEF Stored

LEMMA OneElsewhere ==
    ASSUME TypeOK, Stored, UNCHANGED <<redis, due, mailed, raced>>,
           NEW j \in Job, NEW r, job' = [job EXCEPT ![j] = r],
           r.at \notin {"set", "expire", "mail"}
    PROVE  Stored'
<1>1. job'[j] = r /\ \A i \in Job : i # j => job'[i] = job[i]
  BY DEF TypeOK
<1> QED BY <1>1, Elsewhere DEF OnItsWay, KeyOf

LEMMA AnsweredElsewhere ==
    ASSUME TypeOK, Stored, UNCHANGED <<redis, due, mailed, raced>>, NEW j \in Job, Answer(j)
    PROVE  Stored'
<1>1. job' = [job EXCEPT ![j] = Idle] /\ Idle.at = "idle"
  BY DEF Answer, Idle
<1> QED BY <1>1, OneElsewhere

LEMMA MovedElsewhere ==
    ASSUME TypeOK, Stored, UNCHANGED <<redis, due, mailed, raced>>, NEW j \in Job,
           NEW from, NEW to \in {"checked", "update", "refused"}, Step(j, from, to)
    PROVE  Stored'
BY Moved, OneElsewhere

LEMMA GetCodeStored == ASSUME Inv, Stored, NEW j \in Job, GetCode(j) PROVE Stored'
<1> DEFINE key == KeyOf(j)
<1>1. /\ job[j].at = "get" /\ key \in Key /\ UNCHANGED <<redis, due, mailed>>
  BY KeyIn DEF GetCode, Inv, Prepared, PreparedAt
<1>2. CASE /\ store[key] # 0 /\ UNCHANGED raced
           /\ job' = [job EXCEPT ![j].at = "mail", ![j].code = store[key]]
  <2>1. /\ job'[j].at = "mail" /\ job'[j].code = store[key] /\ KeyOf(j)' = key
        /\ \A i \in Job : i # j => job'[i] = job[i]
    BY <1>2 DEF Inv, TypeOK, Request, KeyOf
  <2>2. \A i \in Job, k \in Key : Stores(i, k)' => i # j /\ Stores(i, k)
    BY <2>1 DEF Stores, KeyOf
  <2>3. \A i \in Job, k \in Key, c \in Code : Mails(i, k, c)' => Mails(i, k, c) \/ c = store[k]
    BY <2>1 DEF Mails, KeyOf
  <2>4. ASSUME NEW k \in Key, StoredFor(k) PROVE StoredFor(k)'
    BY <1>1, <2>1, <2>2, <2>3, <2>4 DEF StoredFor, redis
  <2> QED BY <1>2, <2>4 DEF Stored
<1>3. CASE /\ (store[key] = 0 /\ Works) \/ Fails
           /\ job' = [job EXCEPT ![j].at = "set", ![j].code = codes + 1]
           /\ raced' = [raced EXCEPT ![key] = \/ @ \/ faultsLeft' # faultsLeft
                            \/ \E i \in Job : job[i].at = "set" /\ KeyOf(i) = key]
  <2>1. /\ job'[j].at = "set" /\ KeyOf(j)' = key
        /\ \A i \in Job : i # j => job'[i] = job[i]
    BY <1>3 DEF Inv, TypeOK, Request, KeyOf
  <2>2. \A i \in Job, k \in Key : Stores(i, k)' => Stores(i, k) \/ (i = j /\ k = key)
    BY <2>1 DEF Stores, KeyOf
  <2>3. \A i \in Job, k \in Key, c \in Code : Mails(i, k, c)' => Mails(i, k, c)
    BY <2>1 DEF Mails, KeyOf
  <2>4. ASSUME NEW k \in Key, ~raced'[k] PROVE StoredFor(k)'
    <3>1. ~raced[k] /\ StoredFor(k)
      BY <1>3, <2>4 DEF Inv, TypeOK, Stored
    <3>2. CASE k # key
      BY <1>1, <2>1, <2>2, <2>3, <3>1, <3>2 DEF StoredFor, redis, Stores, KeyOf
    <3>3. CASE k = key
      <4>1. /\ ~(faultsLeft' # faultsLeft)
            /\ ~\E i \in Job : job[i].at = "set" /\ KeyOf(i) = key
        BY <1>1, <1>3, <2>4, <3>3 DEF Inv, TypeOK
      <4>2. faultsLeft \in Nat
        BY AccountsAssumption DEF Inv, TypeOK
      <4>3. store[key] = 0
        BY <1>3, <4>1, <4>2 DEF Fails
      <4>4. \A i \in Job : ~Stores(i, key)
        <5> SUFFICES ASSUME NEW i \in Job, Stores(i, key) PROVE FALSE
          OBVIOUS
        <5>1. job[i].at = "expire"
          BY <4>1 DEF Stores
        <5>2. job[i].code \in Code /\ store[key] = job[i].code
          BY <3>1, <3>3, <5>1 DEF StoredFor, Inv, Prepared, PreparedAt, OnItsWay
        <5> QED BY <4>3, <5>2 DEF Code
      <4> QED BY <1>1, <2>1, <2>2, <2>3, <3>1, <3>3, <4>3, <4>4 DEF StoredFor, redis
    <3> QED BY <3>2, <3>3
  <2> QED BY <2>4 DEF Stored
<1> QED BY <1>2, <1>3 DEF GetCode

LEMMA SetCodeStored == ASSUME Inv, Stored, NEW j \in Job, SetCode(j) PROVE Stored'
<1> DEFINE key == KeyOf(j)
<1>1. /\ job[j].at = "set" /\ key \in Key /\ job[j].code \in Code /\ UNCHANGED made
  BY KeyIn DEF SetCode, Inv, Prepared, PreparedAt, OnItsWay
<1>2. CASE /\ store' = [store EXCEPT ![key] = job[j].code]
           /\ ttl' = [ttl EXCEPT ![key] = Forever]
           /\ Step(j, "set", "expire")
  <2>1. PICK r : /\ job'[j] = r
                 /\ r.at = "expire" /\ r.email = job[j].email
                 /\ r.purpose = job[j].purpose /\ r.code = job[j].code
                 /\ \A i \in Job : i # j => job'[i] = job[i]
    BY <1>2, Moved DEF Inv
  <2>2. \A i \in Job, k \in Key : Stores(i, k)' => Stores(i, k)
    BY <1>1, <2>1 DEF Stores, KeyOf
  <2>3. \A i \in Job, k \in Key, c \in Code : Mails(i, k, c)' => Mails(i, k, c)
    BY <2>1 DEF Mails, KeyOf
  <2>4. ASSUME NEW k \in Key, ~raced[k] PROVE StoredFor(k)'
    <3>1. StoredFor(k)
      BY <2>4 DEF Stored
    <3>2. CASE k # key
      <4>1. store'[k] = store[k] /\ ttl'[k] = ttl[k]
        BY <1>2, <3>2 DEF Inv, TypeOK
      <4>2. ~Stores(j, k)
        BY <3>2 DEF Stores
      <4> QED BY <1>1, <2>1, <2>2, <2>3, <3>1, <4>1, <4>2 DEF StoredFor, made
    <3>3. CASE k = key
      <4>1. store'[k] = job[j].code /\ ttl'[k] = Forever
        BY <1>1, <1>2, <3>3 DEF Inv, TypeOK
      <4>2. Stores(j, k) /\ store[k] = 0
        BY <1>1, <3>1, <3>3 DEF Stores, StoredFor
      <4>3. \A i \in Job : Stores(i, k)' => i = j
        BY <2>2, <3>1, <4>2 DEF StoredFor
      <4>4. due[job[j].code] <= Forever /\ UNCHANGED <<due, mailed>>
        BY <1>1, AccountsAssumption DEF Inv, TypeOK, Forever, made
      <4>5. \A c \in Code : c \in mailed[k] \/ (\E i \in Job : Mails(i, k, c)) => ~(due[c] > 0)
        BY <3>1, <4>2 DEF StoredFor, Code
      <4> QED BY <2>1, <2>3, <4>1, <4>3, <4>4, <4>5 DEF StoredFor
    <3> QED BY <3>2, <3>3
  <2> QED BY <1>1, <2>4 DEF Stored, made
<1>3. CASE Answer(j) /\ UNCHANGED redis
  BY <1>1, <1>3, AnsweredElsewhere DEF Inv, made
<1> QED BY <1>2, <1>3 DEF SetCode

LEMMA ExpireStored == ASSUME Inv, Stored, NEW j \in Job, Expire(j) PROVE Stored'
<1> DEFINE key == KeyOf(j)
           code == job[j].code
<1>1. /\ job[j].at = "expire" /\ key \in Key /\ code \in Code
      /\ UNCHANGED <<store, mailed, raced>>
  BY KeyIn DEF Expire, Inv, Prepared, PreparedAt, OnItsWay
<1>2. CASE /\ ttl' = [ttl EXCEPT ![key] = IF store[key] = 0 THEN 0 ELSE Lifetime]
           /\ due' = [due EXCEPT ![code] = Lifetime]
           /\ Step(j, "expire", "mail")
  <2>1. PICK r : /\ job'[j] = r
                 /\ r.at = "mail" /\ r.email = job[j].email
                 /\ r.purpose = job[j].purpose /\ r.code = code
                 /\ \A i \in Job : i # j => job'[i] = job[i]
    BY <1>2, Moved DEF Inv
  <2>2. \A i \in Job, k \in Key : Stores(i, k)' => i # j /\ Stores(i, k)
    BY <2>1 DEF Stores, KeyOf
  <2>3. \A i \in Job, k \in Key, c \in Code : Mails(i, k, c)' => Mails(i, k, c) \/ (k = key /\ c = code)
    BY <2>1 DEF Mails, KeyOf
  <2>4. MadeFor(key, code)
    BY <1>1 DEF MadeFor, OnItsWay
  <2>5. /\ due'[code] = Lifetime
        /\ \A c \in Code : c # code => due'[c] = due[c]
    BY <1>1, <1>2 DEF Inv, TypeOK
  <2>6. ASSUME NEW k \in Key, ~raced[k] PROVE StoredFor(k)'
    <3>1. StoredFor(k)
      BY <2>6 DEF Stored
    <3>2. store[k] \in Code \cup {0}
      BY DEF Inv, TypeOK
    <3>3. CASE k # key
      <4>1. ~MadeFor(k, code)
        BY <1>1, <2>4, <3>3 DEF Inv, OneKey
      <4>2. /\ store[k] # code /\ code \notin mailed[k]
            /\ \A i \in Job : ~Mails(i, k, code)
        BY <4>1 DEF MadeFor, OnItsWay, Mails
      <4>3. ttl'[k] = ttl[k]
        BY <1>2, <3>3 DEF Inv, TypeOK
      <4>4. store'[k] # 0 => due'[store'[k]] <= ttl'[k]
        BY <1>1, <2>5, <3>1, <3>2, <4>2, <4>3 DEF StoredFor
      <4>5. \A c \in Code : c \in mailed'[k] \/ (\E i \in Job : Mails(i, k, c)') =>
                (due'[c] > 0 => store'[k] = c)
        BY <1>1, <2>3, <2>5, <3>1, <3>3, <4>2 DEF StoredFor
      <4>6. \A i \in Job : Stores(i, k)' => Stores(i, k) /\ job'[i] = job[i]
        BY <2>1, <2>2
      <4> QED BY <1>1, <3>1, <4>3, <4>4, <4>5, <4>6 DEF StoredFor
    <3>4. CASE k = key
      <4>1. Stores(j, k) /\ store[k] = code
        BY <1>1, <3>1, <3>4 DEF Stores, StoredFor
      <4>2. \A i \in Job : ~Stores(i, k)'
        BY <2>2, <3>1, <4>1 DEF StoredFor
      <4>3. code # 0
        BY <1>1 DEF Code
      <4>4. ttl'[k] = Lifetime
        BY <1>1, <1>2, <3>4, <4>1, <4>3 DEF Inv, TypeOK
      <4>5. store'[k] # 0 => due'[store'[k]] <= ttl'[k]
        BY <1>1, <2>5, <4>1, <4>4, AccountsAssumption
      <4>6. \A c \in Code : c \in mailed'[k] \/ (\E i \in Job : Mails(i, k, c)') =>
                (due'[c] > 0 => store'[k] = c)
        BY <1>1, <2>3, <2>5, <3>1, <4>1 DEF StoredFor
      <4> QED BY <4>2, <4>5, <4>6 DEF StoredFor
    <3> QED BY <3>3, <3>4
  <2> QED BY <1>1, <2>6 DEF Stored
<1>3. CASE Answer(j) /\ UNCHANGED <<ttl, due>>
  BY <1>1, <1>3, AnsweredElsewhere DEF Inv, redis
<1> QED BY <1>2, <1>3 DEF Expire

LEMMA SendMailStored == ASSUME Inv, Stored, NEW j \in Job, SendMail(j) PROVE Stored'
<1>1. /\ job[j].at = "mail" /\ UNCHANGED <<redis, due, raced>>
      /\ \A k \in Key, c \in Code : c \in mailed'[k] => c \in mailed[k] \/ Mails(j, k, c)
  BY DEF SendMail, Mails, Inv, TypeOK
<1>2. job'[j] = Idle /\ \A i \in Job : i # j => job'[i] = job[i]
  BY Answered DEF SendMail, Inv
<1>3. /\ \A i \in Job, k \in Key : Stores(i, k)' => Stores(i, k) /\ job'[i] = job[i]
      /\ \A i \in Job, k \in Key, c \in Code : Mails(i, k, c)' => Mails(i, k, c)
  BY <1>2 DEF Stores, Mails, KeyOf, Idle
<1>4. ASSUME NEW k \in Key, StoredFor(k) PROVE StoredFor(k)'
  BY <1>1, <1>3, <1>4 DEF StoredFor, redis
<1> QED BY <1>1, <1>4 DEF Stored

LEMMA TickStored == ASSUME Inv, Stored, Tick PROVE Stored'
<1>1. UNCHANGED <<mailed, raced, job>>
  BY DEF Tick
<1>2. ASSUME NEW k \in Key, StoredFor(k) PROVE StoredFor(k)'
  <2>1. /\ store[k] \in Code \cup {0} /\ ttl[k] \in Nat /\ Lifetime \in Nat \ {0}
        /\ Forever = Lifetime + 1 /\ 0 \notin Code
        /\ \A c \in Code : due[c] \in 0..Lifetime
    BY AccountsAssumption DEF Inv, TypeOK, Forever, Code
  <2>2. /\ store'[k] = IF ttl[k] = 1 THEN 0 ELSE store[k]
        /\ ttl'[k] = IF ttl[k] \in {0, Forever} THEN ttl[k] ELSE ttl[k] - 1
        /\ \A c \in Code : due'[c] = IF due[c] = 0 THEN 0 ELSE due[c] - 1
    BY DEF Tick
  <2>3. \A i \in Job : /\ Stores(i, k)' <=> Stores(i, k)
                       /\ \A c \in Code : Mails(i, k, c)' <=> Mails(i, k, c)
    BY <1>1 DEF Stores, Mails, KeyOf
  <2>4. \A i \in Job : Stores(i, k)' =>
           /\ job'[i].at = "set" => store'[k] = 0
           /\ job'[i].at = "expire" => store'[k] = job'[i].code /\ ttl'[k] = Forever
    BY <1>1, <1>2, <2>1, <2>2, <2>3 DEF StoredFor
  <2>5. store'[k] # 0 => due'[store'[k]] <= ttl'[k]
    <3> SUFFICES ASSUME store'[k] # 0 PROVE due'[store[k]] <= ttl'[k] /\ store'[k] = store[k]
      OBVIOUS
    <3>1. store'[k] = store[k] /\ store[k] \in Code /\ ttl[k] # 1 /\ due[store[k]] <= ttl[k]
      BY <1>2, <2>1, <2>2 DEF StoredFor
    <3> QED BY <2>1, <2>2, <3>1
  <2>6. \A c \in Code : c \in mailed'[k] \/ (\E i \in Job : Mails(i, k, c)') =>
           (due'[c] > 0 => store'[k] = c)
    <3> SUFFICES ASSUME NEW c \in Code, c \in mailed'[k] \/ (\E i \in Job : Mails(i, k, c)'), due'[c] > 0
                 PROVE  store'[k] = c
      OBVIOUS
    <3>1. due[c] > 1
      BY <2>1, <2>2
    <3>2. store[k] = c
      BY <1>1, <1>2, <2>1, <2>3, <3>1 DEF StoredFor
    <3>3. ttl[k] # 1
      BY <1>2, <2>1, <3>1, <3>2 DEF StoredFor
    <3> QED BY <2>2, <3>2, <3>3
  <2> QED BY <1>2, <2>3, <2>4, <2>5, <2>6 DEF StoredFor
<1> QED BY <1>1, <1>2 DEF Stored

LEMMA PasswordStored ==
    ASSUME Inv, Stored, NEW j \in Job,
           \/ \E name \in Name, password \in Password :
                  LoginClick(j, name, password) \/ ComputeHash(j, name, password)
           \/ GetPasswdSalt(j) \/ LoginValid(j) \/ Refuse(j) \/ CallFails(j)
    PROVE  Stored'
<1>1. UNCHANGED <<redis, due, mailed, raced>>
  BY DEF LoginClick, ComputeHash, GetPasswdSalt, LoginValid, Refuse, CallFails, made
<1>2. ASSUME NEW name \in Name, NEW password \in Password, LoginClick(j, name, password)
      PROVE  Stored'
  <2> DEFINE r == [Idle EXCEPT !.at = "salt", !.name = name, !.password = password,
                   !.right = \E row \in Rows(name) : row.hash[1] = password]
  <2>1. job' = [job EXCEPT ![j] = r] /\ r.at = "salt"
    BY <1>2 DEF LoginClick, Idle
  <2> HIDE DEF r
  <2> QED BY <1>1, <2>1, OneElsewhere DEF Inv
<1>3. ASSUME NEW row, job' = [job EXCEPT ![j].at = "hash", ![j].salt = row.salt]
      PROVE  Stored'
  <2> DEFINE r == [job[j] EXCEPT !.at = "hash", !.salt = row.salt]
  <2>1. job' = [job EXCEPT ![j] = r] /\ r.at = "hash"
    BY <1>3 DEF Inv, TypeOK, Request
  <2> QED BY <1>1, <2>1, OneElsewhere DEF Inv
<1>4. ASSUME NEW name \in Name, NEW password \in Password, ComputeHash(j, name, password)
      PROVE  Stored'
  <2> DEFINE r == [job[j] EXCEPT !.at = "valid", !.name = name, !.password = password,
                   !.right = @ /\ name = job[j].name /\ password = job[j].password]
  <2>1. job' = [job EXCEPT ![j] = r]
    BY <1>4 DEF ComputeHash, Inv, TypeOK
  <2>2. r.at = "valid"
    BY DEF Inv, TypeOK, Request
  <2> HIDE DEF r
  <2> QED BY <1>1, <2>1, <2>2, OneElsewhere DEF Inv
<1>5. CASE CallFails(j)
  <2>1. CASE job' = [job EXCEPT ![j].at = "refused", ![j].right = FALSE]
    <3> DEFINE r == [job[j] EXCEPT !.at = "refused", !.right = FALSE]
    <3>1. job' = [job EXCEPT ![j] = r] /\ r.at = "refused"
      BY <2>1 DEF Inv, TypeOK, Request
    <3> QED BY <1>1, <3>1, OneElsewhere DEF Inv
  <2> QED BY <1>1, <1>5, <2>1, AnsweredElsewhere DEF CallFails, Inv
<1>6. CASE GetPasswdSalt(j)
  BY <1>1, <1>3, <1>6, MovedElsewhere DEF GetPasswdSalt, Inv
<1>7. CASE LoginValid(j) \/ Refuse(j)
  BY <1>1, <1>7, MovedElsewhere, AnsweredElsewhere DEF LoginValid, Refuse, Inv
<1> QED BY <1>2, <1>4, <1>5, <1>6, <1>7

LEMMA WriteStored ==
    ASSUME Inv, Stored, NEW j \in Job,
           CheckCode(j) \/ CheckEmailExist(j) \/ RegUser(j) \/ UpdatePasswordByEmail(j)
    PROVE  Stored'
<1>1. UNCHANGED <<redis, due, mailed, raced>>
  BY DEF CheckCode, CheckEmailExist, RegUser, UpdatePasswordByEmail, made
<1>2. CASE CheckCode(j) \/ CheckEmailExist(j) \/ RegUser(j)
  BY <1>1, <1>2, MovedElsewhere, AnsweredElsewhere DEF CheckCode, CheckEmailExist, RegUser, Inv
<1>3. CASE UpdatePasswordByEmail(j)
  <2>1. ASSUME NEW i \in Job, OnItsWay(i)'
        PROVE  job'[i].at = job[i].at /\ KeyOf(i)' = KeyOf(i) /\ job'[i].code = job[i].code
    <3>1. job'[i] = IF i = j THEN Idle
                    ELSE [job[i] EXCEPT !.right = @ /\ job[i].name # user[job[j].email].name]
      BY <1>3 DEF UpdatePasswordByEmail
    <3>2. i # j
      BY <2>1, <3>1 DEF OnItsWay, Idle
    <3>3. job[i] \in Request
      BY DEF Inv, TypeOK
    <3> QED BY <3>1, <3>2, <3>3 DEF Request, KeyOf
  <2> QED BY <1>1, <2>1, Elsewhere
<1> QED BY <1>2, <1>3

LEMMA ClickStored == ASSUME Inv, Stored, NEW j \in Job, Click(j) PROVE Stored'
<1>1. ASSUME NEW e \in Person, NEW purpose \in Purpose, SendVerify(j, e, purpose)
      PROVE  Stored'
  <2>1. /\ job' = [job EXCEPT ![j] = [Idle EXCEPT !.at = "get", !.email = e, !.purpose = purpose]]
        /\ [Idle EXCEPT !.at = "get", !.email = e, !.purpose = purpose].at = "get"
        /\ UNCHANGED <<redis, due, mailed, raced>>
    BY <1>1 DEF SendVerify, Idle, made
  <2> QED BY <2>1, OneElsewhere DEF Inv
<1>2. ASSUME NEW p, NEW e, NEW purpose, NEW name, NEW password, NEW code,
             Submit(j, p, e, purpose, name, password, code)
      PROVE  Stored'
  <2> DEFINE r == [at |-> "check", by |-> p, email |-> e, purpose |-> purpose,
                   code |-> code, name |-> name, password |-> password, salt |-> salts + 1,
                   right |-> FALSE]
  <2>1. job' = [job EXCEPT ![j] = r] /\ UNCHANGED <<redis, due, mailed, raced>> /\ r.at = "check"
    BY <1>2 DEF Submit, made
  <2> QED BY <2>1, OneElsewhere DEF Inv
<1> QED BY <1>1, <1>2, PasswordStored DEF Click, RegisterClick, ResetClick

LEMMA StoredKept == Inv /\ Stored /\ [Next]_vars => Stored'
<1> SUFFICES ASSUME Inv, Stored, [Next]_vars PROVE Stored'
  OBVIOUS
<1>1. CASE UNCHANGED vars
  BY <1>1, Elsewhere DEF vars, made, KeyOf
<1>2. ASSUME NEW j \in Job, VerifyServer(j) PROVE Stored'
  BY <1>2, GetCodeStored, SetCodeStored, ExpireStored, SendMailStored DEF VerifyServer
<1>3. ASSUME NEW j \in Job, GateServer(j) PROVE Stored'
  BY <1>3, WriteStored, PasswordStored DEF GateServer
<1> QED BY <1>1, <1>2, <1>3, TickStored, ClickStored, PasswordStored DEF Next

\* Every code that was mailed is the one the server compares with until its time
\* is over, unless two requests for the key both found nothing or a Get failed.
THEOREM MailedCounts == Spec => []MailedIsStored
<1>1. Inv /\ Stored => MailedIsStored
  BY DEF Stored, StoredFor, MailedIsStored, Inv, TypeOK
<1> QED BY <1>1, InitInv, InitStored, StepInv, StoredKept, PTL DEF Spec

=============================================================================
