---------------------------- MODULE Login_proofs ----------------------------
(* The lockout, the counters and the accounts of Login, for any number of    *)
(* logins, names, addresses and accounts, any threshold and any parallelism. *)
EXTENDS Login, FiniteSetTheorems, TLAPS

Running == {"rate_ttl", "lockout", "verify", "fail", "fail_ttl", "arm", "audit", "clear", "token"}
Label == Ended \cup Running \cup {"wanted"}
Token == [id : Id, role : Role]
Changing == [do : {"changing"}, id : Id, new : Password]

\* A key waits for keys that are there.
DueOK == \A key \in DOMAIN due : due[key] \in [busy : SUBSET Attempt, before : SUBSET DOMAIN due]

LoginTypeOK ==
  /\ wanted \subseteq Attempt \cup Request /\ jobs \subseteq Request \cup Changing
  /\ login \in [Attempt -> [pc : Label, row : Token \cup {NoRow}]]
  /\ \A a \in Attempt : login[a].pc \in {"clear", "token"} => login[a].row \in Token
  /\ rate \in [Address -> Nat] /\ fail \in [Spelling -> Nat] /\ lock \subseteq Spelling
  /\ DueOK
  /\ users \in [Id -> Row \cup {NoRow}]
  /\ owners \subseteq Id /\ tokens \subseteq Token /\ faults \in Nat
  /\ spent \in [Spelling -> Nat]

NamesUnique ==
  \A i, j \in Id : i # j /\ users[i] # NoRow /\ users[j] # NoRow => users[i].name # users[j].name

\* The attempts for one of the names N that are at one of the labels Q.
At(N, Q) == {a \in Attempt : As[a] \in N /\ login[a].pc \in Q}
Count(N, Q) == Cardinality(At(N, Q))

\* Until the lock is set, a failure beyond the threshold has its login about to
\* set it, or ended by a fault; once it is, no login joins those that were past
\* the look at it.
Locked(n) ==
  /\ spent[n] <= fail[n]
  /\ n \notin lock => spent[n] < Threshold + Count({n}, {"arm"}) + Count(Spelling, {"error"})
  /\ n \in lock => spent[n] + Count({n}, {"verify", "fail"}) < Threshold + Parallel + Count(Spelling, {"error"})

LockoutInv == Count(Spelling, Running) <= Parallel /\ \A n \in Spelling : Locked(n)

IInv == LoginTypeOK /\ NamesUnique /\ LockoutInv /\ NoImmortalCounter
-----------------------------------------------------------------------------
(* What the operators of Redis do to the keys with a time to live.         *)

\* EXPIRE and SETEX give the key its time to live and take none away.
LEMMA LivesDue ==
  ASSUME DueOK, NEW key, Lives(key)
  PROVE  DueOK' /\ DOMAIN due' = DOMAIN due \cup {key}
<1> DEFINE others == DOMAIN due \ {key}
<1>1. DOMAIN due' = DOMAIN due \cup {key}
  BY DEF Lives
<1>2. ASSUME NEW k \in DOMAIN due'
      PROVE  due'[k] \in [busy : SUBSET Attempt, before : SUBSET DOMAIN due']
  <2>1. CASE k = key
    <3>1. due'[k] = [busy |-> InFlight, before |-> {j \in others : SameTtl(j, key)}]
      BY <1>1, <2>1 DEF Lives
    <3> QED
      BY <1>1, <3>1 DEF InFlight
  <2>2. CASE k # key
    <3>1. k \in DOMAIN due /\ due'[k] = [due[k] EXCEPT !.before = @ \ {key}]
      BY <1>1, <1>2, <2>2 DEF Lives, Forgotten
    <3> QED
      BY <1>1, <3>1 DEF DueOK
  <2> QED
    BY <2>1, <2>2
<1> QED
  BY <1>1, <1>2 DEF DueOK

\* DEL and the end of their time take the keys and nothing else.
LEMMA DropDue ==
  ASSUME DueOK, NEW keys, Drop(keys)
  PROVE  DueOK' /\ DOMAIN due' = DOMAIN due \ keys
BY DEF DueOK, Drop, Forgotten

\* The end of an attempt leaves every key its time to live.
LEMMA EndsDue ==
  ASSUME DueOK, NEW a, NEW pc, Ends(a, pc)
  PROVE  DueOK' /\ DOMAIN due' = DOMAIN due
BY DEF DueOK, Ends

-----------------------------------------------------------------------------
(* What a step does to the logins.                                         *)

\* One login moves.
Moved(a, from, to) ==
  /\ login[a].pc = from /\ login'[a].pc = to
  /\ \A b \in Attempt \ {a} : login'[b] = login[b]

\* Moves(a, pc) moves one login and keeps its row.
LEMMA MovesMoved ==
  ASSUME LoginTypeOK, NEW a \in Attempt, NEW pc \in Label, Moves(a, pc)
  PROVE  Moved(a, login[a].pc, pc) /\ login'[a].row = login[a].row
         /\ login' \in [Attempt -> [pc : Label, row : Token \cup {NoRow}]]
BY DEF LoginTypeOK, Moves, Moved

\* The logins at some labels, counted before and after one moves.
LEMMA CountMoved ==
  ASSUME NEW a \in Attempt, NEW from, NEW to, Moved(a, from, to), NEW N, NEW Q
  PROVE  /\ Count(N, Q) \in Nat /\ Count(N, Q)' \in Nat
         /\ As[a] \notin N \/ (from \in Q <=> to \in Q) => Count(N, Q)' = Count(N, Q)
         /\ As[a] \in N /\ from \in Q /\ to \notin Q => Count(N, Q)' = Count(N, Q) - 1
         /\ As[a] \in N /\ from \notin Q /\ to \in Q => Count(N, Q)' = Count(N, Q) + 1
<1>1. IsFiniteSet(At(N, Q)) /\ IsFiniteSet(At(N, Q)')
  BY AttemptAssumption, FS_Subset DEF At
<1>2. Count(N, Q) \in Nat /\ Count(N, Q)' \in Nat
  BY <1>1, FS_CardinalityType DEF Count
<1>3. CASE As[a] \notin N \/ (from \in Q <=> to \in Q)
  <2>1. At(N, Q)' = At(N, Q)
    BY <1>3 DEF At, Moved
  <2> QED
    BY <1>2, <1>3, <2>1 DEF Count
<1>4. CASE As[a] \in N /\ from \in Q /\ to \notin Q
  <2>1. At(N, Q)' = At(N, Q) \ {a} /\ a \in At(N, Q)
    BY <1>4 DEF At, Moved
  <2>2. Count(N, Q)' = Count(N, Q) - 1
    BY <1>1, <2>1, FS_RemoveElement DEF Count
  <2> QED
    BY <1>2, <1>4, <2>2
<1>5. CASE As[a] \in N /\ from \notin Q /\ to \in Q
  <2>1. At(N, Q)' = At(N, Q) \cup {a} /\ a \notin At(N, Q)
    BY <1>5 DEF At, Moved
  <2>2. Count(N, Q)' = Count(N, Q) + 1
    BY <1>1, <2>1, FS_AddElement DEF Count
  <2> QED
    BY <1>2, <1>5, <2>2
<1> QED
  BY <1>2, <1>3, <1>4, <1>5

\* Counts are numbers; logins about to set the lock and logins past the look at
\* it are different ones, all under way.
LEMMA CountTypes ==
  ASSUME NEW n \in Spelling
  PROVE  /\ Count({n}, {"arm"}) \in Nat /\ Count({n}, {"verify", "fail"}) \in Nat
         /\ Count(Spelling, {"error"}) \in Nat /\ Count(Spelling, Running) \in Nat
         /\ Count({n}, {"arm"}) + Count({n}, {"verify", "fail"}) <= Count(Spelling, Running)
<1> DEFINE arm == At({n}, {"arm"})
           past == At({n}, {"verify", "fail"})
           all == At(Spelling, Running)
<1>1. IsFiniteSet(arm) /\ IsFiniteSet(past) /\ IsFiniteSet(all) /\ IsFiniteSet(At(Spelling, {"error"}))
  BY AttemptAssumption, FS_Subset DEF At
<1>2. arm \cap past = {} /\ arm \cup past \subseteq all
  BY DEF At, Running
<1>3. Cardinality(arm \cup past) = Cardinality(arm) + Cardinality(past) - Cardinality({})
  BY <1>1, <1>2, FS_Union
<1>4. Cardinality(arm \cup past) <= Cardinality(all)
  BY <1>1, <1>2, FS_Subset
<1>5. Cardinality({}) = 0
  BY FS_EmptySet
<1>6. Cardinality(arm) \in Nat /\ Cardinality(past) \in Nat /\ Cardinality(all) \in Nat
      /\ Cardinality(At(Spelling, {"error"})) \in Nat
  BY <1>1, FS_CardinalityType
<1> QED
  BY <1>3, <1>4, <1>5, <1>6 DEF Count
-----------------------------------------------------------------------------
(* The initial states.                                                     *)

\* The initial states satisfy the invariant.
LEMMA InvInit == Init => IInv
<1> SUFFICES ASSUME Init PROVE IInv
  OBVIOUS
<1> USE DEF Init
<1>1. LoginTypeOK
  <2>1. wanted \subseteq Attempt \cup Request /\ faults \in Nat
    BY PlansAssumption
  <2>2. login \in [Attempt -> [pc : Label, row : Token \cup {NoRow}]]
        /\ \A a \in Attempt : login[a].pc = "wanted"
    BY DEF Label
  <2>3. DueOK
    BY DEF DueOK
  <2> QED
    BY <2>1, <2>2, <2>3, UsersAssumption DEF LoginTypeOK
<1>2. NamesUnique
  BY UsersAssumption DEF NamesUnique
<1>3. LockoutInv
  <2>1. \A N : At(N, Running) = {} /\ At(N, {"arm"}) = {} /\ At(N, {"error"}) = {} /\ At(N, {"verify", "fail"}) = {}
    BY DEF At, Running
  <2>2. \A N : Count(N, Running) = 0 /\ Count(N, {"arm"}) = 0 /\ Count(N, {"error"}) = 0 /\ Count(N, {"verify", "fail"}) = 0
    BY <2>1, FS_EmptySet DEF Count
  <2> QED
    BY <2>2, LimitsAssumption DEF LockoutInv, Locked
<1>4. NoImmortalCounter
  BY DEF NoImmortalCounter
<1> QED
  BY <1>1, <1>2, <1>3, <1>4 DEF IInv

-----------------------------------------------------------------------------
(* Types, and the names of the accounts.                                   *)

\* Moving on, or ending, keeps the logins typed; only the login that read a row
\* goes on with one.
LEMMA MovesType ==
  ASSUME LoginTypeOK, NEW a \in Attempt, NEW pc \in Label, Moves(a, pc),
         pc \in {"clear", "token"} => login[a].pc \in {"clear", "token"}
  PROVE  /\ login' \in [Attempt -> [pc : Label, row : Token \cup {NoRow}]]
         /\ \A b \in Attempt : login'[b].pc \in {"clear", "token"} => login'[b].row \in Token
BY MovesMoved DEF LoginTypeOK, Moved

\* Keys that go leave the types alone.
LEMMA DropType ==
  ASSUME LoginTypeOK, NEW keys, Drop(keys)
  PROVE  /\ rate' \in [Address -> Nat] /\ fail' \in [Spelling -> Nat] /\ lock' \subseteq Spelling
         /\ spent' \in [Spelling -> Nat] /\ DueOK'
BY DropDue DEF LoginTypeOK, Drop

\* A step of a login keeps the types.
LEMMA LoginStepType ==
  ASSUME IInv, NEW a \in Attempt, LoginStep(a) \/ LoginFails(a)
  PROVE  LoginTypeOK' /\ UNCHANGED users
<1> USE DEF IInv
<1>a. {"limited", "lockout", "rate_ttl", "locked", "verify", "fail", "fail_ttl", "arm", "audit", "clear", "token",
       "refused", "granted", "error"} \subseteq Label
  BY DEF Label, Running, Ended
<1>b. From[a] \in Address /\ As[a] \in Spelling
  BY AttemptAssumption
<1>1. CASE CheckRate(a)
  <2> DEFINE count == rate[From[a]] + 1
             pc == IF count = 1 THEN "rate_ttl" ELSE IF count > IpLimit THEN "limited" ELSE "lockout"
  <2>1. Moves(a, pc) /\ rate' = [rate EXCEPT ![From[a]] = count] /\ wanted' \subseteq wanted
        /\ UNCHANGED <<fail, lock, due, users, owners, tokens, jobs, faults, spent>>
    BY <1>1 DEF CheckRate
  <2>2. pc \in Label /\ pc \notin {"clear", "token"}
    BY <1>a
  <2>3. rate' \in [Address -> Nat]
    BY <1>b, <2>1 DEF LoginTypeOK
  <2> HIDE DEF pc
  <2> QED
    BY <2>1, <2>2, <2>3, MovesType DEF LoginTypeOK, DueOK
<1>2. CASE RateTtl(a)
  BY <1>2, <1>a, MovesType, LivesDue DEF RateTtl, OnlyLogin, LoginTypeOK
<1>3. CASE CheckLockout(a)
  <2>1. CASE Ends(a, "locked")
    BY <1>3, <2>1, <1>a, MovesType, EndsDue DEF CheckLockout, Ends, OnlyLogin, LoginTypeOK
  <2>2. CASE Moves(a, "verify") /\ UNCHANGED due
    BY <1>3, <2>2, <1>a, MovesType DEF CheckLockout, OnlyLogin, LoginTypeOK, DueOK
  <2> QED
    BY <1>3, <2>1, <2>2 DEF CheckLockout
<1>4. CASE Verify(a)
  <2>0. UNCHANGED <<redisVars, tokens, faults, spent, wanted, users, owners, jobs>>
    BY <1>4 DEF Verify, OnlyLogin
  <2>1. CASE Moves(a, "fail")
    BY <2>0, <2>1, <1>a, MovesType DEF LoginTypeOK, redisVars, DueOK
  <2>2. ASSUME NEW i \in Id, users[i] # NoRow,
               login' = [login EXCEPT ![a] = [pc |-> "clear", row |-> [id |-> i, role |-> users[i].role]]]
        PROVE  LoginTypeOK'
    <3>1. [id |-> i, role |-> users[i].role] \in Token
      BY <2>2 DEF LoginTypeOK, Row, Token
    <3> QED
      BY <2>0, <2>2, <3>1, <1>a DEF LoginTypeOK, redisVars, DueOK
  <2> QED
    BY <1>4, <2>0, <2>1, <2>2 DEF Verify, lookup_user_for_login
<1>5. CASE RecordFailure(a)
  <2> DEFINE count == fail[As[a]] + 1
             pc == IF count = 1 THEN "fail_ttl" ELSE IF count >= Threshold THEN "arm" ELSE "audit"
  <2>1. Moves(a, pc) /\ fail' = [fail EXCEPT ![As[a]] = count] /\ spent' = [spent EXCEPT ![As[a]] = @ + 1]
        /\ UNCHANGED <<rate, lock, due, tokens, faults, wanted, users, owners, jobs>>
    BY <1>5 DEF RecordFailure, OnlyLogin
  <2>2. pc \in Label /\ pc \notin {"clear", "token"}
    BY <1>a
  <2>3. fail' \in [Spelling -> Nat] /\ spent' \in [Spelling -> Nat]
    BY <1>b, <2>1 DEF LoginTypeOK
  <2> HIDE DEF pc
  <2> QED
    BY <2>1, <2>2, <2>3, MovesType DEF LoginTypeOK, DueOK
<1>6. CASE FailTtl(a)
  <2>1. DueOK'
    BY <1>6, LivesDue DEF FailTtl, LoginTypeOK, DueOK
  <2> QED
    BY <1>6, <2>1, <1>a, MovesType DEF FailTtl, OnlyLogin, LoginTypeOK
<1>7. CASE Arm(a)
  BY <1>7, <1>a, <1>b, MovesType, LivesDue DEF Arm, OnlyLogin, LoginTypeOK
<1>8. CASE AuditFailure(a)
  BY <1>8, <1>a, MovesType, EndsDue DEF AuditFailure, Ends, OnlyLogin, LoginTypeOK
<1>9. CASE Clear(a)
  BY <1>9, <1>a, MovesType, DropType DEF Clear, OnlyLogin, LoginTypeOK
<1>10. CASE Grant(a)
  BY <1>10, <1>a, MovesType, EndsDue DEF Grant, Ends, OnlyLogin, LoginTypeOK
<1>11. CASE LoginFails(a)
  <2>1. faults' \in Nat
    BY <1>11 DEF LoginFails, Fault, LoginTypeOK
  <2>2. Ends(a, "error") /\ Moves(a, "error")
        /\ UNCHANGED <<rate, fail, lock, tokens, spent, wanted, users, owners, jobs>>
    BY <1>11 DEF LoginFails, Ends, OnlyLogin
  <2>3. DueOK'
    BY <2>2, EndsDue DEF LoginTypeOK
  <2> QED
    BY <2>1, <2>2, <2>3, <1>a, MovesType DEF LoginTypeOK
<1> QED
  BY <1>1, <1>2, <1>3, <1>4, <1>5, <1>6, <1>7, <1>8, <1>9, <1>10, <1>11 DEF LoginStep
\* A row is added under a name no other row has, or changed without its name,
\* or goes.
RowsChange ==
  /\ users' \in [Id -> Row \cup {NoRow}]
  /\ \/ \E i \in Id : /\ \A j \in Id : users[j] # NoRow => users[j].name # users'[i].name
                     /\ \A j \in Id \ {i} : users'[j] = users[j]
     \/ \A j \in Id : users'[j] # NoRow => users[j] # NoRow /\ users'[j].name = users[j].name

\* update_user_fields changes one row and not its name.
LEMMA UpdatedRows ==
  ASSUME LoginTypeOK, NEW r \in Request, r.do = "update", users' = update_user_fields(r)
  PROVE  RowsChange /\ \A i \in Id : users[i] # NoRow => users'[i] # NoRow
<1>1. r.id \in Id /\ r.role \in Role /\ r.enabled \in BOOLEAN
  BY DEF Request
<1>2. CASE users[r.id] = NoRow
  BY <1>2 DEF update_user_fields, RowsChange, LoginTypeOK
<1>3. CASE users[r.id] # NoRow
  <2>1. users[r.id] \in Row
    BY <1>1, <1>3 DEF LoginTypeOK
  <2>2. /\ users' \in [Id -> Row \cup {NoRow}]
        /\ users'[r.id] \in Row /\ users'[r.id].name = users[r.id].name
        /\ \A j \in Id \ {r.id} : users'[j] = users[j]
    BY <1>1, <1>3, <2>1 DEF update_user_fields, LoginTypeOK, Row
  <2> QED
    BY <1>1, <1>3, <2>2, UsersAssumption DEF RowsChange
<1> QED
  BY <1>2, <1>3

\* update_password_hash changes one row and not its name.
LEMMA HashedRows ==
  ASSUME LoginTypeOK, NEW i \in Id, NEW p \in Password, users' = update_password_hash(i, p)
  PROVE  RowsChange /\ \A j \in Id : users[j] # NoRow => users'[j] # NoRow
<1>1. CASE users[i] = NoRow
  BY <1>1 DEF update_password_hash, RowsChange, LoginTypeOK
<1>2. CASE users[i] # NoRow
  <2>1. users[i] \in Row
    BY <1>2 DEF LoginTypeOK
  <2>2. /\ users' \in [Id -> Row \cup {NoRow}]
        /\ users'[i] \in Row /\ users'[i].name = users[i].name
        /\ \A j \in Id \ {i} : users'[j] = users[j]
    BY <1>2, <2>1 DEF update_password_hash, LoginTypeOK, Row
  <2> QED
    BY <1>2, <2>2, UsersAssumption DEF RowsChange
<1> QED
  BY <1>1, <1>2

\* create_user adds a row whose name it has found free.
LEMMA InsertedRows ==
  ASSUME LoginTypeOK, NEW r \in jobs, InsertUser(r)
  PROVE  RowsChange /\ \A i \in Id : users[i] # NoRow => users'[i] # NoRow
<1>1. r.do = "create" /\ r \in Request
  BY DEF InsertUser, LoginTypeOK, Changing
<1>2. r.id \in Id /\ r.name \in Name /\ r.password \in Password /\ r.role \in Role
  BY <1>1 DEF Request
<1>3. CASE username_exists(r.name)
  BY <1>3 DEF InsertUser, RowsChange, LoginTypeOK
<1>4. CASE ~username_exists(r.name)
  <2>1. /\ users' \in [Id -> Row \cup {NoRow}] /\ users'[r.id] \in Row /\ users'[r.id].name = r.name
        /\ \A j \in Id \ {r.id} : users'[j] = users[j]
    BY <1>2, <1>4 DEF InsertUser, insert_user, LoginTypeOK, Row
  <2> QED
    BY <1>2, <1>4, <2>1, UsersAssumption DEF RowsChange, username_exists
<1> QED
  BY <1>3, <1>4

\* delete_user takes one row.
LEMMA DeletedRows ==
  ASSUME LoginTypeOK, NEW i \in Id, users' = delete_user(i)
  PROVE  RowsChange /\ \A j \in Id \ {i} : users'[j] = users[j]
BY DEF LoginTypeOK, delete_user, RowsChange

\* Names stay unique.
LEMMA RowsChangeNames ==
  ASSUME NamesUnique, RowsChange
  PROVE  NamesUnique'
BY DEF NamesUnique, RowsChange

\* The requests of administrators and users, and what is left of them.
LEMMA AccountStep ==
  ASSUME LoginTypeOK,
         \/ \E t \in tokens, r \in wanted \ Attempt : Act(t, r)
         \/ \E r \in jobs : InsertUser(r) \/ ChangeWrite(r)
  PROVE  /\ wanted' \subseteq wanted /\ jobs' \subseteq Request \cup Changing /\ owners' \subseteq Id
         /\ RowsChange /\ UNCHANGED <<login, redisVars, tokens, faults, spent>>
<1>1. ASSUME NEW t \in tokens, NEW r \in wanted \ Attempt, Act(t, r)
      PROVE  /\ wanted' \subseteq wanted /\ jobs' \subseteq Request \cup Changing /\ owners' \subseteq Id
             /\ RowsChange /\ UNCHANGED <<login, redisVars, tokens, faults, spent>>
  <2>0. r \in Request /\ t.id \in Id /\ t.role \in Role
    BY <1>1 DEF LoginTypeOK, Token
  <2>a. users' = users => RowsChange
    BY DEF RowsChange, LoginTypeOK
  <2>1. CASE CreateLook(t, r)
    BY <2>0, <2>1, <2>a DEF CreateLook, Want, OnlyUsers, LoginTypeOK
  <2>2. CASE UpdateUser(t, r)
    BY <2>0, <2>2, UpdatedRows DEF UpdateUser, Want, OnlyUsers, LoginTypeOK
  <2>3. CASE DeleteUser(t, r)
    <3>1. r.id \in Id
      BY <2>0, <2>3 DEF DeleteUser, Want, Request
    <3> QED
      BY <2>3, <2>a, <3>1, DeletedRows DEF DeleteUser, Want, OnlyUsers, LoginTypeOK
  <2>4. CASE ResetPassword(t, r)
    <3>1. r.id \in Id /\ r.password \in Password
      BY <2>0, <2>4 DEF ResetPassword, Want, Request
    <3> QED
      BY <2>4, <3>1, HashedRows DEF ResetPassword, Want, OnlyUsers, LoginTypeOK
  <2>5. CASE ChangeVerify(t, r)
    <3>1. r.new \in Password
      BY <2>0, <2>5 DEF ChangeVerify, Want, Request
    <3>2. [do |-> "changing", id |-> t.id, new |-> r.new] \in Changing
      BY <2>0, <3>1 DEF Changing
    <3> QED
      BY <2>5, <2>a, <3>2 DEF ChangeVerify, Want, OnlyUsers, LoginTypeOK
  <2>6. CASE Own(t, r)
    BY <2>0, <2>6, <2>a DEF Own, Want, OnlyUsers, LoginTypeOK
  <2> QED
    BY <1>1, <2>1, <2>2, <2>3, <2>4, <2>5, <2>6 DEF Act
<1>2. ASSUME NEW r \in jobs, InsertUser(r)
      PROVE  /\ wanted' \subseteq wanted /\ jobs' \subseteq Request \cup Changing /\ owners' \subseteq Id
             /\ RowsChange /\ UNCHANGED <<login, redisVars, tokens, faults, spent>>
  BY <1>2, InsertedRows DEF InsertUser, OnlyUsers, LoginTypeOK
<1>3. ASSUME NEW r \in jobs, ChangeWrite(r)
      PROVE  /\ wanted' \subseteq wanted /\ jobs' \subseteq Request \cup Changing /\ owners' \subseteq Id
             /\ RowsChange /\ UNCHANGED <<login, redisVars, tokens, faults, spent>>
  <2>1. r.id \in Id /\ r.new \in Password
    BY <1>3 DEF ChangeWrite, LoginTypeOK, Request, Changing
  <2> QED
    BY <1>3, <2>1, HashedRows DEF ChangeWrite, OnlyUsers, LoginTypeOK
<1> QED
  BY <1>1, <1>2, <1>3
\* What is neither a login nor a request changes no account.
LEMMA OtherStep ==
  ASSUME LoginTypeOK, (\E t \in tokens : TokenExpires(t)) \/ Expire \/ UNCHANGED vars
  PROVE  LoginTypeOK' /\ UNCHANGED <<login, users>>
<1>1. CASE \E t \in tokens : TokenExpires(t)
  BY <1>1 DEF TokenExpires, LoginTypeOK, DueOK, redisVars
<1>2. CASE Expire
  BY <1>2, DropType DEF Expire, LoginTypeOK
<1>3. CASE UNCHANGED vars
  BY <1>3 DEF vars, redisVars, LoginTypeOK, DueOK
<1> QED
  BY <1>1, <1>2, <1>3

\* Every step keeps the types and the names unique.
LEMMA TypeStep == IInv /\ [Next]_vars => LoginTypeOK' /\ NamesUnique'
<1> SUFFICES ASSUME IInv, [Next]_vars PROVE LoginTypeOK' /\ NamesUnique'
  OBVIOUS
<1> USE DEF IInv
<1>1. CASE \E a \in Attempt : LoginStep(a) \/ LoginFails(a)
  BY <1>1, LoginStepType DEF NamesUnique
<1>2. CASE \/ \E t \in tokens, r \in wanted \ Attempt : Act(t, r)
           \/ \E r \in jobs : InsertUser(r) \/ ChangeWrite(r)
  <2>1. /\ wanted' \subseteq wanted /\ jobs' \subseteq Request \cup Changing /\ owners' \subseteq Id
        /\ RowsChange /\ UNCHANGED <<login, redisVars, tokens, faults, spent>>
    BY <1>2, AccountStep
  <2> QED
    BY <2>1, RowsChangeNames DEF LoginTypeOK, DueOK, RowsChange, redisVars
<1>3. CASE (\E t \in tokens : TokenExpires(t)) \/ Expire \/ UNCHANGED vars
  BY <1>3, OtherStep DEF NamesUnique
<1> QED
  BY <1>1, <1>2, <1>3 DEF Next

-----------------------------------------------------------------------------
(* The lockout.                                                            *)

\* The logins under way are those at a running label.
LEMMA InFlightRunning == ASSUME LoginTypeOK PROVE InFlight = At(Spelling, Running)
BY AttemptAssumption DEF InFlight, At, LoginTypeOK, Label, Running, Ended

\* No more logins than allowed are under way.
LEMMA ParallelStep ==
  ASSUME LoginTypeOK, LockoutInv, NEW a \in Attempt, NEW from, NEW to \in Label, Moved(a, from, to),
         from \in Running \/ Cardinality(InFlight) < Parallel
  PROVE  Count(Spelling, Running)' <= Parallel
<1>1. /\ Count(Spelling, Running) \in Nat /\ Count(Spelling, Running)' \in Nat
      /\ As[a] \notin Spelling \/ (from \in Running <=> to \in Running) => Count(Spelling, Running)' = Count(Spelling, Running)
      /\ As[a] \in Spelling /\ from \in Running /\ to \notin Running => Count(Spelling, Running)' = Count(Spelling, Running) - 1
      /\ As[a] \in Spelling /\ from \notin Running /\ to \in Running => Count(Spelling, Running)' = Count(Spelling, Running) + 1
  BY CountMoved
<1>2. Cardinality(InFlight) = Count(Spelling, Running)
  BY InFlightRunning DEF Count
<1> QED
  BY <1>1, <1>2, LimitsAssumption DEF LockoutInv

\* DEL and expiry of a counter or a lock forget the failures with it.
LEMMA DropLocked ==
  ASSUME LoginTypeOK, LockoutInv, NEW keys, Drop(keys), NEW n \in Spelling,
         Count({n}, {"arm"})' = Count({n}, {"arm"}), Count(Spelling, {"error"})' = Count(Spelling, {"error"}),
         Count({n}, {"verify", "fail"})' <= Count({n}, {"verify", "fail"}), Count({n}, {"verify", "fail"})' \in Nat
  PROVE  Locked(n)'
<1>1. /\ Count({n}, {"arm"}) \in Nat /\ Count({n}, {"verify", "fail"}) \in Nat
      /\ Count(Spelling, {"error"}) \in Nat /\ Count(Spelling, Running) \in Nat
      /\ Count({n}, {"arm"}) + Count({n}, {"verify", "fail"}) <= Count(Spelling, Running)
  BY CountTypes
<1>2. Count(Spelling, Running) <= Parallel /\ Locked(n)
  BY DEF LockoutInv
<1>3. spent[n] \in Nat /\ fail[n] \in Nat
  BY DEF LoginTypeOK
<1>4. CASE {FailKey(n), LockKey(n)} \cap keys # {}
  <2>1. spent'[n] = 0 /\ fail'[n] \in Nat
    BY <1>3, <1>4 DEF Drop
  <2> QED
    BY <1>1, <1>2, <2>1, LimitsAssumption DEF Locked
<1>5. CASE {FailKey(n), LockKey(n)} \cap keys = {}
  <2>1. spent'[n] = spent[n] /\ fail'[n] = fail[n] /\ (n \in lock' <=> n \in lock)
    BY <1>5 DEF Drop
  <2> QED
    BY <1>1, <1>2, <1>3, <2>1, LimitsAssumption DEF Locked
<1> QED
  BY <1>4, <1>5

\* A step of a login keeps the account of the guesses spent for every name.
LEMMA LoginStepLocked ==
  ASSUME IInv, NEW a \in Attempt, LoginStep(a) \/ LoginFails(a), NEW n \in Spelling
  PROVE  Count(Spelling, Running)' <= Parallel /\ Locked(n)'
<1> DEFINE arm == Count({n}, {"arm"})
           past == Count({n}, {"verify", "fail"})
           errors == Count(Spelling, {"error"})
<1>a. LoginTypeOK /\ LockoutInv /\ Locked(n) /\ As[a] \in Spelling
  BY AttemptAssumption DEF IInv, LockoutInv
<1>b. /\ arm \in Nat /\ past \in Nat /\ errors \in Nat /\ Count(Spelling, Running) \in Nat
      /\ arm + past <= Count(Spelling, Running) /\ Count(Spelling, Running) <= Parallel
  BY <1>a, CountTypes DEF LockoutInv
<1>c. spent[n] \in Nat /\ fail[n] \in Nat
  BY <1>a DEF LoginTypeOK
<1>d. ASSUME NEW pc, Ends(a, pc) PROVE Moves(a, pc)
  BY <1>d DEF Ends
<1>e. Threshold \in Nat /\ Threshold >= 2 /\ Parallel \in Nat
  BY LimitsAssumption
<1> HIDE DEF arm, past, errors
\* Steps that neither join nor leave the logins that count.
<1>1. ASSUME NEW from, NEW to \in Label, Moved(a, from, to),
             from \in Running \/ Cardinality(InFlight) < Parallel,
             from \notin {"arm", "verify", "fail", "error"}, to \notin {"arm", "verify", "fail", "error"},
             UNCHANGED <<fail, lock, spent>>
      PROVE  Count(Spelling, Running)' <= Parallel /\ Locked(n)'
  <2>1. Count(Spelling, Running)' <= Parallel
    BY <1>1, <1>a, ParallelStep
  <2>2. arm' = arm /\ past' = past /\ errors' = errors
    BY <1>1, CountMoved DEF arm, past, errors
  <2> QED
    BY <1>1, <1>a, <2>1, <2>2 DEF Locked, arm, past, errors
<1>2. CASE CheckRate(a) \/ RateTtl(a) \/ FailTtl(a) \/ AuditFailure(a) \/ Grant(a)
           \/ (CheckLockout(a) /\ As[a] \in lock)
  <2>1. \E to \in Label \ {"arm", "verify", "fail", "error"} : Moves(a, to)
    BY <1>2, <1>d DEF CheckRate, RateTtl, FailTtl, AuditFailure, Grant, CheckLockout, Label, Running, Ended
  <2>2. /\ login[a].pc \in Running \/ Cardinality(InFlight) < Parallel
        /\ login[a].pc \notin {"arm", "verify", "fail", "error"} /\ UNCHANGED <<fail, lock, spent>>
    BY <1>2 DEF CheckRate, RateTtl, FailTtl, AuditFailure, Grant, CheckLockout, Running
  <2> QED
    BY <1>1, <1>a, <2>1, <2>2, MovesMoved
<1>3. CASE CheckLockout(a) /\ As[a] \notin lock
  <2>1. Moved(a, "lockout", "verify") /\ UNCHANGED <<fail, lock, spent>>
    BY <1>3, <1>a, MovesMoved DEF CheckLockout, Label, Running
  <2>2. Count(Spelling, Running)' <= Parallel
    BY <1>a, <2>1, ParallelStep DEF Label, Running
  <2>3. arm' = arm /\ errors' = errors /\ (As[a] # n => past' = past)
    BY <2>1, CountMoved DEF arm, past, errors
  <2> QED
    BY <1>3, <1>a, <2>1, <2>2, <2>3 DEF Locked, arm, past, errors
<1>4. CASE Verify(a)
  <2>1. UNCHANGED <<fail, lock, spent>> /\ login[a].pc = "verify"
    BY <1>4 DEF Verify, redisVars
  <2>2. Moved(a, "verify", "fail") \/ Moved(a, "verify", "clear")
    BY <1>4, <1>a, MovesMoved DEF Verify, Moved, LoginTypeOK, Label, Running
  <2>3. Count(Spelling, Running)' <= Parallel
    BY <1>a, <2>2, ParallelStep DEF Label, Running
  <2>4. arm' = arm /\ errors' = errors /\ past' \in Nat /\ past' <= past
    BY <1>b, <2>2, CountMoved DEF arm, past, errors
  <2> QED
    BY <1>a, <1>b, <1>c, <1>e, <2>1, <2>3, <2>4 DEF Locked, arm, past, errors
<1>5. CASE RecordFailure(a)
  <2> DEFINE count == fail[As[a]] + 1
             to == IF count = 1 THEN "fail_ttl" ELSE IF count >= Threshold THEN "arm" ELSE "audit"
  <2>1. /\ login[a].pc = "fail" /\ Moves(a, to) /\ UNCHANGED lock
        /\ fail' = [fail EXCEPT ![As[a]] = count] /\ spent' = [spent EXCEPT ![As[a]] = @ + 1]
    BY <1>5 DEF RecordFailure
  <2>2. to \in {"fail_ttl", "arm", "audit"} /\ fail[As[a]] \in Nat
    BY <1>a DEF LoginTypeOK
  <2>3. Moved(a, "fail", to)
    BY <1>a, <2>1, <2>2, MovesMoved DEF Label, Running
  <2>4. Count(Spelling, Running)' <= Parallel
    BY <1>a, <2>2, <2>3, ParallelStep DEF Label, Running
  <2>5. /\ errors' = errors
        /\ As[a] # n => arm' = arm /\ past' = past
        /\ As[a] = n => past' = past - 1 /\ arm' = IF to = "arm" THEN arm + 1 ELSE arm
    BY <2>2, <2>3, CountMoved DEF arm, past, errors
  <2>6. CASE As[a] # n
    BY <1>a, <2>1, <2>4, <2>5, <2>6 DEF Locked, LoginTypeOK, arm, past, errors
  <2>7. CASE As[a] = n
    <3>1. fail'[n] = fail[n] + 1 /\ spent'[n] = spent[n] + 1
      BY <1>a, <2>1, <2>7 DEF LoginTypeOK
    <3>2. fail[n] + 1 < Threshold \/ to = "arm"
      BY <1>c, <1>e, <2>7
    <3>3. arm' \in Nat
      BY <1>b, <2>5, <2>7
    <3> HIDE DEF to
    <3> QED
      BY <1>a, <1>b, <1>c, <1>e, <2>1, <2>4, <2>5, <2>7, <3>1, <3>2, <3>3 DEF Locked, arm, past, errors
  <2> QED
    BY <2>6, <2>7
<1>6. CASE Arm(a)
  <2>1. Moved(a, "arm", "audit") /\ UNCHANGED <<fail, spent>> /\ lock' = lock \cup {As[a]}
    BY <1>6, <1>a, MovesMoved DEF Arm, Label, Running
  <2>2. Count(Spelling, Running)' <= Parallel
    BY <1>a, <2>1, ParallelStep DEF Label, Running
  <2>3. errors' = errors /\ past' = past /\ (As[a] # n => arm' = arm)
    BY <2>1, CountMoved DEF arm, past, errors
  <2> QED
    BY <1>a, <1>b, <1>c, <1>e, <2>1, <2>2, <2>3 DEF Locked, arm, past, errors
<1>7. CASE Clear(a)
  <2>1. Moved(a, "clear", "token") /\ Drop({FailKey(As[a]), LockKey(As[a])})
    BY <1>7, <1>a, MovesMoved DEF Clear, Label, Running
  <2>2. Count(Spelling, Running)' <= Parallel
    BY <1>a, <2>1, ParallelStep DEF Label, Running
  <2>3. errors' = errors /\ past' = past /\ arm' = arm
    BY <2>1, CountMoved DEF arm, past, errors
  <2> QED
    BY <1>a, <1>b, <2>1, <2>2, <2>3, DropLocked DEF arm, past, errors
<1>8. CASE LoginFails(a)
  <2>1. /\ Moved(a, login[a].pc, "error") /\ UNCHANGED <<fail, spent, lock>> /\ login[a].pc \in Running
    BY <1>8, <1>a, <1>d, MovesMoved, InFlightRunning DEF LoginFails, Label, Running, Ended, At
  <2>2. Count(Spelling, Running)' <= Parallel
    BY <1>a, <2>1, ParallelStep DEF Label, Running, Ended
  <2>3. errors' = errors + 1 /\ past' \in Nat /\ past' <= past /\ arm' \in Nat /\ arm <= arm' + 1
    BY <1>a, <1>b, <2>1, CountMoved DEF arm, past, errors, Running
  <2> QED
    BY <1>a, <1>b, <1>c, <1>e, <2>1, <2>2, <2>3 DEF Locked, arm, past, errors
<1> QED
  BY <1>2, <1>3, <1>4, <1>5, <1>6, <1>7, <1>8 DEF LoginStep

\* Every step keeps that account.
LEMMA LockoutStep == IInv /\ [Next]_vars => LockoutInv'
<1> SUFFICES ASSUME IInv, [Next]_vars PROVE LockoutInv'
  OBVIOUS
<1>a. LoginTypeOK /\ LockoutInv
  BY DEF IInv
<1>1. CASE \E a \in Attempt : LoginStep(a) \/ LoginFails(a)
  <2>1. PICK a \in Attempt : LoginStep(a) \/ LoginFails(a)
    BY <1>1
  <2>2. Count(Spelling, Running)' <= Parallel
    BY <2>1, AttemptAssumption, LoginStepLocked
  <2> QED
    BY <2>1, <2>2, LoginStepLocked DEF LockoutInv
<1>2. ASSUME UNCHANGED login
      PROVE  \A N, Q : Count(N, Q)' = Count(N, Q)
  BY <1>2 DEF Count, At
<1>3. CASE Expire
  <2>1. PICK key : Drop({key}) /\ UNCHANGED login
    BY <1>3 DEF Expire
  <2>2. ASSUME NEW n \in Spelling PROVE Locked(n)'
    <3>1. /\ Count({n}, {"arm"})' = Count({n}, {"arm"}) /\ Count(Spelling, {"error"})' = Count(Spelling, {"error"})
          /\ Count({n}, {"verify", "fail"})' = Count({n}, {"verify", "fail"})
      BY <1>2, <2>1
    <3>2. Count({n}, {"verify", "fail"}) \in Nat
      BY CountTypes
    <3> QED
      BY <1>a, <2>1, <3>1, <3>2, DropLocked
  <2> QED
    BY <1>a, <1>2, <2>1, <2>2 DEF LockoutInv
<1>4. CASE UNCHANGED <<login, fail, lock, spent>>
  BY <1>a, <1>2, <1>4 DEF LockoutInv, Locked
<1>5. ASSUME \/ \E t \in tokens : TokenExpires(t)
             \/ \E t \in tokens, r \in wanted \ Attempt : Act(t, r)
             \/ \E r \in jobs : InsertUser(r) \/ ChangeWrite(r)
             \/ UNCHANGED vars
      PROVE  UNCHANGED <<login, fail, lock, spent>>
  BY <1>a, <1>5, AccountStep DEF TokenExpires, redisVars, vars
<1> QED
  BY <1>1, <1>3, <1>4, <1>5 DEF Next

-----------------------------------------------------------------------------
(* The counters.                                                           *)

\* A counter is mortal, or its login is about to give it its time to live, or
\* had a fault before it could.
FailMortal(n) == fail[n] > 0 => \/ HasTtl(FailKey(n))
                                \/ \E a \in Attempt : As[a] = n /\ login[a].pc \in {"fail_ttl", "error"}
RateMortal(x) == rate[x] > 0 => \/ HasTtl(RateKey(x))
                                \/ \E a \in Attempt : From[a] = x /\ login[a].pc \in {"rate_ttl", "error"}

\* The keys of the counters and of the lock are different ones.
LEMMA KeysDiffer ==
  \A x, n, m : /\ RateKey(x) # FailKey(n) /\ RateKey(x) # LockKey(n) /\ FailKey(m) # LockKey(n)
               /\ (FailKey(m) = FailKey(n) => m = n) /\ (RateKey(m) = RateKey(n) => m = n)
BY DEF RateKey, FailKey, LockKey

\* A step that takes no key its time to live, raises no counter and moves no
\* login from where it answers for one leaves the counters mortal.
LEMMA MortalKept ==
  ASSUME LoginTypeOK, NoImmortalCounter, NEW a \in Attempt, NEW from, NEW to, Moved(a, from, to),
         from \notin {"fail_ttl", "rate_ttl"} \/ to = "error", from # "error",
         DOMAIN due \subseteq DOMAIN due', UNCHANGED <<fail, rate>>
  PROVE  NoImmortalCounter'
BY DEF NoImmortalCounter, HasTtl, Moved

\* Dropping keys drops their counters.
LEMMA MortalDropped ==
  ASSUME LoginTypeOK, NoImmortalCounter, NEW keys, Drop(keys),
         \A b \in Attempt : login[b].pc \in {"fail_ttl", "rate_ttl", "error"} => login'[b].pc = login[b].pc
  PROVE  NoImmortalCounter'
<1>1. DOMAIN due' = DOMAIN due \ keys
  BY DropDue DEF LoginTypeOK
<1>2. ASSUME NEW n \in Spelling PROVE FailMortal(n)'
  BY <1>1 DEF FailMortal, NoImmortalCounter, HasTtl, Drop
<1>3. ASSUME NEW x \in Address PROVE RateMortal(x)'
  BY <1>1 DEF RateMortal, NoImmortalCounter, HasTtl, Drop
<1> QED
  BY <1>2, <1>3 DEF NoImmortalCounter, FailMortal, RateMortal

\* A step of a login leaves no counter without its time to live, but those it is to set.
LEMMA LoginStepMortal ==
  ASSUME IInv, NEW a \in Attempt, LoginStep(a) \/ LoginFails(a)
  PROVE  NoImmortalCounter'
<1>a. LoginTypeOK /\ DueOK /\ NoImmortalCounter /\ As[a] \in Spelling /\ From[a] \in Address
  BY AttemptAssumption DEF IInv, LoginTypeOK
<1>b. ASSUME NEW pc \in Label, Moves(a, pc) PROVE Moved(a, login[a].pc, pc)
  BY <1>a, <1>b, MovesMoved
<1>c. ASSUME NEW pc, Ends(a, pc) PROVE Moves(a, pc) /\ DOMAIN due' = DOMAIN due
  BY <1>a, <1>c, EndsDue DEF Ends
<1>1. CASE CheckRate(a)
  <2> DEFINE count == rate[From[a]] + 1
             to == IF count = 1 THEN "rate_ttl" ELSE IF count > IpLimit THEN "limited" ELSE "lockout"
  <2>1. /\ login[a].pc = "wanted" /\ Moves(a, to) /\ rate' = [rate EXCEPT ![From[a]] = count] /\ UNCHANGED <<fail, due>>
    BY <1>1 DEF CheckRate
  <2>2. to \in Label /\ rate[From[a]] \in Nat /\ (to = "rate_ttl" \/ rate[From[a]] > 0)
    BY <1>a DEF Label, Running, Ended, LoginTypeOK
  <2> HIDE DEF to
  <2>3. Moved(a, "wanted", to)
    BY <1>b, <2>1, <2>2
  <2>4. ASSUME NEW n \in Spelling PROVE FailMortal(n)'
    BY <1>a, <2>1, <2>3 DEF FailMortal, NoImmortalCounter, HasTtl, Moved
  <2>5. ASSUME NEW x \in Address PROVE RateMortal(x)'
    <3>1. CASE x # From[a]
      BY <1>a, <2>1, <2>3, <3>1 DEF RateMortal, NoImmortalCounter, HasTtl, Moved, LoginTypeOK
    <3>2. CASE x = From[a]
      BY <1>a, <2>1, <2>2, <2>3, <3>2 DEF RateMortal, NoImmortalCounter, HasTtl, Moved
    <3> QED
      BY <3>1, <3>2
  <2> QED
    BY <2>4, <2>5 DEF NoImmortalCounter, FailMortal, RateMortal
<1>2. CASE RateTtl(a)
  <2>1. Moved(a, "rate_ttl", "lockout") /\ UNCHANGED <<fail, rate>> /\ DOMAIN due' = DOMAIN due \cup {RateKey(From[a])}
    BY <1>2, <1>a, <1>b, LivesDue DEF RateTtl, Label, Running
  <2>2. ASSUME NEW n \in Spelling PROVE FailMortal(n)'
    BY <1>a, <2>1 DEF FailMortal, NoImmortalCounter, HasTtl, Moved
  <2>3. ASSUME NEW x \in Address PROVE RateMortal(x)'
    BY <1>a, <2>1 DEF RateMortal, NoImmortalCounter, HasTtl, Moved
  <2> QED
    BY <2>2, <2>3 DEF NoImmortalCounter, FailMortal, RateMortal
<1>3. CASE RecordFailure(a)
  <2> DEFINE count == fail[As[a]] + 1
             to == IF count = 1 THEN "fail_ttl" ELSE IF count >= Threshold THEN "arm" ELSE "audit"
  <2>1. /\ login[a].pc = "fail" /\ Moves(a, to) /\ fail' = [fail EXCEPT ![As[a]] = count] /\ UNCHANGED <<rate, due>>
    BY <1>3 DEF RecordFailure
  <2>2. to \in Label /\ fail[As[a]] \in Nat /\ (to = "fail_ttl" \/ fail[As[a]] > 0)
    BY <1>a DEF Label, Running, LoginTypeOK
  <2> HIDE DEF to
  <2>3. Moved(a, "fail", to)
    BY <1>b, <2>1, <2>2
  <2>4. ASSUME NEW n \in Spelling PROVE FailMortal(n)'
    <3>1. CASE n # As[a]
      BY <1>a, <2>1, <2>3, <3>1 DEF FailMortal, NoImmortalCounter, HasTtl, Moved, LoginTypeOK
    <3>2. CASE n = As[a]
      BY <1>a, <2>1, <2>2, <2>3, <3>2 DEF FailMortal, NoImmortalCounter, HasTtl, Moved
    <3> QED
      BY <3>1, <3>2
  <2>5. ASSUME NEW x \in Address PROVE RateMortal(x)'
    BY <1>a, <2>1, <2>3 DEF RateMortal, NoImmortalCounter, HasTtl, Moved
  <2> QED
    BY <2>4, <2>5 DEF NoImmortalCounter, FailMortal, RateMortal
<1>4. CASE FailTtl(a)
  <2>1. Moved(a, "fail_ttl", "audit") /\ UNCHANGED <<fail, rate>> /\ DOMAIN due \subseteq DOMAIN due'
        /\ (fail[As[a]] > 0 => FailKey(As[a]) \in DOMAIN due')
    BY <1>4, <1>a, <1>b, LivesDue DEF FailTtl, Label, Running
  <2>2. ASSUME NEW n \in Spelling PROVE FailMortal(n)'
    BY <1>a, <2>1 DEF FailMortal, NoImmortalCounter, HasTtl, Moved
  <2>3. ASSUME NEW x \in Address PROVE RateMortal(x)'
    BY <1>a, <2>1 DEF RateMortal, NoImmortalCounter, HasTtl, Moved
  <2> QED
    BY <2>2, <2>3 DEF NoImmortalCounter, FailMortal, RateMortal
<1>5. CASE Clear(a)
  <2>1. Moved(a, "clear", "token") /\ Drop({FailKey(As[a]), LockKey(As[a])})
    BY <1>5, <1>b DEF Clear, Label, Running
  <2>2. \A b \in Attempt : login[b].pc \in {"fail_ttl", "rate_ttl", "error"} => login'[b].pc = login[b].pc
    BY <2>1 DEF Moved
  <2> QED
    BY <1>a, <2>1, <2>2, MortalDropped
<1>6. CASE CheckLockout(a) \/ Verify(a) \/ Arm(a) \/ AuditFailure(a) \/ Grant(a)
  <2>1. \E to \in Label : Moved(a, login[a].pc, to)
    BY <1>6, <1>a, <1>b, <1>c DEF CheckLockout, Verify, Arm, AuditFailure, Grant, Label, Running, Ended, Moved, LoginTypeOK
  <2>2. login[a].pc \notin {"fail_ttl", "rate_ttl", "error"} /\ UNCHANGED <<fail, rate>>
    BY <1>6 DEF CheckLockout, Verify, Arm, AuditFailure, Grant, redisVars
  <2>3. DOMAIN due \subseteq DOMAIN due'
    BY <1>6, <1>a, <1>c, LivesDue DEF CheckLockout, Verify, Arm, AuditFailure, Grant, redisVars
  <2> QED
    BY <1>a, <2>1, <2>2, <2>3, MortalKept
<1>7. CASE LoginFails(a)
  <2>1. Moved(a, login[a].pc, "error") /\ UNCHANGED <<fail, rate>> /\ DOMAIN due \subseteq DOMAIN due'
    BY <1>7, <1>b, <1>c DEF LoginFails, Label, Ended
  <2>2. login[a].pc # "error"
    BY <1>7 DEF LoginFails, InFlight, Ended
  <2> QED
    BY <1>a, <2>1, <2>2, MortalKept
<1> QED
  BY <1>1, <1>2, <1>3, <1>4, <1>5, <1>6, <1>7 DEF LoginStep

\* Neither does any other step.
LEMMA MortalStep == IInv /\ [Next]_vars => NoImmortalCounter'
<1> SUFFICES ASSUME IInv, [Next]_vars PROVE NoImmortalCounter'
  OBVIOUS
<1>a. LoginTypeOK /\ NoImmortalCounter
  BY DEF IInv
<1>1. CASE \E a \in Attempt : LoginStep(a) \/ LoginFails(a)
  BY <1>1, LoginStepMortal
<1>2. CASE Expire
  BY <1>a, <1>2, MortalDropped DEF Expire
<1>3. CASE \/ \E t \in tokens : TokenExpires(t)
           \/ \E t \in tokens, r \in wanted \ Attempt : Act(t, r)
           \/ \E r \in jobs : InsertUser(r) \/ ChangeWrite(r)
           \/ UNCHANGED vars
  <2>1. UNCHANGED <<login, redisVars>>
    BY <1>a, <1>3, AccountStep DEF TokenExpires, vars
  <2> QED
    BY <1>a, <2>1 DEF NoImmortalCounter, HasTtl, redisVars
<1> QED
  BY <1>1, <1>2, <1>3 DEF Next

-----------------------------------------------------------------------------
(* The theorems.                                                           *)

\* Every step keeps the invariant.
LEMMA InvStep == IInv /\ [Next]_vars => IInv'
BY TypeStep, LockoutStep, MortalStep DEF IInv

\* The variables of Login keep their types, and no two accounts share a name
\* although the look at the name and the insert are two statements
\* (service.py:138).
THEOREM TypeCorrect == Spec => []TypeOK
<1>1. IInv => TypeOK
  <2> SUFFICES ASSUME IInv PROVE TypeOK
    OBVIOUS
  <2>1. LoginTypeOK /\ NamesUnique
    BY DEF IInv
  <2>2. \A i \in Id : users[i] # NoRow => users[i].role \in Role /\ users[i].name \in Name
    BY <2>1 DEF LoginTypeOK, Row
  <2>3. \A a \in Attempt : login[a].pc \in Label
    BY <2>1 DEF LoginTypeOK
  <2> QED
    BY <2>1, <2>2, <2>3 DEF LoginTypeOK, NamesUnique, TypeOK, Label, Running, DueOK, Token
<1> QED
  BY InvInit, InvStep, <1>1, PTL DEF Spec

\* However logins interleave, the failures between two lifts of a lock exceed the
\* threshold by less than the logins under way at once, faults apart
\* (service.py:54).
THEOREM LockoutBounds == Spec => []GuessesBounded
<1>1. IInv => GuessesBounded
  <2> SUFFICES ASSUME IInv, NEW n \in Spelling
               PROVE  spent[n] < Threshold + Parallel + Cardinality({a \in Attempt : login[a].pc = "error"})
    BY DEF GuessesBounded
  <2>1. {a \in Attempt : login[a].pc = "error"} = At(Spelling, {"error"})
    BY AttemptAssumption DEF At
  <2>2. Locked(n) /\ Count(Spelling, Running) <= Parallel /\ spent[n] \in Nat
    BY DEF IInv, LockoutInv, LoginTypeOK
  <2>3. /\ Count({n}, {"arm"}) \in Nat /\ Count({n}, {"verify", "fail"}) \in Nat
        /\ Count(Spelling, {"error"}) \in Nat /\ Count(Spelling, Running) \in Nat
        /\ Count({n}, {"arm"}) + Count({n}, {"verify", "fail"}) <= Count(Spelling, Running)
    BY CountTypes
  <2>4. spent[n] < Threshold + Parallel + Count(Spelling, {"error"})
    BY <2>2, <2>3, LimitsAssumption DEF Locked
  <2> QED
    BY <2>1, <2>4 DEF Count
<1> QED
  BY InvInit, InvStep, <1>1, PTL DEF Spec

\* A counter without a time to live has its login about to give it one, or one
\* that had a fault right after its INCR (service.py:46).
THEOREM CountersMortal == Spec => []NoImmortalCounter
<1>1. IInv => NoImmortalCounter
  BY DEF IInv
<1> QED
  BY InvInit, InvStep, <1>1, PTL DEF Spec

\* No token of an account that exists removes the last account
\* (service.py:182).
THEOREM LastAccountKept == Spec => LastAccountStays
<1> DEFINE Stays == (\E i \in Id : users[i] # NoRow) /\ (\A i \in Id : users'[i] = NoRow)
                    => \E t \in tokens : users[t.id] = NoRow
<1>1. ASSUME IInv, [Next]_vars PROVE [Stays]_vars
  <2> SUFFICES ASSUME NEW i \in Id, users[i] # NoRow, \A j \in Id : users'[j] = NoRow,
                      \A t \in tokens : users[t.id] # NoRow
               PROVE  FALSE
    OBVIOUS
  <2>a. LoginTypeOK
    BY <1>1 DEF IInv
  <2>1. CASE \E a \in Attempt : LoginStep(a) \/ LoginFails(a)
    BY <1>1, <2>1, LoginStepType
  <2>2. CASE (\E t \in tokens : TokenExpires(t)) \/ Expire \/ UNCHANGED vars
    BY <2>a, <2>2, OtherStep
  <2>3. ASSUME NEW r \in jobs, InsertUser(r) PROVE FALSE
    BY <2>a, <2>3, InsertedRows
  <2>4. ASSUME NEW r \in jobs, ChangeWrite(r) PROVE FALSE
    <3>1. r.id \in Id /\ r.new \in Password
      BY <2>a, <2>4 DEF ChangeWrite, LoginTypeOK, Request, Changing
    <3> QED
      BY <2>a, <2>4, <3>1, HashedRows DEF ChangeWrite
  <2>5. ASSUME NEW t \in tokens, NEW r \in wanted \ Attempt, Act(t, r) PROVE FALSE
    <3>0. r \in Request /\ t.id \in Id
      BY <2>a, <2>5 DEF LoginTypeOK, Token
    <3>1. CASE CreateLook(t, r) \/ ChangeVerify(t, r) \/ Own(t, r)
      BY <3>1 DEF CreateLook, ChangeVerify, Own
    <3>2. CASE UpdateUser(t, r)
      BY <2>a, <3>0, <3>2, UpdatedRows DEF UpdateUser, Want
    <3>3. CASE ResetPassword(t, r)
      <4>1. r.id \in Id /\ r.password \in Password
        BY <3>0, <3>3 DEF ResetPassword, Want, Request
      <4> QED
        BY <2>a, <3>3, <4>1, HashedRows DEF ResetPassword
    <3>4. CASE DeleteUser(t, r)
      <4>1. r.id \in Id
        BY <3>0, <3>4 DEF DeleteUser, Want, Request
      <4>2. users'[t.id] = users[t.id]
        BY <2>a, <3>0, <3>4, <4>1, DeletedRows DEF DeleteUser
      <4> QED
        BY <3>0, <4>2
    <3> QED
      BY <2>5, <3>1, <3>2, <3>3, <3>4 DEF Act
  <2> QED
    BY <1>1, <2>1, <2>2, <2>3, <2>4, <2>5 DEF Next
<1> QED
  BY InvInit, InvStep, <1>1, PTL DEF Spec, LastAccountStays
=============================================================================
