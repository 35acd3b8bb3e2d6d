-------------------------------- MODULE Login --------------------------------
(* Login, accounts and tokens: gateway features/auth and middleware/auth.    *)
(* A login is a coroutine with an await at every Redis or database command,  *)
(* so that others run in between.  A key with a time to live is in "due",    *)
(* and keys set for the same time expire in the order they were set.         *)
EXTENDS Integers, Sequences, FiniteSets

CONSTANTS
  Attempt,         \* logins, each made once
  Address, Id, Password, Role,
  Spelling, Name, Fold,  \* a user name as typed; the CITEXT column compares Fold[s]
  From, As, With,  \* of an attempt: address, spelling, password
  NoRow,
  IpLimit,         \* IP_RATE_LIMIT
  Threshold,       \* FAIL_LOCKOUT_THRESHOLD
  Parallel,        \* bound: logins the gateway has under way at once
  Users,           \* the rows at first
  Plans            \* bounds of a behaviour: the requests it may make, each once,
                   \* and the faults it may have

\* What administrators and users ask for.
Request ==
  [do : {"create"}, id : Id, name : Name, password : Password, role : Role]
  \cup [do : {"update"}, id : Id, role : Role, enabled : BOOLEAN] \cup [do : {"delete"}, id : Id]
  \cup [do : {"reset"}, id : Id, password : Password] \cup [do : {"change"}, current : Password, new : Password]
  \cup [do : {"own"}]
Row == [name : Name, password : Password, role : Role, enabled : BOOLEAN]

ASSUME AttemptAssumption ==
  /\ IsFiniteSet(Attempt) /\ Attempt \cap Request = {}
  /\ From \in [Attempt -> Address] /\ As \in [Attempt -> Spelling]
\* The fifth failure locks an account (service.py:36), not the first.
ASSUME LimitsAssumption == Threshold \in Nat \ {0, 1} /\ Parallel \in Nat /\ IpLimit \in Nat
\* The name is unique in the users table (init.sql:31).
ASSUME UsersAssumption ==
  /\ NoRow \notin Row /\ Users \in [Id -> Row \cup {NoRow}]
  /\ \A i, j \in Id : i # j /\ Users[i] # NoRow /\ Users[j] # NoRow => Users[i].name # Users[j].name
ASSUME PlansAssumption == \A plan \in Plans : plan.requests \subseteq Attempt \cup Request /\ plan.faults \in Nat

VARIABLES
  wanted,    \* requests not made yet
  login,     \* by attempt: pc, and the row it read
  rate,      \* orw:login_rate by address
  fail,      \* orw:login_fail by spelling
  lock,      \* orw:lockout: the spellings locked
  due,       \* by key with a time to live: "busy", the attempts it outlives, and
             \* "before", the keys that were set earlier for the same time
  users,     \* by id: name, password, role, enabled
  owners,    \* ids other rows refer to (policies.created_by and the like)
  tokens,    \* tokens not expired
  jobs,      \* requests between two of their statements
  faults,    \* faults still allowed
  spent      \* history: by spelling, the failures since its lock, or its
             \* counter, last went

redisVars == <<rate, fail, lock, due>>
vars == <<wanted, login, redisVars, users, owners, tokens, jobs, faults, spent>>

Ended == {"granted", "refused", "limited", "locked", "error"}

Init ==
  /\ \E plan \in Plans : wanted = plan.requests /\ faults = plan.faults
  /\ login = [a \in Attempt |-> [pc |-> "wanted", row |-> NoRow]]
  /\ rate = [x \in Address |-> 0] /\ fail = [n \in Spelling |-> 0] /\ lock = {} /\ due = <<>>
  /\ users = Users /\ owners = {} /\ tokens = {} /\ jobs = {}
  /\ spent = [n \in Spelling |-> 0]

Fault == faults > 0 /\ faults' = faults - 1

-----------------------------------------------------------------------------
\* Redis.
InFlight == {a \in Attempt : login[a].pc \notin Ended \cup {"wanted"}}

RateKey(x) == <<"rate", x>>
FailKey(n) == <<"fail", n>>
LockKey(n) == <<"lock", n>>

\* Counters by address live 60 seconds, keys of a name 900.
SameTtl(k, j) == (k[1] = "rate") = (j[1] = "rate")

Forgotten(keys) == [k \in DOMAIN due \ keys |-> [due[k] EXCEPT !.before = @ \ keys]]
\* EXPIRE, SETEX: the time to live outlasts every login now under way.
Lives(key) ==
  LET others == DOMAIN due \ {key} IN
  due' = [k \in others \cup {key} |->
            IF k = key THEN [busy |-> InFlight, before |-> {j \in others : SameTtl(j, key)}]
            ELSE Forgotten({key})[k]]
HasTtl(key) == key \in DOMAIN due

Moves(a, pc) == login' = [login EXCEPT ![a].pc = pc]
\* The end of an attempt; time may pass for the keys that were set during it.
Ends(a, pc) == /\ Moves(a, pc)
               /\ due' = [k \in DOMAIN due |-> [due[k] EXCEPT !.busy = @ \ {a}]]

\* DEL, or the end of their time.
Drop(keys) ==
  /\ due'   = Forgotten(keys)
  /\ rate'  = [x \in Address |-> IF RateKey(x) \in keys THEN 0 ELSE rate[x]]
  /\ fail'  = [n \in Spelling |-> IF FailKey(n) \in keys THEN 0 ELSE fail[n]]
  /\ lock'  = {n \in lock : LockKey(n) \notin keys}
  /\ spent' = [n \in Spelling |-> IF {FailKey(n), LockKey(n)} \cap keys # {} THEN 0 ELSE spent[n]]

\* Keys with the same time to live go in the order they were set.
Expire ==
  \E key \in DOMAIN due :
    /\ due[key].busy = {} /\ due[key].before = {}
    /\ Drop({key})
    /\ UNCHANGED <<wanted, login, users, owners, tokens, jobs, faults>>

-----------------------------------------------------------------------------
\* login
OnlyLogin == UNCHANGED <<wanted, users, owners, jobs>>

\* _check_ip_rate
CheckRate(a) ==
  /\ login[a].pc = "wanted" /\ a \in wanted /\ Cardinality(InFlight) < Parallel
  /\ LET count == rate[From[a]] + 1 IN
     /\ rate' = [rate EXCEPT ![From[a]] = count]
     /\ Moves(a, IF count = 1 THEN "rate_ttl" ELSE IF count > IpLimit THEN "limited" ELSE "lockout")
  /\ wanted' = wanted \ {a}
  /\ UNCHANGED <<fail, lock, due, users, owners, tokens, jobs, faults, spent>>

RateTtl(a) ==
  /\ login[a].pc = "rate_ttl"
  /\ Lives(RateKey(From[a])) /\ Moves(a, "lockout")
  /\ UNCHANGED <<rate, fail, lock, tokens, faults, spent>> /\ OnlyLogin

\* A mistake: the lockout is not looked at.
CheckLockoutNot(a) ==
  /\ login[a].pc = "lockout" /\ Moves(a, "verify")
  /\ UNCHANGED <<redisVars, tokens, faults, spent>> /\ OnlyLogin

\* _check_lockout
CheckLockout(a) ==
  /\ login[a].pc = "lockout"
  /\ IF As[a] \in lock THEN Ends(a, "locked") ELSE Moves(a, "verify") /\ UNCHANGED due
  /\ UNCHANGED <<rate, fail, lock, tokens, faults, spent>> /\ OnlyLogin

username_exists(name) == \E i \in Id : users[i] # NoRow /\ users[i].name = name
lookup_user_for_login(n) == {i \in Id : users[i] # NoRow /\ users[i].name = Fold[n]}
verify_password(plain, i) == users[i].password = plain

\* The row is read, and the password verified at once with it.
Verify(a) ==
  /\ login[a].pc = "verify"
  /\ LET valid == {i \in lookup_user_for_login(As[a]) : users[i].enabled /\ verify_password(With[a], i)} IN
     \/ valid = {} /\ Moves(a, "fail")
     \/ \E i \in valid : login' = [login EXCEPT ![a] = [pc |-> "clear", row |-> [id |-> i, role |-> users[i].role]]]
  /\ UNCHANGED <<redisVars, tokens, faults, spent>> /\ OnlyLogin

\* A mistake: the counter gets its time to live when the lock is armed.
RecordFailureLate(a) ==
  /\ login[a].pc = "fail"
  /\ LET count == fail[As[a]] + 1 IN
     /\ fail' = [fail EXCEPT ![As[a]] = count]
     /\ Moves(a, IF count = Threshold THEN "fail_ttl" ELSE IF count > Threshold THEN "arm" ELSE "audit")
  /\ spent' = [spent EXCEPT ![As[a]] = @ + 1]
  /\ UNCHANGED <<rate, lock, due, tokens, faults>> /\ OnlyLogin

\* _record_failed_login: INCR,
RecordFailure(a) ==
  /\ login[a].pc = "fail"
  /\ LET count == fail[As[a]] + 1 IN
     /\ fail' = [fail EXCEPT ![As[a]] = count]
     /\ Moves(a, IF count = 1 THEN "fail_ttl" ELSE IF count >= Threshold THEN "arm" ELSE "audit")
  /\ spent' = [spent EXCEPT ![As[a]] = @ + 1]
  /\ UNCHANGED <<rate, lock, due, tokens, faults>> /\ OnlyLogin

\* EXPIRE, of no effect on a counter that another login has deleted since,
FailTtl(a) ==
  /\ login[a].pc = "fail_ttl"
  /\ IF fail[As[a]] > 0 THEN Lives(FailKey(As[a])) ELSE UNCHANGED due
  /\ Moves(a, "audit")
  /\ UNCHANGED <<rate, fail, lock, tokens, faults, spent>> /\ OnlyLogin

\* and SETEX.
Arm(a) ==
  /\ login[a].pc = "arm"
  /\ lock' = lock \cup {As[a]}
  /\ Lives(LockKey(As[a])) /\ Moves(a, "audit")
  /\ UNCHANGED <<rate, fail, tokens, faults, spent>> /\ OnlyLogin

\* login_failed is committed, then 401.
AuditFailure(a) ==
  /\ login[a].pc = "audit" /\ Ends(a, "refused")
  /\ UNCHANGED <<rate, fail, lock, tokens, faults, spent>> /\ OnlyLogin

\* _clear_login_failures
Clear(a) ==
  /\ login[a].pc = "clear"
  /\ Drop({FailKey(As[a]), LockKey(As[a])}) /\ Moves(a, "token")
  /\ UNCHANGED <<tokens, faults>> /\ OnlyLogin

\* last_login, the audit row, create_access_token: the role is the one read.
Grant(a) ==
  /\ login[a].pc = "token"
  /\ tokens' = tokens \cup {login[a].row}
  /\ Ends(a, "granted")
  /\ UNCHANGED <<rate, fail, lock, faults, spent>> /\ OnlyLogin

\* Redis or the database fails: 500, what was done in Redis stays.
LoginFails(a) ==
  /\ a \in InFlight /\ Fault /\ Ends(a, "error")
  /\ UNCHANGED <<rate, fail, lock, tokens, spent>> /\ OnlyLogin

-----------------------------------------------------------------------------
\* A token lives for jwt_expire_minutes, whatever becomes of its user.
TokenExpires(t) ==
  /\ t \in tokens /\ tokens' = tokens \ {t}
  /\ UNCHANGED <<wanted, login, redisVars, users, owners, jobs, faults, spent>>

\* The token is asked, not the users table.
get_current_user(t) == t \in tokens
require_admin(t) == get_current_user(t) /\ t.role = "admin"

OnlyUsers == UNCHANGED <<login, redisVars, tokens, faults, spent>>
Want(kind, r) == r \in wanted /\ r.do = kind /\ wanted' = wanted \ {r}

insert_user(r) == [users EXCEPT ![r.id] = [name |-> r.name, password |-> r.password, role |-> r.role, enabled |-> TRUE]]
update_user_fields(r) == IF users[r.id] = NoRow THEN users
                         ELSE [users EXCEPT ![r.id].role = r.role, ![r.id].enabled = r.enabled]
update_password_hash(i, p) == IF users[i] = NoRow THEN users ELSE [users EXCEPT ![i].password = p]
\* A user other rows refer to stays: the foreign key refuses.
delete_user(i) == IF i \in owners THEN users ELSE [users EXCEPT ![i] = NoRow]

\* create_user: first a look at the name,
CreateLook(t, r) ==
  /\ require_admin(t) /\ Want("create", r)
  /\ jobs' = IF username_exists(r.name) THEN jobs ELSE jobs \cup {r}
  /\ UNCHANGED <<users, owners>> /\ OnlyUsers

\* A mistake: the insert relies on the look.
InsertUserUnchecked(r) ==
  /\ r \in jobs /\ r.do = "create"
  /\ users' = insert_user(r) /\ jobs' = jobs \ {r}
  /\ UNCHANGED <<wanted, owners>> /\ OnlyUsers

\* then the insert, which the UNIQUE constraint refuses if another was faster.
InsertUser(r) ==
  /\ r \in jobs /\ r.do = "create"
  /\ users' = (IF username_exists(r.name) THEN users ELSE insert_user(r)) /\ jobs' = jobs \ {r}
  /\ UNCHANGED <<wanted, owners>> /\ OnlyUsers

\* update_user: role and enabled, of oneself too, of the last administrator too.
UpdateUser(t, r) ==
  /\ require_admin(t) /\ Want("update", r)
  /\ users' = update_user_fields(r)
  /\ UNCHANGED <<owners, jobs>> /\ OnlyUsers

\* A mistake: one's own account is not excepted.
DeleteUserSelf(t, r) ==
  /\ require_admin(t) /\ Want("delete", r)
  /\ users' = delete_user(r.id)
  /\ UNCHANGED <<owners, jobs>> /\ OnlyUsers

\* delete_user: not oneself.
DeleteUser(t, r) ==
  /\ require_admin(t) /\ Want("delete", r)
  /\ users' = IF r.id = t.id THEN users ELSE delete_user(r.id)
  /\ UNCHANGED <<owners, jobs>> /\ OnlyUsers

\* reset_user_password
ResetPassword(t, r) ==
  /\ require_admin(t) /\ Want("reset", r)
  /\ users' = update_password_hash(r.id, r.password)
  /\ UNCHANGED <<owners, jobs>> /\ OnlyUsers

\* change_own_password: the hash is read and verified,
ChangeVerify(t, r) ==
  /\ get_current_user(t) /\ Want("change", r)
  /\ jobs' = IF users[t.id] # NoRow /\ verify_password(r.current, t.id)
             THEN jobs \cup {[do |-> "changing", id |-> t.id, new |-> r.new]} ELSE jobs
  /\ UNCHANGED <<users, owners>> /\ OnlyUsers

\* and written, whatever it has become since.
ChangeWrite(r) ==
  /\ r \in jobs /\ r.do = "changing"
  /\ users' = update_password_hash(r.id, r.new) /\ jobs' = jobs \ {r}
  /\ UNCHANGED <<wanted, owners>> /\ OnlyUsers

\* A policy is created: its row refers to the user of the token, who must exist.
Own(t, r) ==
  /\ get_current_user(t) /\ t.role \in {"admin", "operator"} /\ Want("own", r)
  /\ owners' = IF users[t.id] = NoRow THEN owners ELSE owners \cup {t.id}
  /\ UNCHANGED <<users, jobs>> /\ OnlyUsers

-----------------------------------------------------------------------------
LoginStep(a) == \/ CheckRate(a) \/ RateTtl(a) \/ CheckLockout(a) \/ Verify(a)
                \/ RecordFailure(a) \/ FailTtl(a) \/ Arm(a) \/ AuditFailure(a)
                \/ Clear(a) \/ Grant(a)
Act(t, r) == \/ CreateLook(t, r) \/ UpdateUser(t, r) \/ DeleteUser(t, r) \/ ResetPassword(t, r)
             \/ ChangeVerify(t, r) \/ Own(t, r)

Next == \/ \E a \in Attempt : LoginStep(a) \/ LoginFails(a)
        \/ \E t \in tokens : TokenExpires(t)
        \/ \E t \in tokens, r \in wanted \ Attempt : Act(t, r)
        \/ \E r \in jobs : InsertUser(r) \/ ChangeWrite(r)
        \/ Expire

Spec == Init /\ [][Next]_vars

-----------------------------------------------------------------------------
\* Every variable keeps its type, and no two rows have a name
\* (service.py:138: the name is looked up before the insert).
TypeOK ==
  /\ \A a \in Attempt : login[a].pc \in Ended \cup
       {"wanted", "rate_ttl", "lockout", "verify", "fail", "fail_ttl", "arm", "audit", "clear", "token"}
  /\ rate \in [Address -> Nat] /\ fail \in [Spelling -> Nat] /\ lock \subseteq Spelling
  /\ \A k \in DOMAIN due : due[k].busy \subseteq Attempt
  /\ \A i \in Id : users[i] # NoRow => users[i].role \in Role /\ users[i].name \in Name
  /\ \A i, j \in Id : i # j /\ users[i] # NoRow /\ users[j] # NoRow => users[i].name # users[j].name
  /\ owners \subseteq Id /\ tokens \subseteq [id : Id, role : Role] /\ faults \in Nat

\* The lock is looked at before the password and armed after it (service.py:54),
\* so that logins under way at once all pass: still the failures between two
\* lifts of a lock exceed the threshold by less than the logins one can have
\* under way, and by one more for each login that ended in a fault.
GuessesBounded ==
  \A n \in Spelling :
    spent[n] < Threshold + Parallel + Cardinality({a \in Attempt : login[a].pc = "error"})

\* A counter that nothing will reset is one whose login had a fault right after
\* its INCR (service.py:46): however the logins interleave, deletions of the
\* counter between another's INCR and EXPIRE included, every other counter has
\* its time to live or a login about to set it.
NoImmortalCounter ==
  /\ \A n \in Spelling : fail[n] > 0 => \/ HasTtl(FailKey(n))
                                        \/ \E a \in Attempt : As[a] = n /\ login[a].pc \in {"fail_ttl", "error"}
  /\ \A x \in Address : rate[x] > 0 => \/ HasTtl(RateKey(x))
                                       \/ \E a \in Attempt : From[a] = x /\ login[a].pc \in {"rate_ttl", "error"}

\* The last account goes only by the token of an account that is gone already,
\* as when two administrators delete each other (service.py:182).
LastAccountStays ==
  [][ (\E i \in Id : users[i] # NoRow) /\ (\A i \in Id : users'[i] = NoRow)
      => \E t \in tokens : users[t.id] = NoRow ]_vars
=============================================================================
