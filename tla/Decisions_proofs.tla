-------------------------- MODULE Decisions_proofs --------------------------
(* The decisions of the system.  Access: types, and the VLAN of a reply, for *)
(* any number of threads, connections, VLANs, edits and outages.  The pure   *)
(* functions: what the two copies of the evaluator, the codec of the         *)
(* packets, the generator of the configuration and the CSV files compute.    *)
EXTENDS Access, PureFunctions, FiniteSetTheorems, SequenceTheorems, TLAPS

-----------------------------------------------------------------------------
(* Access: a client's VLAN.                                                  *)

\* What is settled about the reply before each access of a call: nothing for
\* a MAB client, and for an accepted user only that no device row decided.
Unsettled(t) ==
  /\ reply[t] = None
  /\ job[t] = "whitelist" => kind[t] \in MabKind /\ ~accept[t]
  /\ job[t] # "whitelist" => kind[t] \notin MabKind /\ accept[t]
  /\ job[t] = "override" => kind[t] \in {"user", "odd_user"}
  /\ job[t] \in {"servers", "mapping"} /\ kind[t] = "user" =>
       failed[t] \/ ~(pins[t] \subseteq Pin)

\* Before the log entry the reply is final.
Settled(t) ==
  accept[t] =>
    \/ reply[t] \in Prescribed(t)
    \/ kind[t] \notin MabKind /\ failed[t] /\ reply[t] \in maps[t] \cup {None}

\* An idle thread owes no reply, one that queries has a connection; the values
\* the tables have now are among those its call has witnessed.
Local(t) ==
  /\ pc[t] = "idle" => reply[t] = None
  /\ pc[t] = "query" => ref[t] # None
  /\ pc[t] # "idle" => device \in pins[t] /\ mapping \in maps[t]
  /\ pc[t] # "idle" => IF job[t] = "log" THEN Settled(t) ELSE Unsettled(t)

IInv == TypeOK /\ \A t \in Thread : Local(t)

-----------------------------------------------------------------------------
(* The initial states.                                                     *)

\* The initial states satisfy the invariant.
LEMMA InvInit == Init => IInv
<1> SUFFICES ASSUME Init PROVE IInv
  OBVIOUS
<1> USE DEF Init, IInv
<1>1. TypeOK
  <2>1. global \in Conn \cup {None} /\ edits \in 0 .. MaxEdits
    BY AccessAssumption
  <2>2. /\ state \in [Conn -> ConnState] /\ pc \in [Thread -> Label]
        /\ job \in [Thread -> Job] /\ kind \in [Thread -> Kind]
    BY DEF ConnState, Label, Job, Kind
  <2> QED
    BY <2>1, <2>2 DEF TypeOK
<1>2. \A t \in Thread : Local(t)
  BY DEF Local
<1> QED
  BY <1>1, <1>2

-----------------------------------------------------------------------------
(* Types.                                                                  *)

\* A lookup that is asked for keeps the types.
LEMMA AccessType ==
  ASSUME TypeOK, NEW t \in Thread, NEW j \in Job, Access(t, j)
  PROVE  /\ pc' \in [Thread -> Label] /\ job' \in [Thread -> Job]
         /\ ref' \in [Thread -> Conn \cup {None}]
  BY DEF TypeOK, Access, Goto, Label

\* So does the reply.
LEMMA FinishType ==
  ASSUME TypeOK, NEW t \in Thread, Finish(t)
  PROVE  /\ pc' \in [Thread -> Label] /\ job' \in [Thread -> Job]
         /\ ref' \in [Thread -> Conn \cup {None}]
         /\ kind' \in [Thread -> Kind] /\ accept' \in [Thread -> BOOLEAN]
         /\ reply' \in [Thread -> Vlan \cup {None}]
         /\ failed' \in [Thread -> BOOLEAN]
         /\ pins' \in [Thread -> SUBSET Row]
         /\ maps' \in [Thread -> SUBSET (Group \cup {None})]
  BY DEF TypeOK, Finish, Goto, Label, Kind

\* So does a failed statement.
LEMMA FailType ==
  ASSUME TypeOK, NEW t \in Thread, Fail(t)
  PROVE  /\ pc' \in [Thread -> Label] /\ job' \in [Thread -> Job]
         /\ ref' \in [Thread -> Conn \cup {None}]
         /\ kind' \in [Thread -> Kind] /\ accept' \in [Thread -> BOOLEAN]
         /\ reply' \in [Thread -> Vlan \cup {None}]
         /\ failed' \in [Thread -> BOOLEAN]
         /\ pins' \in [Thread -> SUBSET Row]
         /\ maps' \in [Thread -> SUBSET (Group \cup {None})]
<1>1. CASE job[t] = "log" /\ Finish(t)
  BY <1>1, FinishType
<1>2. CASE job[t] # "log" /\ Access(t, Otherwise(job[t]))
  <2>1. Otherwise(job[t]) \in Job
    BY DEF Otherwise, Job
  <2>2. /\ pc' \in [Thread -> Label] /\ job' \in [Thread -> Job]
        /\ ref' \in [Thread -> Conn \cup {None}]
    BY <1>2, <2>1, AccessType
  <2> QED
    BY <1>2, <2>2 DEF Fail, Finish, TypeOK
<1> QED
  BY <1>1, <1>2 DEF Fail

\* A query keeps the connection's state a state.
LEMMA AskType ==
  ASSUME TypeOK, NEW t \in Thread, Local(t), NEW ok \in BOOLEAN, Ask(t, ok)
  PROVE  /\ state' \in [Conn -> ConnState] /\ raced' \in BOOLEAN
         /\ UNCHANGED <<tables, up, global, faults>>
<1>1. ref[t] \in Conn /\ state[ref[t]] \in ConnState
  BY DEF Ask, Local, TypeOK
<1>2. AfterQuery(state[ref[t]], ok) \in ConnState
  BY <1>1 DEF AfterQuery, ConnState
<1> QED
  BY <1>1, <1>2 DEF Ask, TypeOK

\* Every step keeps the types.
LEMMA TypeStep == IInv /\ [Next]_vars => TypeOK'
<1> SUFFICES ASSUME IInv, [Next]_vars PROVE TypeOK'
  OBVIOUS
<1> USE DEF IInv
<1>a. "log" \in Job /\ "servers" \in Job /\ "mapping" \in Job
  BY DEF Job
<1>1. ASSUME NEW t \in Thread, GetDb(t) PROVE TypeOK'
  BY <1>1 DEF TypeOK, GetDb, Goto, Label, tables, database, call
<1>2. ASSUME NEW t \in Thread, Connect(t) PROVE TypeOK'
  BY <1>2 DEF TypeOK, Connect, Unused, Goto, Label, ConnState, tables, call
<1>3. ASSUME NEW t \in Thread, SetAutocommit(t) PROVE TypeOK'
  BY <1>3 DEF TypeOK, SetAutocommit, Goto, Label, ConnState, tables, call
<1>4. ASSUME NEW t \in Thread, NoDb(t) PROVE TypeOK'
  BY <1>4, FailType DEF TypeOK, NoDb, tables, database
<1>5. ASSUME NEW t \in Thread, QueryFails(t) PROVE TypeOK'
  <2>1. state' \in [Conn -> ConnState]
    BY <1>5 DEF QueryFails, Local, TypeOK, ConnState
  <2> QED
    BY <1>5, <2>1, FailType DEF TypeOK, QueryFails, tables
<1>6. ASSUME NEW t \in Thread, Whitelist(t) PROVE TypeOK'
  <2>1. (IF device = NoRow THEN None ELSE device) \in Vlan \cup {None}
    BY DEF TypeOK, Row, Vlan
  <2>2. (device # NoRow) \in BOOLEAN
    OBVIOUS
  <2> QED
    BY <1>6, <1>a, <2>1, <2>2, AskType, AccessType
    DEF TypeOK, Whitelist, tables
<1>7. ASSUME NEW t \in Thread, Override(t) PROVE TypeOK'
  BY <1>7, <1>a, AskType, AccessType DEF TypeOK, Override, tables, Vlan
<1>8. ASSUME NEW t \in Thread, BadCast(t) PROVE TypeOK'
  <2>1. Otherwise(job[t]) \in Job
    BY DEF Otherwise, Job
  <2> QED
    BY <1>8, <2>1, AskType, AccessType DEF TypeOK, BadCast, tables, call
<1>9. ASSUME NEW t \in Thread, Groups(t) PROVE TypeOK'
  BY <1>9, <1>a, AskType, AccessType DEF TypeOK, Groups, tables, call
<1>10. ASSUME NEW t \in Thread, GroupVlan(t) PROVE TypeOK'
  BY <1>10, <1>a, AskType, AccessType DEF TypeOK, GroupVlan, tables, Vlan
<1>11. ASSUME NEW t \in Thread, NEW ok \in BOOLEAN, LogAuth(t, ok) PROVE TypeOK'
  BY <1>11, AskType, FinishType DEF TypeOK, LogAuth, tables
<1>12. ASSUME NEW t \in Thread, NEW k \in Kind, NEW ok \in BOOLEAN,
              Begin(t, k, ok)
       PROVE  TypeOK'
  <2>1. First(k, ok) \in Job
    BY DEF First, Job
  <2> QED
    BY <1>12, <2>1, AccessType DEF TypeOK, Begin, tables, database
<1>13. ASSUME NEW v \in Row, EditDevice(v) PROVE TypeOK'
  BY <1>13, AccessAssumption DEF TypeOK, EditDevice, Witness, database
<1>14. ASSUME NEW v \in Group \cup {None}, EditMapping(v) PROVE TypeOK'
  BY <1>14, AccessAssumption DEF TypeOK, EditMapping, Witness, database
<1>15. CASE DbStops
  <2>1. faults' \in 0 .. MaxFaults
    BY <1>15, AccessAssumption DEF TypeOK, DbStops
  <2>2. state' \in [Conn -> ConnState]
    BY <1>15 DEF DbStops, ConnState
  <2> QED
    BY <1>15, <2>1, <2>2 DEF TypeOK, DbStops, tables, call
<1>16. CASE DbStarts
  BY <1>16 DEF TypeOK, DbStarts, tables, call
<1>17. CASE UNCHANGED vars
  BY <1>17 DEF TypeOK, vars
<1> QED
  BY <1>1, <1>2, <1>3, <1>4, <1>5, <1>6, <1>7, <1>8, <1>9, <1>10, <1>11,
     <1>12, <1>13, <1>14, <1>15, <1>16, <1>17
  DEF Next, Step

-----------------------------------------------------------------------------
(* The calls.                                                              *)

\* What another thread, or none, does leaves a call as it is.
Same(u) ==
  /\ pc'[u] = pc[u] /\ job'[u] = job[u] /\ ref'[u] = ref[u]
  /\ kind'[u] = kind[u] /\ accept'[u] = accept[u] /\ reply'[u] = reply[u]
  /\ failed'[u] = failed[u] /\ pins'[u] = pins[u] /\ maps'[u] = maps[u]

\* A thread that is left alone keeps its part of the invariant.
LEMMA SameLocal ==
  ASSUME NEW u \in Thread, Local(u), Same(u), UNCHANGED tables
  PROVE  Local(u)'
  BY DEF Local, Same, Settled, Unsettled, Prescribed, tables

\* A thread's step leaves the other threads' locals alone.
LEMMA OthersSame ==
  ASSUME TypeOK, NEW t \in Thread, NEW u \in Thread, u # t,
         Step(t) \/ \E k \in Kind, ok \in BOOLEAN : Begin(t, k, ok)
  PROVE  Same(u) /\ UNCHANGED tables
<1>1. ASSUME NEW j, Access(t, j)
      PROVE  pc'[u] = pc[u] /\ job'[u] = job[u] /\ ref'[u] = ref[u]
  BY <1>1 DEF TypeOK, Access, Goto
<1>2. ASSUME Finish(t) PROVE Same(u)
  BY <1>2 DEF TypeOK, Finish, Goto, Same
<1>3. ASSUME Fail(t) PROVE Same(u)
  BY <1>1, <1>2, <1>3 DEF TypeOK, Fail, Same
<1>4. CASE GetDb(t) \/ Connect(t) \/ SetAutocommit(t)
  BY <1>4 DEF TypeOK, GetDb, Connect, SetAutocommit, Goto, Same, tables, call
<1>5. CASE NoDb(t) \/ QueryFails(t)
  BY <1>3, <1>5 DEF NoDb, QueryFails, tables
<1>6. CASE Whitelist(t)
  BY <1>1, <1>6 DEF TypeOK, Whitelist, Ask, Same, tables
<1>7. CASE Override(t)
  BY <1>1, <1>7 DEF TypeOK, Override, Ask, Same, tables
<1>8. CASE BadCast(t) \/ Groups(t)
  BY <1>1, <1>8 DEF BadCast, Groups, Ask, Same, tables, call
<1>9. CASE GroupVlan(t)
  BY <1>1, <1>9 DEF TypeOK, GroupVlan, Ask, Same, tables
<1>10. CASE \E ok \in BOOLEAN : LogAuth(t, ok)
  BY <1>2, <1>10 DEF LogAuth, Ask, tables
<1>11. CASE \E k \in Kind, ok \in BOOLEAN : Begin(t, k, ok)
  BY <1>1, <1>11 DEF TypeOK, Begin, Same, tables
<1> QED
  BY <1>4, <1>5, <1>6, <1>7, <1>8, <1>9, <1>10, <1>11 DEF Step

\* A failed access ends the call or leaves it to the lookups that follow.
LEMMA FailLocal ==
  ASSUME TypeOK, NEW t \in Thread, Local(t), pc[t] # "idle", Fail(t),
         UNCHANGED tables
  PROVE  Local(t)'
<1>1. CASE Finish(t)
  BY <1>1 DEF TypeOK, Finish, Goto, Local
<1>2. CASE job[t] # "log" /\ Access(t, Otherwise(job[t]))
  <2>1. /\ pc'[t] = "get" /\ failed'[t] = TRUE
        /\ job'[t] = IF job[t] = "override" THEN "servers" ELSE "log"
        /\ kind'[t] = kind[t] /\ accept'[t] = accept[t]
        /\ reply'[t] = reply[t] /\ pins'[t] = pins[t] /\ maps'[t] = maps[t]
    BY <1>2 DEF TypeOK, Fail, Finish, Access, Goto, Otherwise
  <2>2. Unsettled(t)
    BY <1>2 DEF Local
  <2>3. CASE job[t] = "override"
    BY <2>1, <2>2, <2>3 DEF Local, Unsettled, MabKind, tables
  <2>4. CASE job[t] = "whitelist"
    BY <2>1, <2>2, <2>4 DEF Local, Unsettled, Settled, tables
  <2>5. CASE job[t] \in {"servers", "mapping"}
    BY <2>1, <2>2, <2>5 DEF Local, Unsettled, Settled, tables
  <2> QED
    BY <1>2, <2>3, <2>4, <2>5 DEF TypeOK, Job
<1> QED
  BY <1>1, <1>2 DEF Fail

\* A thread's own step keeps its part.
LEMMA OwnLocal ==
  ASSUME TypeOK, NEW t \in Thread, Local(t), Step(t)
  PROVE  Local(t)'
<1>0. ASSUME NEW j, Access(t, j)
      PROVE  pc'[t] = "get" /\ job'[t] = j
  BY <1>0 DEF TypeOK, Access, Goto
<1>1. CASE GetDb(t) \/ Connect(t) \/ SetAutocommit(t)
  BY <1>1
  DEF TypeOK, GetDb, Connect, SetAutocommit, Goto, Local, Settled, Unsettled,
      Prescribed, tables, call
<1>2. CASE NoDb(t) \/ QueryFails(t)
  BY <1>2, FailLocal DEF NoDb, QueryFails, tables
<1>3. CASE Whitelist(t)
  <2>1. /\ pc'[t] = "get" /\ job'[t] = "log" /\ UNCHANGED tables
        /\ accept'[t] = (device # NoRow)
        /\ reply'[t] = IF device = NoRow THEN None ELSE device
        /\ kind'[t] = kind[t] /\ pins'[t] = pins[t] /\ maps'[t] = maps[t]
    BY <1>0, <1>3 DEF TypeOK, Whitelist, Ask
  <2>2. kind[t] \in MabKind /\ device \in pins[t] /\ mapping \in maps[t]
    BY <1>3 DEF Local, Unsettled, Whitelist, Ask
  <2> QED
    BY <2>1, <2>2 DEF Local, Settled, Prescribed, tables
<1>4. CASE Override(t)
  <2>1. /\ kind[t] = "user" /\ reply[t] = None /\ accept[t]
        /\ device \in pins[t] /\ mapping \in maps[t]
    BY <1>4 DEF Local, Unsettled, Override, Ask, Cast, Odd
  <2>2. /\ pc'[t] = "get" /\ UNCHANGED tables
        /\ kind'[t] = "user" /\ accept'[t] = accept[t]
        /\ pins'[t] = pins[t] /\ maps'[t] = maps[t]
    BY <1>0, <1>4, <2>1 DEF TypeOK, Override, Ask
  <2>3. CASE job'[t] = "log" /\ device \in Pin /\ reply'[t] = device
    BY <2>1, <2>2, <2>3 DEF Local, Settled, Prescribed, MabKind, tables
  <2>4. CASE job'[t] = "servers" /\ device \notin Pin /\ reply'[t] = reply[t]
    BY <2>1, <2>2, <2>4 DEF Local, Unsettled, MabKind, tables
  <2> QED
    BY <1>0, <1>4, <2>3, <2>4 DEF TypeOK, Override
<1>5. CASE BadCast(t)
  <2>1. /\ pc'[t] = "get" /\ UNCHANGED <<tables, call>>
        /\ job'[t] = Otherwise(job[t])
        /\ job[t] \in {"whitelist", "override"} /\ kind[t] \in Odd
        /\ pc[t] # "idle"
    BY <1>0, <1>5 DEF BadCast, Ask, Cast
  <2>2. Unsettled(t) /\ device \in pins[t] /\ mapping \in maps[t]
    BY <2>1 DEF Local
  <2>3. kind[t] # "user"
    BY <2>1 DEF Odd
  <2> QED
    BY <2>1, <2>2, <2>3
    DEF Local, Unsettled, Settled, Otherwise, tables, call
<1>6. CASE Groups(t)
  <2>1. /\ pc'[t] = "get" /\ UNCHANGED <<tables, call>>
        /\ job'[t] \in {"mapping", "log"} /\ job[t] = "servers"
        /\ pc[t] # "idle"
    BY <1>0, <1>6 DEF Groups, Ask
  <2>2. Unsettled(t) /\ device \in pins[t] /\ mapping \in maps[t]
    BY <2>1 DEF Local
  <2> QED
    BY <2>1, <2>2 DEF Local, Unsettled, Settled, Prescribed, tables, call
<1>7. CASE GroupVlan(t)
  <2>1. /\ pc'[t] = "get" /\ UNCHANGED tables /\ job'[t] = "log"
        /\ job[t] = "mapping" /\ pc[t] # "idle" /\ reply'[t] = mapping
        /\ kind'[t] = kind[t] /\ accept'[t] = accept[t]
        /\ failed'[t] = failed[t]
        /\ pins'[t] = pins[t] /\ maps'[t] = maps[t]
    BY <1>0, <1>7 DEF TypeOK, GroupVlan, Ask
  <2>2. Unsettled(t) /\ device \in pins[t] /\ mapping \in maps[t]
    BY <2>1 DEF Local
  <2> QED
    BY <2>1, <2>2 DEF Local, Unsettled, Settled, Prescribed, tables
<1>8. CASE \E ok \in BOOLEAN : LogAuth(t, ok)
  BY <1>8 DEF TypeOK, LogAuth, Finish, Goto, Local
<1> QED
  BY <1>1, <1>2, <1>3, <1>4, <1>5, <1>6, <1>7, <1>8 DEF Step

\* So does the beginning of a call.
LEMMA BeginLocal ==
  ASSUME TypeOK, NEW t \in Thread, Local(t),
         NEW k \in Kind, NEW ok \in BOOLEAN, Begin(t, k, ok)
  PROVE  Local(t)'
<1>1. /\ pc'[t] = "get" /\ job'[t] = First(k, ok) /\ UNCHANGED tables
      /\ kind'[t] = k /\ accept'[t] = ok /\ reply'[t] = None
      /\ pins'[t] = {device} /\ maps'[t] = {mapping}
      /\ k \in MabKind => ~ok
  BY DEF TypeOK, Begin, Access, Goto, Local
<1> QED
  BY <1>1 DEF Local, Settled, Unsettled, First, Kind, MabKind, tables

\* An edit only adds to what the calls under way have witnessed, and what was
\* prescribed stays so.
LEMMA EditLocal ==
  ASSUME TypeOK, NEW t \in Thread, Local(t),
         \/ \E v \in Row : EditDevice(v)
         \/ \E v \in Group \cup {None} : EditMapping(v)
  PROVE  Local(t)'
<1>1. /\ pc' = pc /\ job' = job /\ ref' = ref /\ kind' = kind
      /\ accept' = accept /\ reply' = reply /\ failed' = failed
  BY DEF EditDevice, EditMapping
<1>2. pc[t] # "idle" => /\ pins'[t] = pins[t] \cup {device'}
                        /\ maps'[t] = maps[t] \cup {mapping'}
  BY DEF TypeOK, Local, EditDevice, EditMapping, Witness
<1>3. pc[t] # "idle" =>
        \A x : x \in Prescribed(t) => x \in Prescribed(t)'
  BY <1>1, <1>2 DEF Prescribed
<1>4. Settled(t) /\ pc[t] # "idle" => Settled(t)'
  BY <1>1, <1>2, <1>3 DEF Settled
<1>5. Unsettled(t) /\ pc[t] # "idle" => Unsettled(t)'
  BY <1>1, <1>2 DEF Unsettled
<1> QED
  BY <1>1, <1>2, <1>4, <1>5 DEF Local

\* Every step keeps every thread's part.
LEMMA LocalStep == IInv /\ [Next]_vars => \A u \in Thread : Local(u)'
<1> SUFFICES ASSUME IInv, [Next]_vars, NEW u \in Thread PROVE Local(u)'
  OBVIOUS
<1> USE DEF IInv
<1>1. ASSUME NEW t \in Thread, Step(t) PROVE Local(u)'
  BY <1>1, OwnLocal, OthersSame, SameLocal
<1>2. ASSUME NEW t \in Thread, NEW k \in Kind, NEW ok \in BOOLEAN,
             Begin(t, k, ok)
      PROVE  Local(u)'
  BY <1>2, BeginLocal, OthersSame, SameLocal
<1>3. CASE \/ \E v \in Row : EditDevice(v)
           \/ \E v \in Group \cup {None} : EditMapping(v)
  BY <1>3, EditLocal
<1>4. CASE DbStops \/ DbStarts \/ UNCHANGED vars
  <2>1. Same(u) /\ UNCHANGED tables
    BY <1>4 DEF DbStops, DbStarts, vars, Same, tables, call
  <2> QED
    BY <2>1, SameLocal
<1> QED
  BY <1>1, <1>2, <1>3, <1>4 DEF Next

-----------------------------------------------------------------------------
(* The theorems.                                                           *)

\* The invariant behind the theorems.
LEMMA InvInvariant == Spec => []IInv
<1>1. IInv /\ [Next]_vars => IInv'
  BY TypeStep, LocalStep DEF IInv
<1> QED
  BY InvInit, <1>1, PTL DEF Spec

\* Every variable of rlm_orw.py's calls and of their shared connection keeps
\* its type; in particular an Access-Accept never carries a VLAN that is none.
THEOREM TypeCorrect == Spec => []TypeOK
<1>1. IInv => TypeOK
  BY DEF IInv
<1> QED
  BY <1>1, InvInvariant, PTL

\* post_auth's precedence holds for any number of threads that share
\* _db_conn, however they meet on it, and through any number of outages and
\* edits: an accepted client gets a VLAN that the tables prescribed during its
\* call, except a user one of whose own lookups failed.
THEOREM PrecedenceCorrect == Spec => []Precedence
<1>1. IInv => Precedence
  BY DEF IInv, Local, Settled, Precedence, Decided
<1> QED
  BY <1>1, InvInvariant, PTL

-----------------------------------------------------------------------------
(* The pure functions: truth, texts and numbers of Python values.            *)

\* A set of natural numbers that is not empty has a least one.
LEMMA Least ==
  ASSUME NEW T \in SUBSET Nat, T # {}
  PROVE  \E x \in T : \A y \in T : x <= y
<1> DEFINE R == {ss \in Nat \X Nat : ss[1] < ss[2]}
<1>1. IsWellFoundedOn(R, Nat)
  BY NatLessThanWellFounded DEF OpToRel
<1>2. PICK x \in T : \A y \in T : <<y, x>> \notin R
  <2> HIDE DEF R
  <2> QED BY <1>1, WFMin
<1>3. \A y \in T : y \in Nat /\ (y < x => <<y, x>> \in R)
  OBVIOUS
<1> HIDE DEF R
<1>4. x \in Nat
  OBVIOUS
<1>5. \A y \in T : y \in Nat /\ ~(y < x)
  BY <1>2, <1>3, Zenon
<1>6. \A y \in T : x <= y
  BY <1>4, <1>5
<1> QED BY <1>6

\* One that is bounded has a greatest one.
LEMMA Greatest ==
  ASSUME NEW n \in Nat, NEW T \in SUBSET (0 .. n), T # {}
  PROVE  \E x \in T : \A y \in T : y <= x
<1> DEFINE U == {d \in 0 .. n : n - d \in T}
<1>1. U \in SUBSET Nat /\ U # {}
  <2>1. PICK y \in T : TRUE
    OBVIOUS
  <2>2. y \in 0 .. n /\ n - y \in 0 .. n /\ n - (n - y) = y
    OBVIOUS
  <2>3. n - y \in U
    BY <2>2
  <2>4. U \in SUBSET Nat
    OBVIOUS
  <2> HIDE DEF U
  <2> QED BY <2>3, <2>4
<1>2. PICK d \in U : \A e \in U : d <= e
  BY <1>1, Least
<1>3. \A y \in T : n - y \in U
  OBVIOUS
<1> QED BY <1>2, <1>3

\* No text is both a yes and a no.
LEMMA YesNo == Yes \cap No = {}
BY DEF Yes, No

\* The two copies normalise alike.
LEMMA SameNormalize == \A v : SimNormalize(v) = Normalize(v)
<1> TAKE v
<1>1. CASE ~IsA("text", v)
  BY <1>1 DEF SimNormalize, Normalize
<1>2. CASE IsA("text", v)
  <2> DEFINE w == Strip(Lower(v[2]))
  <2>1. SimNormalize(v) = IF w \in Yes \cup No THEN Bool(w \in Yes) ELSE Text(w)
    BY <1>2 DEF SimNormalize
  <2>2. Normalize(v) = CASE w \in Yes -> Bool(TRUE) [] w \in No -> Bool(FALSE) [] OTHER -> Text(w)
    BY <1>2 DEF Normalize
  <2> HIDE DEF w
  <2>3. CASE w \in Yes
    BY <2>1, <2>2, <2>3, YesNo DEF Bool
  <2>4. CASE w \in No
    <3>1. (w \in Yes) = FALSE
      BY <2>4, YesNo
    <3>2. SimNormalize(v) = Bool(FALSE)
      BY <2>1, <2>4, <3>1, Zenon
    <3> QED BY <2>2, <2>4, <3>1, <3>2
  <2>5. CASE w \notin Yes \cup No
    BY <2>1, <2>2, <2>5
  <2> QED BY <2>3, <2>4, <2>5
<1> QED BY <1>1, <1>2

\* A value, or what a list holds.
Datum == Value \cup Item

\* What each type holds.
LEMMA Kinds ==
  ASSUME NEW v \in Datum
  PROVE  /\ v[1] \in {"none", "bool", "num", "text", "list"}
         /\ v[1] = "none" => v = Null
         /\ v[1] = "bool" => v = <<"bool", v[2]>> /\ v[2] \in BOOLEAN
         /\ v[1] = "num"  => v = <<"num", v[2]>> /\ v[2] \in Int
         /\ v[1] = "text" => v = <<"text", v[2]>> /\ v[2] \in Seq(Token)
         /\ v[1] = "list" => v = <<"list", v[2]>> /\ (v[2] \in Seq(Item) \/ v[2] \in Seq(Nested))
BY DEF Datum, Value, Item, Atom, Null

\* Without its blanks, lower case is lower case still.
LEMMA StripLower ==
  ASSUME NEW w \in Seq(Token)
  PROVE  Lower(Strip(Lower(w))) = Strip(Lower(w))
<1> DEFINE l == Lower(w)
           kept == {i \in DOMAIN l : l[i] # Blank}
           m == CHOOSE i \in kept : \A j \in kept : i <= j
           n == CHOOSE i \in kept : \A j \in kept : j <= i
<1>1. DOMAIN l = 1 .. Len(w) /\ \A i \in DOMAIN l : l[i] \notin DOMAIN Fold
  BY FoldAssumption DEF Lower
<1>2. CASE kept = {}
  <2>1. Strip(l) = <<>>
    BY <1>2 DEF Strip
  <2>2. Lower(<<>>) = <<>>
    BY DEF Lower
  <2> QED BY <2>1, <2>2
<1>3. CASE kept # {}
  <2>0. kept \in SUBSET (0 .. Len(w)) /\ Len(w) \in Nat
    BY <1>1
  <2>1. Strip(l) = SubSeq(l, m, n)
    BY <1>3 DEF Strip
  <2>2. m \in kept /\ n \in kept
    <3> HIDE DEF kept
    <3>1. \E i \in kept : \A j \in kept : i <= j
      <4>1. kept \in SUBSET Nat
        BY <2>0
      <4> QED BY <4>1, <1>3, Least
    <3>2. \E i \in kept : \A j \in kept : j <= i
      BY <1>3, <2>0, Greatest
    <3> QED BY <3>1, <3>2
  <2> HIDE DEF m, n, l
  <2>3. SubSeq(l, m, n) = [i \in 1 .. n - m + 1 |-> l[i + m - 1]]
    BY <2>2, <2>0
  <2>4. \A i \in 1 .. n - m + 1 : l[i + m - 1] \notin DOMAIN Fold
    BY <1>1, <2>2, <2>0
  <2>5. Lower(SubSeq(l, m, n)) = SubSeq(l, m, n)
    BY <2>3, <2>4 DEF Lower
  <2> QED BY <2>5, <2>1 DEF l
<1> QED BY <1>2, <1>3

\* A text that has been normalized is one that Lower leaves as it is, or a bool.
LEMMA Normalized ==
  ASSUME NEW v \in Datum
  PROVE  /\ Normalize(v)[1] \in {"none", "bool", "num", "text", "list"}
         /\ (Normalize(v)[1] = "none") <=> (Normalize(v) = Null)
         /\ (Normalize(v)[1] = "text") => /\ Normalize(v) = Text(Normalize(v)[2])
                                          /\ Lower(Normalize(v)[2]) = Normalize(v)[2]
<1>1. CASE IsA("text", v)
  <2> DEFINE w == Strip(Lower(v[2]))
  <2>1. Lower(w) = w
    BY <1>1, Kinds, StripLower DEF IsA
  <2>2. Normalize(v) = CASE w \in Yes -> Bool(TRUE) [] w \in No -> Bool(FALSE) [] OTHER -> Text(w)
    BY <1>1 DEF Normalize
  <2> HIDE DEF w
  <2>3. CASE w \in Yes \cup No
    <3>1. Normalize(v) = Bool(TRUE) \/ Normalize(v) = Bool(FALSE)
      BY <2>2, <2>3
    <3>2. \A b : Bool(b)[1] = "bool" /\ Bool(b) # Null
      BY DEF Bool, Null
    <3>3. Normalize(v)[1] = "bool" /\ Normalize(v) # Null
      BY <3>1, <3>2, Zenon
    <3> QED BY <3>3
  <2>4. CASE w \notin Yes \cup No
    <3>0. Normalize(v) = Text(w)
      BY <2>2, <2>4
    <3>1. Normalize(v)[1] = "text" /\ Normalize(v)[2] = w /\ Normalize(v) # Null
      BY <3>0 DEF Null, Text
    <3> QED BY <3>0, <3>1, <2>1
  <2> QED BY <2>3, <2>4
<1>2. CASE ~IsA("text", v)
  BY <1>2, Kinds DEF Normalize, IsA, Null
<1> QED BY <1>1, <1>2

\* So that both copies find normalized values equal alike.
LEMMA SameEquals ==
  ASSUME NEW u \in Datum, NEW v \in Datum
  PROVE  SimEquals(Normalize(u), Normalize(v)) <=> Equals(Normalize(u), Normalize(v))
<1> SUFFICES ASSUME NEW a, NEW b,
                    (a[1] = "none") <=> (a = Null),
                    (b[1] = "none") <=> (b = Null),
                    (a[1] = "text") => a = Text(a[2]) /\ Lower(a[2]) = a[2],
                    (b[1] = "text") => b = Text(b[2]) /\ Lower(b[2]) = b[2]
             PROVE  SimEquals(a, b) <=> Equals(a, b)
  <2>1. /\ (Normalize(u)[1] = "none") <=> (Normalize(u) = Null)
        /\ (Normalize(u)[1] = "text") => /\ Normalize(u) = Text(Normalize(u)[2])
                                         /\ Lower(Normalize(u)[2]) = Normalize(u)[2]
    BY Normalized
  <2>2. /\ (Normalize(v)[1] = "none") <=> (Normalize(v) = Null)
        /\ (Normalize(v)[1] = "text") => /\ Normalize(v) = Text(Normalize(v)[2])
                                         /\ Lower(Normalize(v)[2]) = Normalize(v)[2]
    BY Normalized
  <2> DEFINE m == Normalize(u)
             n == Normalize(v)
  <2>3. /\ (m[1] = "none") <=> (m = Null)
        /\ (n[1] = "none") <=> (n = Null)
        /\ (m[1] = "text") => m = Text(m[2]) /\ Lower(m[2]) = m[2]
        /\ (n[1] = "text") => n = Text(n[2]) /\ Lower(n[2]) = n[2]
    BY <2>1, <2>2
  <2>4. SimEquals(Normalize(u), Normalize(v)) = SimEquals(m, n) /\ Equals(Normalize(u), Normalize(v)) = Equals(m, n)
    OBVIOUS
  <2> HIDE DEF m, n
  <2> QED BY <2>3, <2>4
<1>2. CASE Null \in {a, b}
  BY <1>2 DEF SimEquals, Equals, IsA, Null
<1>3. CASE Null \notin {a, b} /\ "bool" \in {a[1], b[1]}
  <2>1. Equals(a, b) <=> (Truthy(a) = Truthy(b))
    BY <1>3 DEF Equals
  <2>2. SimEquals(a, b) <=> (Truthy(a) = Truthy(b))
    BY <1>3 DEF SimEquals, IsA
  <2> QED BY <2>1, <2>2
<1>4. CASE Null \notin {a, b} /\ "bool" \notin {a[1], b[1]}
  <2>1. Equals(a, b) <=> PyEqual(a, b)
    BY <1>4 DEF Equals
  <2>2. CASE a[1] = "text" /\ b[1] = "text"
    <3>1. PyEqual(a, b) <=> a = b
      BY <2>2 DEF PyEqual, IsA
    <3>2. a = b <=> Lower(a[2]) = Lower(b[2])
      BY <2>2
    <3> QED BY <1>4, <2>1, <2>2, <3>1, <3>2 DEF SimEquals, IsA
  <2>3. CASE ~(a[1] = "text" /\ b[1] = "text")
    BY <1>4, <2>1, <2>3 DEF SimEquals, IsA
  <2> QED BY <2>2, <2>3
<1> QED BY <1>2, <1>3, <1>4

\* What float() reads, and not as nan, is a number.
LEMMA Numbers ==
  ASSUME NEW v \in Datum, IsOrdered(v)
  PROVE  NumberOf(v) \in Int
<1>1. CASE ~Truthy(v)
  <2>1. NumberOf(v) = 0
    BY <1>1 DEF NumberOf
  <2> QED BY <2>1
<1>2. CASE Truthy(v) /\ IsA("bool", v)
  <2>1. ~IsA("num", v)
    BY <1>2 DEF IsA
  <2>2. NumberOf(v) = 1
    BY <1>2, <2>1 DEF NumberOf
  <2> QED BY <2>2
<1>3. CASE Truthy(v) /\ IsA("num", v)
  <2>1. ~IsA("bool", v)
    BY <1>3 DEF IsA
  <2>2. NumberOf(v) = v[2]
    BY <1>3, <2>1 DEF NumberOf
  <2>3. v[2] \in Int
    BY <1>3, Kinds DEF IsA
  <2> QED BY <2>2, <2>3
<1>4. CASE Truthy(v) /\ ~IsA("bool", v) /\ ~IsA("num", v)
  <2>1. PICK t \in DOMAIN Numeral : Strip(v[2]) = <<t>>
    BY <1>4 DEF IsOrdered, IsNumber, IsNan, IsA
  <2>2. NumberOf(v) = Numeral[Strip(v[2])[1]]
    BY <1>4 DEF NumberOf
  <2>3. Strip(v[2])[1] = t
    BY <2>1
  <2> QED BY <2>1, <2>2, <2>3, NumeralAssumption
<1> QED BY <1>1, <1>2, <1>3, <1>4

\* The elements of a list.
LEMMA ElementsData ==
  ASSUME NEW v \in Value, IsA("list", v)
  PROVE  /\ v[2] \in Seq(Item)
         /\ DOMAIN v[2] = 1 .. Len(v[2])
         /\ Elements(v) \subseteq Datum
<1>1. v[2] \in Seq(Item)
  BY DEF Value, Atom, IsA, Null
<1>2. DOMAIN v[2] = 1 .. Len(v[2]) /\ \A i \in DOMAIN v[2] : v[2][i] \in Item
  BY <1>1
<1> QED BY <1>1, <1>2 DEF Elements, Datum

\* What has no truth is one of these.
LEMMA Bounds ==
  ASSUME NEW v \in Datum, IsOrdered(v)
  PROVE  IsBound(v) <=> v \notin {Null, Text(<<>>), <<"list", <<>>>>}
<1>1. CASE v[1] \in {"num", "bool"}
  <2>1. v \notin {Null, Text(<<>>), <<"list", <<>>>>}
    BY <1>1 DEF Null, Text
  <2>2. IsBound(v)
    BY <1>1 DEF IsBound
  <2> QED BY <2>1, <2>2
<1>2. CASE v[1] = "none"
  <2>1. v = Null /\ ~Truthy(v)
    BY <1>2, Kinds DEF Truthy, IsA
  <2> QED BY <2>1, <1>2 DEF IsBound
<1>3. CASE v[1] \in {"text", "list"}
  <2>1. Truthy(v) <=> v[2] # <<>>
    BY <1>3 DEF Truthy, IsA
  <2>2. v = <<v[1], v[2]>> /\ v # Null
    BY <1>3, Kinds DEF Null
  <2>3. v[2] = <<>> <=> v \in {Text(<<>>), <<"list", <<>>>>}
    BY <1>3, <2>2 DEF Text
  <2> QED BY <2>1, <2>2, <2>3, <1>3 DEF IsBound
<1> QED BY <1>1, <1>2, <1>3, Kinds

-----------------------------------------------------------------------------
(* The two copies of the comparisons.                                        *)

\* The operators that negate another.
LEMMA Opposites ==
  /\ DOMAIN Opposite = {"not_equals", "not_in", "not_contains", "not_exists", "is_not_empty"}
  /\ Opposite["not_equals"] = "equals" /\ Opposite["not_in"] = "in"
  /\ Opposite["not_contains"] = "contains" /\ Opposite["not_exists"] = "exists"
  /\ Opposite["is_not_empty"] = "is_empty"
BY DEF Opposite

\* Whether a value is among normalized elements.
LEMMA SameListed ==
  ASSUME NEW x, NEW v
  PROVE  (\E y \in {SimNormalize(z) : z \in Elements(v)} : PyEqual(x, y)) <=> Listed(x, v)
<1>1. {SimNormalize(z) : z \in Elements(v)} = {Normalize(z) : z \in Elements(v)}
  BY SameNormalize
<1> QED BY <1>1, Zenon DEF Listed

\* Normalizing makes no list and takes none away.
LEMMA SameHashable ==
  ASSUME NEW v
  PROVE  (\A x \in {SimNormalize(z) : z \in Elements(v)} : ~IsA("list", x)) <=> Hashable(v)
<1>1. \A z : SimNormalize(z) = Normalize(z)
  BY SameNormalize
<1>2. \A z : IsA("list", Normalize(z)) <=> IsA("list", z)
  <2> TAKE z
  <2>1. CASE IsA("text", z)
    <3> DEFINE w == Strip(Lower(z[2]))
    <3>1. Normalize(z) = CASE w \in Yes -> Bool(TRUE) [] w \in No -> Bool(FALSE) [] OTHER -> Text(w)
      BY <2>1 DEF Normalize
    <3> HIDE DEF w
    <3>2. Normalize(z) = Bool(TRUE) \/ Normalize(z) = Bool(FALSE) \/ Normalize(z) = Text(w)
      BY <3>1
    <3>3. (\A b : ~IsA("list", Bool(b))) /\ ~IsA("list", Text(w))
      BY DEF Bool, Text, IsA
    <3>4. ~IsA("list", Normalize(z))
      BY <3>2, <3>3, Zenon
    <3> QED BY <2>1, <3>4 DEF IsA
  <2>2. CASE ~IsA("text", z)
    BY <2>2 DEF Normalize
  <2> QED BY <2>1, <2>2
<1> QED BY <1>1, <1>2 DEF Hashable

\* The text operators, in the words of the copy.
LEMMA SameText ==
  ASSUME NEW a, NEW e
  PROVE  /\ TextMatch("contains", a, e) <=> Within(Lower(Str(SimNormalize(e))), Lower(Str(a)))
         /\ TextMatch("starts_with", a, e) <=> StartsWith(Lower(Str(a)), Lower(Str(SimNormalize(e))))
         /\ TextMatch("ends_with", a, e) <=> EndsWith(Lower(Str(a)), Lower(Str(SimNormalize(e))))
         /\ TextMatch("matches_oui", a, e) <=> (Oui(Lower(Str(a))) = Oui(Lower(Str(SimNormalize(e)))))
<1>1. SimNormalize(e) = Normalize(e)
  BY SameNormalize
<1>3. TextMatch("contains", a, e) <=> Within(Lower(Str(SimNormalize(e))), Lower(Str(a)))
  BY <1>1 DEF TextMatch
<1>4. TextMatch("starts_with", a, e) <=> StartsWith(Lower(Str(a)), Lower(Str(SimNormalize(e))))
  BY <1>1 DEF TextMatch
<1>5. TextMatch("ends_with", a, e) <=> EndsWith(Lower(Str(a)), Lower(Str(SimNormalize(e))))
  BY <1>1 DEF TextMatch
<1>6. TextMatch("matches_oui", a, e) <=> (Oui(Lower(Str(a))) = Oui(Lower(Str(SimNormalize(e)))))
  BY <1>1 DEF TextMatch
<1> QED BY <1>3, <1>4, <1>5, <1>6

\* What the copy finds is what the engine matches.
LEMMA SameFinds ==
  ASSUME NEW a \in Value, NEW e \in Value
  PROVE  /\ SimFinds(a, "equals", e) <=> Matches(a, "equals", e)
         /\ SimFinds(a, "in", e) <=> Matches(a, "in", e)
         /\ SimFinds(a, "contains", e) <=> Matches(a, "contains", e)
         /\ SimFinds(a, "starts_with", e) <=> Matches(a, "starts_with", e)
         /\ SimFinds(a, "ends_with", e) <=> Matches(a, "ends_with", e)
         /\ SimFinds(a, "is_empty", e) <=> Matches(a, "is_empty", e)
         /\ SimFinds(a, "exists", e) <=> Matches(a, "exists", e)
         /\ SimFinds(a, "is_member_of", e) <=> Matches(a, "is_member_of", e)
         /\ SimFinds(a, "matches_oui", e) <=> Matches(a, "matches_oui", e)
         /\ SimFinds(a, "regex", e) <=> (Matches(a, "regex", e) /\ ~BadPattern(e))
<1>0. a \in Datum /\ e \in Datum
  BY DEF Datum
<1>1. SimNormalize(a) = Normalize(a) /\ SimNormalize(e) = Normalize(e)
  BY SameNormalize
<1>2. SimFinds(a, "equals", e) <=> Matches(a, "equals", e)
  <2>1. SimFinds(a, "equals", e) <=> SimEquals(SimNormalize(a), SimNormalize(e))
    BY DEF SimFinds
  <2>2. Matches(a, "equals", e) <=> Equals(Normalize(a), Normalize(e))
    BY DEF Matches
  <2> QED BY <2>1, <2>2, <1>0, <1>1, SameEquals, Zenon
<1>3. SimFinds(a, "in", e) <=> Matches(a, "in", e)
  <2>1. SimFinds(a, "in", e) <=>
          \/ IsA("list", e) /\ \E y \in {SimNormalize(x) : x \in Elements(e)} : PyEqual(SimNormalize(a), y)
          \/ ~IsA("list", e) /\ Truthy(SimNormalize(a)) /\ Within(Str(SimNormalize(a)), Str(SimNormalize(e)))
    BY DEF SimFinds
  <2>2. Matches(a, "in", e) <=> In(a, e)
    BY DEF Matches
  <2> QED BY <2>1, <2>2, <1>1, SameListed, Zenon DEF In
<1>4. SimFinds(a, "contains", e) <=> Matches(a, "contains", e)
  <2>1. SimFinds(a, "contains", e) <=> Truthy(a) /\ Within(Lower(Str(SimNormalize(e))), Lower(Str(a)))
    BY DEF SimFinds
  <2>2. Matches(a, "contains", e) <=> Truthy(a) /\ TextMatch("contains", a, e)
    BY DEF Matches
  <2> QED BY <2>1, <2>2, SameText, Zenon
<1>5. SimFinds(a, "starts_with", e) <=> Matches(a, "starts_with", e)
  <2>1. SimFinds(a, "starts_with", e) <=> Truthy(a) /\ StartsWith(Lower(Str(a)), Lower(Str(SimNormalize(e))))
    BY DEF SimFinds
  <2>2. Matches(a, "starts_with", e) <=> Truthy(a) /\ TextMatch("starts_with", a, e)
    BY DEF Matches
  <2> QED BY <2>1, <2>2, SameText, Zenon
<1>6. SimFinds(a, "ends_with", e) <=> Matches(a, "ends_with", e)
  <2>1. SimFinds(a, "ends_with", e) <=> Truthy(a) /\ EndsWith(Lower(Str(a)), Lower(Str(SimNormalize(e))))
    BY DEF SimFinds
  <2>2. Matches(a, "ends_with", e) <=> Truthy(a) /\ TextMatch("ends_with", a, e)
    BY DEF Matches
  <2> QED BY <2>1, <2>2, SameText, Zenon
<1>7. SimFinds(a, "is_empty", e) <=> Matches(a, "is_empty", e)
  BY DEF SimFinds, Matches, Empty
<1>8. SimFinds(a, "exists", e) <=> Matches(a, "exists", e)
  BY DEF SimFinds, Matches
<1>9. SimFinds(a, "is_member_of", e) <=> Matches(a, "is_member_of", e)
  <2> DEFINE S(v) == {SimNormalize(x) : x \in Elements(v)}
             meets(x, v) == \E y \in S(v) : PyEqual(x, y)
  <2>1. SimFinds(a, "is_member_of", e) <=>
          /\ IsA("list", a)
          /\ IF IsA("list", e)
             THEN /\ \A x \in S(a) \cup S(e) : ~IsA("list", x)
                  /\ \E x \in S(a) : meets(x, e)
             ELSE meets(SimNormalize(e), a)
    BY DEF SimFinds
  <2>2. Matches(a, "is_member_of", e) <=> Member(a, e)
    BY DEF Matches
  <2>3. \A x, v : meets(x, v) <=> Listed(x, v)
    BY SameListed
  <2>4. (\A x \in S(a) : ~IsA("list", x)) <=> Hashable(a)
    BY SameHashable
  <2>5. (\A x \in S(e) : ~IsA("list", x)) <=> Hashable(e)
    BY SameHashable
  <2>6. S(a) = {Normalize(x) : x \in Elements(a)}
    BY SameNormalize
  <2> HIDE DEF meets
  <2>7. (\E x \in S(a) : meets(x, e)) <=> \E x \in Elements(a) : Listed(Normalize(x), e)
    BY <2>3, <2>6
  <2> HIDE DEF S
  <2>8. (\A x \in S(a) \cup S(e) : ~IsA("list", x)) <=> Hashable(a) /\ Hashable(e)
    BY <2>4, <2>5
  <2> QED BY <2>1, <2>2, <2>3, <2>7, <2>8, <1>1, Zenon DEF Member
<1>10. SimFinds(a, "matches_oui", e) <=> Matches(a, "matches_oui", e)
  <2>1. SimFinds(a, "matches_oui", e) <=>
          Truthy(a) /\ Truthy(SimNormalize(e)) /\ Oui(Lower(Str(a))) = Oui(Lower(Str(SimNormalize(e))))
    BY DEF SimFinds
  <2>2. Matches(a, "matches_oui", e) <=> Truthy(a) /\ Truthy(Normalize(e)) /\ TextMatch("matches_oui", a, e)
    BY DEF Matches
  <2> QED BY <2>1, <2>2, <1>1, SameText, Zenon
<1>11. SimFinds(a, "regex", e) <=> (Matches(a, "regex", e) /\ ~BadPattern(e))
  BY DEF SimFinds, Matches
<1> QED BY <1>2, <1>3, <1>4, <1>5, <1>6, <1>7, <1>8, <1>9, <1>10, <1>11

\* And so are the numbers it orders.
LEMMA SameOrders ==
  ASSUME NEW a \in Value, NEW e \in Value
  PROVE  /\ \A op \in {"gt", "gte", "lt", "lte", "between"} : SimOrders(a, op, e) <=> Matches(a, op, e)
         /\ \A op \in Ops \ {"gt", "gte", "lt", "lte", "between"} : ~SimOrders(a, op, e)
<1>0. a \in Datum /\ e \in Datum
  BY DEF Datum
<1>1. ASSUME NEW op \in {"gt", "gte", "lt", "lte"}
      PROVE  SimOrders(a, op, e) <=> Matches(a, op, e)
  <2>1. Matches(a, op, e) <=> IsOrdered(a) /\ IsOrdered(e) /\ NumberMatch(op, NumberOf(a), NumberOf(e))
    BY DEF Matches
  <2>2. CASE IsOrdered(a) /\ IsOrdered(e)
    <3>1. NumberOf(a) \in Int /\ NumberOf(e) \in Int
      BY <2>2, <1>0, Numbers
    <3> DEFINE x == NumberOf(a)
               y == NumberOf(e)
    <3>2. SimOrders(a, op, e) <=> \/ op = "gt" /\ x - y > 0
                                  \/ op = "gte" /\ x - y >= 0
                                  \/ op = "lt" /\ x - y < 0
                                  \/ op = "lte" /\ x - y <= 0
      BY <2>2 DEF SimOrders
    <3>3. Matches(a, op, e) <=> NumberMatch(op, x, y)
      BY <2>1, <2>2
    <3> HIDE DEF x, y
    <3>4. \A m, n \in Int : /\ m - n > 0 <=> m > n
                            /\ m - n >= 0 <=> m >= n
                            /\ m - n < 0 <=> m < n
                            /\ m - n <= 0 <=> m <= n
      OBVIOUS
    <3>5. x \in Int /\ y \in Int
      BY <3>1 DEF x, y
    <3>6. /\ x - y > 0 <=> x > y
          /\ x - y >= 0 <=> x >= y
          /\ x - y < 0 <=> x < y
          /\ x - y <= 0 <=> x <= y
      BY <3>4, <3>5
    <3>7. CASE op = "gt"
      BY <3>2, <3>3, <3>6, <3>7 DEF NumberMatch
    <3>8. CASE op = "gte"
      BY <3>2, <3>3, <3>6, <3>8 DEF NumberMatch
    <3>9. CASE op = "lt"
      BY <3>2, <3>3, <3>6, <3>9 DEF NumberMatch
    <3>10. CASE op = "lte"
      BY <3>2, <3>3, <3>6, <3>10 DEF NumberMatch
    <3> QED BY <3>7, <3>8, <3>9, <3>10
  <2>3. CASE ~(IsOrdered(a) /\ IsOrdered(e))
    BY <2>1, <2>3 DEF SimOrders
  <2> QED BY <2>2, <2>3
<1>2. SimOrders(a, "between", e) <=> Matches(a, "between", e)
  <2>1. Matches(a, "between", e) <=> Between(a, e)
    BY DEF Matches
  <2>2. SimOrders(a, "between", e) <=>
          /\ IsA("list", e) /\ Len(e[2]) = 2 /\ IsOrdered(a)
          /\ \A x \in Elements(e) : IsOrdered(x) /\ x \notin {Null, Text(<<>>), <<"list", <<>>>>}
          /\ NumberOf(a) \in NumberOf(e[2][1]) .. NumberOf(e[2][2])
    BY DEF SimOrders
  <2>3. CASE IsA("list", e) /\ Len(e[2]) = 2 /\ IsOrdered(a)
    <3>1. \A x \in Elements(e) : IsBound(x) <=> IsOrdered(x) /\ x \notin {Null, Text(<<>>), <<"list", <<>>>>}
      <4>1. \A x \in Elements(e) : x \in Datum
        BY <2>3, ElementsData
      <4>2. \A x : IsBound(x) => IsOrdered(x)
        BY DEF IsBound
      <4> QED BY <4>1, <4>2, Bounds
    <3>2. CASE \A x \in Elements(e) : IsBound(x)
      <4>1. e[2][1] \in Elements(e) /\ e[2][2] \in Elements(e)
        BY <2>3, ElementsData DEF Elements
      <4>2. NumberOf(e[2][1]) \in Int /\ NumberOf(e[2][2]) \in Int /\ NumberOf(a) \in Int
        <5>1. \A x \in Elements(e) : x \in Datum /\ IsOrdered(x)
          BY <2>3, <3>2, ElementsData DEF IsBound
        <5> QED BY <5>1, <4>1, <2>3, <1>0, Numbers
      <4>3. NumberOf(a) \in NumberOf(e[2][1]) .. NumberOf(e[2][2]) <=>
              NumberOf(e[2][1]) <= NumberOf(a) /\ NumberOf(a) <= NumberOf(e[2][2])
        BY <4>2
      <4> QED BY <2>1, <2>2, <2>3, <3>1, <3>2, <4>3, Zenon DEF Between
    <3>3. CASE ~\A x \in Elements(e) : IsBound(x)
      BY <2>1, <2>2, <2>3, <3>1, <3>3, Zenon DEF Between
    <3> QED BY <3>2, <3>3
  <2>4. CASE ~(IsA("list", e) /\ Len(e[2]) = 2 /\ IsOrdered(a))
    BY <2>1, <2>2, <2>4 DEF Between
  <2> QED BY <2>3, <2>4
<1>3. \A op \in Ops \ {"gt", "gte", "lt", "lte", "between"} : ~SimOrders(a, op, e)
  BY DEF SimOrders
<1> QED BY <1>1, <1>2, <1>3

\* The two copies of _compare.
LEMMA SameCompare ==
  ASSUME NEW a \in Value, NEW op \in Ops, NEW e \in Value
  PROVE  Compare(a, op, e) = SimCompare(a, op, e)
<1> DEFINE found == IF op \in DOMAIN Opposite THEN ~SimFinds(a, Opposite[op], e)
                    ELSE SimFinds(a, op, e) \/ SimOrders(a, op, e)
           bad == op = "regex" /\ Truthy(a) /\ BadPattern(e)
<1>1. ~bad => (found <=> Matches(a, op, e))
  <2>1. CASE op \in {"gt", "gte", "lt", "lte", "between"}
    <3>1. op \notin DOMAIN Opposite
      BY <2>1, Opposites
    <3>2. ~SimFinds(a, op, e)
      BY <2>1 DEF SimFinds
    <3> QED BY <2>1, <3>1, <3>2, SameOrders
  <2>2. CASE op \in {"equals", "in", "contains", "starts_with", "ends_with", "is_empty", "exists",
                     "is_member_of", "matches_oui"}
    <3>1. op \notin DOMAIN Opposite
      BY <2>2, Opposites
    <3>2. ~SimOrders(a, op, e)
      BY <2>2, SameOrders
    <3>3. SimFinds(a, op, e) <=> Matches(a, op, e)
      BY <2>2, SameFinds
    <3> QED BY <3>1, <3>2, <3>3
  <2>3. CASE op = "regex"
    <3>1. op \notin DOMAIN Opposite
      BY <2>3, Opposites
    <3>2. ~SimOrders(a, op, e)
      BY <2>3, SameOrders
    <3>3. Matches(a, "regex", e) => Truthy(a)
      BY DEF Matches
    <3> QED BY <2>3, <3>1, <3>2, <3>3, SameFinds
  <2>4. CASE op \in {"not_equals", "not_in", "not_contains", "not_exists", "is_not_empty"}
    <3>1. op \in DOMAIN Opposite
      BY <2>4, Opposites
    <3>2. /\ Matches(a, "not_equals", e) <=> ~Matches(a, "equals", e)
          /\ Matches(a, "not_in", e) <=> ~Matches(a, "in", e)
          /\ Matches(a, "not_contains", e) <=> ~Matches(a, "contains", e)
          /\ Matches(a, "not_exists", e) <=> ~Matches(a, "exists", e)
          /\ Matches(a, "is_not_empty", e) <=> ~Matches(a, "is_empty", e)
      BY DEF Matches
    <3>3. Matches(a, op, e) <=> ~SimFinds(a, Opposite[op], e)
      <4>1. CASE op = "not_equals"
        BY <4>1, <3>2, SameFinds, Opposites
      <4>2. CASE op = "not_in"
        BY <4>2, <3>2, SameFinds, Opposites
      <4>3. CASE op = "not_contains"
        BY <4>3, <3>2, SameFinds, Opposites
      <4>4. CASE op = "not_exists"
        BY <4>4, <3>2, SameFinds, Opposites
      <4>5. CASE op = "is_not_empty"
        BY <4>5, <3>2, SameFinds, Opposites
      <4> QED BY <2>4, <4>1, <4>2, <4>3, <4>4, <4>5
    <3> QED BY <3>1, <3>3
  <2>5. CASE op = "unknown"
    <3>1. op \notin DOMAIN Opposite
      BY <2>5, Opposites
    <3>2. ~SimFinds(a, op, e) /\ ~SimOrders(a, op, e) /\ ~Matches(a, op, e)
      BY <2>5 DEF SimFinds, SimOrders, Matches
    <3> QED BY <3>1, <3>2
  <2> QED BY <2>1, <2>2, <2>3, <2>4, <2>5 DEF Ops
<1>2. Compare(a, op, e) = IF bad THEN "raises" ELSE IF Matches(a, op, e) THEN "yes" ELSE "no"
  BY DEF Compare
<1>3. SimCompare(a, op, e) = IF bad THEN "raises" ELSE IF found THEN "yes" ELSE "no"
  BY DEF SimCompare
<1> HIDE DEF bad, found
<1> QED BY <1>1, <1>2, <1>3

-----------------------------------------------------------------------------
(* The functions on what they are given.                                     *)

\* The input a state holds is one that a caller hands over.
Supplied == asked \in DOMAIN Inputs /\ test \in Inputs[asked]

\* No step exchanges the input.
LEMMA InputKept == Functions => []Supplied
<1>1. Given => Supplied
  BY DEF Given, Supplied
<1>2. Supplied /\ [Decide]_asking => Supplied'
  BY DEF Supplied, Decide, asking, Inputs
<1> QED BY <1>1, <1>2, PTL DEF Functions

\* Each kind of input comes from its own set.
LEMMA Supply ==
  ASSUME Supplied
  PROVE  /\ asked = "comparison" => test \in Comparisons
         /\ asked = "situation" => test \in Situations
         /\ asked = "request" => test \in Requests
         /\ asked = "datagram" => test \in Datagrams
         /\ asked = "database" => test \in Databases
         /\ asked = "csv" => test \in CsvFiles
BY DEF Supplied, Inputs

\* The engine and the gateway decide every condition alike, whatever values,
\* operators and tokens there are.
THEOREM CopiesAlwaysAgree == Functions => []CopiesAgree
<1>1. ASSUME Supplied PROVE CopiesAgree
  <2>1. SUFFICES ASSUME asked = "comparison"
                 PROVE  Compare(test[1], test[2], test[3]) = SimCompare(test[1], test[2], test[3])
    BY DEF CopiesAgree
  <2>2. test[1] \in Value /\ test[2] \in Ops /\ test[3] \in Value
    BY <1>1, <2>1, Supply, ComparisonsAssumption
  <2> QED BY <2>2, SameCompare
<1> QED BY <1>1, InputKept, PTL

-----------------------------------------------------------------------------
\* Python's == is symmetric.
LEMMA PyEqualSymmetric ==
  ASSUME NEW a, NEW b,
         IsA("list", a) => DOMAIN a[2] = 1 .. Len(a[2]),
         IsA("list", b) => DOMAIN b[2] = 1 .. Len(b[2])
  PROVE  PyEqual(a, b) <=> PyEqual(b, a)
<1> DEFINE scalar(v) == v[1] \in {"bool", "num"}
           same(x, y) == IF scalar(x) /\ scalar(y) THEN NumberOf(x) = NumberOf(y) ELSE x = y
<1>1. \A x, y : same(x, y) <=> same(y, x)
  OBVIOUS
<1>2. CASE IsA("list", a) /\ IsA("list", b)
  <2>1. PyEqual(a, b) <=> Len(a[2]) = Len(b[2]) /\ \A i \in DOMAIN a[2] : same(a[2][i], b[2][i])
    BY <1>2 DEF PyEqual
  <2>2. PyEqual(b, a) <=> Len(b[2]) = Len(a[2]) /\ \A i \in DOMAIN b[2] : same(b[2][i], a[2][i])
    BY <1>2 DEF PyEqual
  <2> HIDE DEF same
  <2>3. Len(a[2]) = Len(b[2]) => DOMAIN a[2] = DOMAIN b[2]
    BY <1>2
  <2> QED BY <1>1, <2>1, <2>2, <2>3
<1>3. CASE ~(IsA("list", a) /\ IsA("list", b))
  BY <1>1, <1>3 DEF PyEqual
<1> QED BY <1>2, <1>3

\* And so is the engine's comparison of normalized values.
LEMMA EqualsSymmetric ==
  ASSUME NEW u \in Value, NEW v \in Value
  PROVE  Equals(Normalize(u), Normalize(v)) <=> Equals(Normalize(v), Normalize(u))
<1> DEFINE a == Normalize(u)
           b == Normalize(v)
<1>1. ASSUME NEW w \in Value, IsA("list", Normalize(w))
      PROVE  DOMAIN Normalize(w)[2] = 1 .. Len(Normalize(w)[2])
  <2>1. CASE IsA("text", w)
    <3>1. Normalize(w)[1] \in {"bool", "text"}
      <4> DEFINE t == Strip(Lower(w[2]))
      <4>1. Normalize(w) = CASE t \in Yes -> Bool(TRUE) [] t \in No -> Bool(FALSE) [] OTHER -> Text(t)
        BY <2>1 DEF Normalize
      <4> HIDE DEF t
      <4>2. Normalize(w) = Bool(TRUE) \/ Normalize(w) = Bool(FALSE) \/ Normalize(w) = Text(t)
        BY <4>1
      <4>3. (\A x : Bool(x)[1] = "bool") /\ Text(t)[1] = "text"
        BY DEF Bool, Text
      <4> QED BY <4>2, <4>3, Zenon
    <3> QED BY <1>1, <3>1 DEF IsA
  <2>2. CASE ~IsA("text", w)
    <3>1. Normalize(w) = w
      BY <2>2 DEF Normalize
    <3> QED BY <3>1, <1>1, ElementsData
  <2> QED BY <2>1, <2>2
<1>2. PyEqual(a, b) <=> PyEqual(b, a)
  BY <1>1, PyEqualSymmetric
<1>3. ASSUME NEW x, NEW y, PyEqual(x, y) <=> PyEqual(y, x)
      PROVE  Equals(x, y) <=> Equals(y, x)
  <2>1. CASE Null \in {x, y}
    BY <2>1 DEF Equals
  <2>2. CASE Null \notin {x, y} /\ "bool" \in {x[1], y[1]}
    <3>1. Equals(x, y) <=> (Truthy(x) = Truthy(y))
      BY <2>2 DEF Equals
    <3>2. Equals(y, x) <=> (Truthy(y) = Truthy(x))
      BY <2>2 DEF Equals
    <3> QED BY <3>1, <3>2
  <2>3. CASE Null \notin {x, y} /\ "bool" \notin {x[1], y[1]}
    BY <1>3, <2>3 DEF Equals
  <2> QED BY <2>1, <2>2, <2>3
<1> QED BY <1>2, <1>3

\* What the orderings of two values come to.
LEMMA Orderings ==
  ASSUME NEW a, NEW e
  PROVE  LET ordered == IsOrdered(a) /\ IsOrdered(e) IN
         /\ Matches(a, "gt", e) = (ordered /\ NumberOf(a) > NumberOf(e))
         /\ Matches(a, "gte", e) = (ordered /\ NumberOf(a) >= NumberOf(e))
         /\ Matches(a, "lt", e) = (ordered /\ NumberOf(a) < NumberOf(e))
         /\ Matches(a, "lte", e) = (ordered /\ NumberOf(a) <= NumberOf(e))
<1> DEFINE x == NumberOf(a)
           y == NumberOf(e)
<1>1. Matches(a, "gt", e) = (IsOrdered(a) /\ IsOrdered(e) /\ x > y)
  BY DEF Matches, NumberMatch
<1>2. Matches(a, "gte", e) = (IsOrdered(a) /\ IsOrdered(e) /\ x >= y)
  BY DEF Matches, NumberMatch
<1>3. Matches(a, "lt", e) = (IsOrdered(a) /\ IsOrdered(e) /\ x < y)
  BY DEF Matches, NumberMatch
<1>4. Matches(a, "lte", e) = (IsOrdered(a) /\ IsOrdered(e) /\ x <= y)
  BY DEF Matches, NumberMatch
<1> HIDE DEF x, y
<1>5. /\ Matches(a, "gt", e) = ((IsOrdered(a) /\ IsOrdered(e)) /\ x > y)
      /\ Matches(a, "gte", e) = ((IsOrdered(a) /\ IsOrdered(e)) /\ x >= y)
      /\ Matches(a, "lt", e) = ((IsOrdered(a) /\ IsOrdered(e)) /\ x < y)
      /\ Matches(a, "lte", e) = ((IsOrdered(a) /\ IsOrdered(e)) /\ x <= y)
  BY <1>1, <1>2, <1>3, <1>4, Zenon
<1> QED BY <1>5 DEF x, y

\* A bound lies between itself and a bound above it.
LEMMA BetweenBounds ==
  ASSUME NEW a, NEW e, IsBound(a), IsBound(e), NumberOf(e) <= NumberOf(a), NumberOf(a) \in Int
  PROVE  Matches(a, "between", <<"list", <<e, a>>>>)
<1> DEFINE both == <<"list", <<e, a>>>>
<1>1. both[2] = <<e, a>> /\ Len(both[2]) = 2 /\ IsA("list", both) /\ both[2][1] = e /\ both[2][2] = a
  BY DEF IsA
<1>2. Elements(both) = {e, a}
  BY <1>1 DEF Elements
<1>3. IsOrdered(a)
  BY DEF IsBound
<1> HIDE DEF both
<1>4. NumberOf(both[2][1]) <= NumberOf(a) /\ NumberOf(a) <= NumberOf(both[2][2])
  BY <1>1
<1>5. Between(a, both)
  BY <1>1, <1>2, <1>3, <1>4 DEF Between
<1>6. Matches(a, "between", both)
  BY <1>5 DEF Matches
<1> QED BY <1>6 DEF both

\* The comparisons hang together for all values, those float() reads as nan
\* among them.
THEOREM ComparisonsHangTogether == Functions => []ComparisonsConsistent
<1>1. ASSUME Supplied PROVE ComparisonsConsistent
  <2> SUFFICES ASSUME asked = "comparison", NEW a \in Value, NEW e \in Value,
                      a = test[1], e = test[3]
               PROVE  LET ordered == IsNumber(a) /\ IsNumber(e) /\ ~IsNan(a) /\ ~IsNan(e) IN
                      /\ Equals(Normalize(a), Normalize(e)) = Equals(Normalize(e), Normalize(a))
                      /\ Matches(a, "gt", e) = Matches(e, "lt", a) /\ Matches(a, "gte", e) = Matches(e, "lte", a)
                      /\ ~(Matches(a, "gt", e) /\ Matches(a, "lte", e))
                      /\ ~(Matches(a, "lt", e) /\ Matches(a, "gte", e))
                      /\ ordered = (Matches(a, "gt", e) \/ Matches(a, "lte", e))
                      /\ ordered = (Matches(a, "lt", e) \/ Matches(a, "gte", e))
                      /\ IsBound(a) /\ IsBound(e) /\ Matches(a, "gte", e)
                           => Matches(a, "between", <<"list", <<e, a>>>>)
    <3>1. asked = "comparison" => test[1] \in Value /\ test[3] \in Value
      BY <1>1, Supply, ComparisonsAssumption
    <3> QED BY <3>1 DEF ComparisonsConsistent
  <2>1. Equals(Normalize(a), Normalize(e)) = Equals(Normalize(e), Normalize(a))
    <3>1. \A x, y : Equals(x, y) \in BOOLEAN
      BY DEF Equals, PyEqual
    <3> QED BY <3>1, EqualsSymmetric
  <2> DEFINE x == NumberOf(a)
             y == NumberOf(e)
             ordered == IsOrdered(a) /\ IsOrdered(e)
             numbers == IsNumber(a) /\ IsNumber(e) /\ ~IsNan(a) /\ ~IsNan(e)
  <2>2. /\ Matches(a, "gt", e) = (ordered /\ x > y) /\ Matches(a, "gte", e) = (ordered /\ x >= y)
        /\ Matches(a, "lt", e) = (ordered /\ x < y) /\ Matches(a, "lte", e) = (ordered /\ x <= y)
    BY Orderings
  <2>3. Matches(e, "lt", a) = (ordered /\ y < x) /\ Matches(e, "lte", a) = (ordered /\ y <= x)
    <3>1. /\ Matches(e, "lt", a) = ((IsOrdered(e) /\ IsOrdered(a)) /\ y < x)
          /\ Matches(e, "lte", a) = ((IsOrdered(e) /\ IsOrdered(a)) /\ y <= x)
      BY Orderings
    <3> HIDE DEF x, y
    <3> QED BY <3>1, Zenon
  <2>4. numbers = ordered
    <3>1. numbers <=> ordered
      BY DEF IsOrdered
    <3>2. numbers \in BOOLEAN /\ ordered \in BOOLEAN
      OBVIOUS
    <3> HIDE DEF numbers, ordered
    <3> QED BY <3>1, <3>2
  <2>5. ordered => x \in Int /\ y \in Int
    BY Numbers DEF Datum
  <2>6. ASSUME IsBound(a), IsBound(e), y <= x, x \in Int
        PROVE  Matches(a, "between", <<"list", <<e, a>>>>)
    BY <2>6, BetweenBounds
  <2> DEFINE gt == x > y  gte == x >= y  lt == x < y  lte == x <= y  mlt == y < x  mlte == y <= x
  <2>9. /\ Matches(a, "gt", e) = (ordered /\ gt) /\ Matches(a, "gte", e) = (ordered /\ gte)
        /\ Matches(a, "lt", e) = (ordered /\ lt) /\ Matches(a, "lte", e) = (ordered /\ lte)
        /\ Matches(e, "lt", a) = (ordered /\ mlt) /\ Matches(e, "lte", a) = (ordered /\ mlte)
    BY <2>2, <2>3
  <2> HIDE DEF x, y, ordered, numbers
  <2>7. CASE ordered
    <3>1. (gt <=> mlt) /\ (gte <=> mlte) /\ (gt <=> ~lte) /\ (lt <=> ~gte) /\ gt \in BOOLEAN /\ lt \in BOOLEAN
      BY <2>5, <2>7
    <3>2. mlte => Matches(a, "between", <<"list", <<e, a>>>>) \/ ~IsBound(a) \/ ~IsBound(e)
      BY <2>5, <2>6, <2>7
    <3> HIDE DEF gt, gte, lt, lte, mlt, mlte
    <3>3. /\ Matches(a, "gt", e) = gt /\ Matches(a, "gte", e) = gte
          /\ Matches(a, "lt", e) = lt /\ Matches(a, "lte", e) = lte
          /\ Matches(e, "lt", a) = mlt /\ Matches(e, "lte", a) = mlte
      <4>1. gt \in BOOLEAN /\ gte \in BOOLEAN /\ lt \in BOOLEAN /\ lte \in BOOLEAN /\ mlt \in BOOLEAN /\ mlte \in BOOLEAN
        BY DEF gt, gte, lt, lte, mlt, mlte
      <4> QED BY <2>7, <2>9, <4>1, Zenon
    <3>4. /\ gt = mlt /\ gte = mlte /\ ~(gt /\ lte) /\ ~(lt /\ gte)
          /\ TRUE = (gt \/ lte) /\ TRUE = (lt \/ gte) /\ (gte => mlte)
      <4>1. gt \in BOOLEAN /\ gte \in BOOLEAN /\ lt \in BOOLEAN /\ lte \in BOOLEAN /\ mlt \in BOOLEAN /\ mlte \in BOOLEAN
        BY DEF gt, gte, lt, lte, mlt, mlte
      <4> QED BY <3>1, <4>1, Zenon
    <3>5. numbers = TRUE
      <4>1. numbers \in BOOLEAN
        BY DEF numbers
      <4> QED BY <2>4, <2>7, <4>1, Zenon
    <3>6. /\ Matches(a, "gt", e) = Matches(e, "lt", a) /\ Matches(a, "gte", e) = Matches(e, "lte", a)
          /\ ~(Matches(a, "gt", e) /\ Matches(a, "lte", e))
          /\ ~(Matches(a, "lt", e) /\ Matches(a, "gte", e))
          /\ IsBound(a) /\ IsBound(e) /\ Matches(a, "gte", e)
               => Matches(a, "between", <<"list", <<e, a>>>>)
      BY <3>2, <3>3, <3>4, Zenon
    <3>7. /\ numbers = (Matches(a, "gt", e) \/ Matches(a, "lte", e))
          /\ numbers = (Matches(a, "lt", e) \/ Matches(a, "gte", e))
      BY <3>3, <3>4, <3>5, Zenon
    <3> QED BY <2>1, <3>6, <3>7, Zenon DEF numbers
  <2>8. CASE ~ordered
    <3>1. /\ Matches(a, "gt", e) = FALSE /\ Matches(a, "gte", e) = FALSE
          /\ Matches(a, "lt", e) = FALSE /\ Matches(a, "lte", e) = FALSE
          /\ Matches(e, "lt", a) = FALSE /\ Matches(e, "lte", a) = FALSE
      BY <2>2, <2>3, <2>8
    <3>2. numbers = FALSE
      BY <2>4, <2>8 DEF numbers
    <3> QED BY <2>1, <3>1, <3>2 DEF numbers
  <2> QED BY <2>7, <2>8
<1> QED BY <1>1, InputKept, PTL

-----------------------------------------------------------------------------
\* What evaluates a condition can meet in a context.
Meant(ctx) ==
  /\ \A k \in DOMAIN ctx.columns : ctx.columns[k] \in Value
  /\ \A c \in DOMAIN ctx.properties :
       \A k \in DOMAIN ctx.properties[c] : ctx.properties[c][k] \in Value
  /\ ctx.clock \in [hour : Nat, minute : Nat, weekday : Nat, day : Nat, month : Nat, date : Seq(Token)]

\* Both copies find the same value for a field.
LEMMA SameResolve ==
  ASSUME NEW f, NEW ctx
  PROVE  SimResolve(f, ctx) = ResolveField(f, ctx)
BY DEF SimResolve, ResolveField, Get

\* And that is a value.
LEMMA ResolvedValue ==
  ASSUME NEW f, NEW ctx, Meant(ctx)
  PROVE  ResolveField(f, ctx) \in Value
<1>0. Null \in Value
  BY DEF Value, Atom
<1>1. \A k : Get(ctx.columns, k) \in Value
  BY <1>0 DEF Get, Meant
<1>2. \A c \in DOMAIN ctx.properties : \A k : Get(ctx.properties[c], k) \in Value
  BY <1>0 DEF Get, Meant
<1>3. TimeField(f.name, ctx.clock) \in Value
  <2> DEFINE t == ctx.clock
  <2>1. /\ t.hour \in Int /\ t.minute \in Int /\ t.weekday \in Int /\ t.day \in Int /\ t.month \in Int
        /\ t.date \in Seq(Token)
    BY DEF Meant
  <2>2. \A n \in Int : <<"num", n>> \in Value
    BY DEF Value, Atom
  <2>3. \A b \in BOOLEAN : Bool(b) \in Value
    BY DEF Value, Atom, Bool
  <2>4. Text(t.date) \in Value
    BY <2>1 DEF Value, Atom, Text
  <2>5. \/ TimeField(f.name, t) = <<"num", t.hour>>
        \/ TimeField(f.name, t) = <<"num", t.minute>>
        \/ TimeField(f.name, t) = <<"num", t.weekday>>
        \/ TimeField(f.name, t) = <<"num", t.day>>
        \/ TimeField(f.name, t) = <<"num", t.month>>
        \/ TimeField(f.name, t) = Text(t.date)
        \/ TimeField(f.name, t) = Bool(9 <= t.hour /\ t.hour <= 17 /\ t.weekday < 5)
        \/ TimeField(f.name, t) = Bool(t.weekday >= 5)
        \/ TimeField(f.name, t) = Null
    <3>1. CASE f.name = "time.hour"
      BY <3>1 DEF TimeField
    <3>2. CASE f.name = "time.minute"
      BY <3>2 DEF TimeField
    <3>3. CASE f.name = "time.weekday"
      BY <3>3 DEF TimeField
    <3>4. CASE f.name = "time.day_of_month"
      BY <3>4 DEF TimeField
    <3>5. CASE f.name = "time.month"
      BY <3>5 DEF TimeField
    <3>6. CASE f.name = "time.date"
      BY <3>6 DEF TimeField
    <3>7. CASE f.name = "time.is_business_hours"
      BY <3>7 DEF TimeField
    <3>8. CASE f.name = "time.is_weekend"
      BY <3>8 DEF TimeField
    <3>9. CASE f.name \notin {"time.hour", "time.minute", "time.weekday", "time.day_of_month", "time.month", "time.date", "time.is_business_hours", "time.is_weekend"}
      BY <3>9 DEF TimeField
    <3> QED BY <3>1, <3>2, <3>3, <3>4, <3>5, <3>6, <3>7, <3>8, <3>9
  <2> HIDE DEF t
  <2>6. TimeField(f.name, t) \in Value
    <3>1. (9 <= t.hour /\ t.hour <= 17 /\ t.weekday < 5) \in BOOLEAN /\ (t.weekday >= 5) \in BOOLEAN
      OBVIOUS
    <3>2. Bool(9 <= t.hour /\ t.hour <= 17 /\ t.weekday < 5) \in Value /\ Bool(t.weekday >= 5) \in Value
      BY <2>3, <3>1, Zenon
    <3> QED BY <1>0, <2>1, <2>2, <2>4, <2>5, <3>2
  <2> QED BY <2>6 DEF t
<1> QED BY <1>0, <1>1, <1>2, <1>3 DEF ResolveField, Meant

\* What the simulation announces for a policy is what the engine executes.
LEMMA SameAnnounced ==
  ASSUME NEW p, NEW ctx, Meant(ctx),
         p.conditions \in Seq([field : [name : STRING, under : STRING, parts : Seq(STRING)],
                               operator : Ops, value : Value])
  PROVE  /\ WouldExecute(p, ctx) = Actions(p, ctx)
         /\ Evaluate(p.conditions, ctx) = "raises" => Details(p.conditions, ctx).raises
<1> DEFINE cs == p.conditions
           answer(i) == Compare(ResolveField(cs[i].field, ctx), cs[i].operator, cs[i].value)
           results == [i \in DOMAIN cs |-> SimCompare(SimResolve(cs[i].field, ctx), cs[i].operator, cs[i].value)]
           stops == {i \in DOMAIN cs : answer(i) # "yes"}
           first == CHOOSE i \in stops : \A j \in stops : i <= j
<1>1. \A i \in DOMAIN cs : results[i] = answer(i)
  <2> SUFFICES ASSUME NEW i \in DOMAIN cs
               PROVE  SimCompare(SimResolve(cs[i].field, ctx), cs[i].operator, cs[i].value) = answer(i)
    OBVIOUS
  <2>1. cs[i] \in [field : [name : STRING, under : STRING, parts : Seq(STRING)], operator : Ops, value : Value]
    <3> DEFINE Conditions == [field : [name : STRING, under : STRING, parts : Seq(STRING)],
                              operator : Ops, value : Value]
    <3>1. cs \in Seq(Conditions) /\ i \in DOMAIN cs
      OBVIOUS
    <3> HIDE DEF Conditions, cs
    <3>2. cs[i] \in Conditions
      BY <3>1
    <3> QED BY <3>2 DEF Conditions
  <2>2. cs[i].operator \in Ops /\ cs[i].value \in Value
    BY <2>1
  <2>3. ResolveField(cs[i].field, ctx) \in Value
    BY ResolvedValue
  <2>4. SimResolve(cs[i].field, ctx) = ResolveField(cs[i].field, ctx)
    BY SameResolve
  <2> HIDE DEF cs
  <2> QED BY <2>2, <2>3, <2>4, SameCompare
<1>2. Details(cs, ctx).raises <=> \E i \in DOMAIN results : results[i] = "raises"
  BY DEF Details
<1>3. Details(cs, ctx).matched <=> \A i \in DOMAIN results : results[i] = "yes"
  BY DEF Details
<1>4. Evaluate(cs, ctx) = IF stops = {} THEN "yes" ELSE answer(first)
  BY DEF Evaluate
<1>5. stops # {} => first \in stops
  <2>1. stops \in SUBSET Nat
    OBVIOUS
  <2> HIDE DEF stops
  <2> QED BY <2>1, Least
<1>6. DOMAIN results = DOMAIN cs
  OBVIOUS
<1>7. first \in stops => first \in DOMAIN cs /\ answer(first) # "yes"
  <2> HIDE DEF first
  <2> QED OBVIOUS
<1>8. stops = {} <=> \A i \in DOMAIN cs : answer(i) = "yes"
  OBVIOUS
<1> HIDE DEF results, stops, first, answer
<1>9. Details(cs, ctx).matched <=> Evaluate(cs, ctx) = "yes"
  BY <1>1, <1>3, <1>4, <1>5, <1>6, <1>7, <1>8
<1>10. Evaluate(cs, ctx) = "raises" => Details(cs, ctx).raises
  BY <1>1, <1>2, <1>4, <1>5, <1>6, <1>7
<1> QED BY <1>9, <1>10 DEF WouldExecute, Actions

\* What a simulation announces is what the engine does, for all policies and
\* contexts.
THEOREM SimulationIsTrue == Functions => []SimulationTrue
<1>1. ASSUME Supplied PROVE SimulationTrue
  <2> SUFFICES ASSUME asked = "situation", NEW i \in DOMAIN test[1]
               PROVE  LET p == test[1][i]  seen == Details(p.conditions, test[2]) IN
                      /\ ~seen.raises => WouldExecute(p, test[2]) = Actions(p, test[2])
                      /\ Evaluate(p.conditions, test[2]) = "raises" => seen.raises
    BY DEF SimulationTrue
  <2>1. test \in Situations
    BY <1>1, Supply
  <2>2. Meant(test[2])
    BY <2>1, SituationsAssumption DEF Meant
  <2>3. test[1][i].conditions \in Seq([field : [name : STRING, under : STRING, parts : Seq(STRING)],
                                       operator : Ops, value : Value])
    BY <2>1, SituationsAssumption
  <2> DEFINE p == test[1][i]
  <2>4. p.conditions \in Seq([field : [name : STRING, under : STRING, parts : Seq(STRING)],
                              operator : Ops, value : Value])
    BY <2>3
  <2>5. /\ WouldExecute(p, test[2]) = Actions(p, test[2])
        /\ Evaluate(p.conditions, test[2]) = "raises" => Details(p.conditions, test[2]).raises
    <3> HIDE DEF p
    <3> QED BY <2>2, <2>4, SameAnnounced
  <2> QED BY <2>5
<1> QED BY <1>1, InputKept, PTL

-----------------------------------------------------------------------------
(* Induction, by the least and the greatest counterexample.                  *)

\* Induction over the indices of a sequence.
LEMMA Ascend ==
  ASSUME NEW n \in Nat, NEW T \in SUBSET (1 .. n),
         \A m \in 1 .. n : m = 1 \/ m - 1 \in T => m \in T
  PROVE  T = 1 .. n
<1> DEFINE U == (1 .. n) \ T
<1>1. SUFFICES ASSUME U # {} PROVE FALSE
  OBVIOUS
<1>2. PICK m \in U : \A k \in U : m <= k
  <2>1. U \in SUBSET Nat
    OBVIOUS
  <2> HIDE DEF U
  <2> QED BY <1>1, <2>1, Least
<1>3. m \in 1 .. n /\ m \notin T
  OBVIOUS
<1>4. m = 1 \/ m - 1 \in 1 .. n
  BY <1>3
<1>5. m - 1 \notin U
  <2> HIDE DEF U
  <2>1. m \in Nat /\ ~(m <= m - 1)
    BY <1>3
  <2> QED BY <1>2, <2>1
<1>6. m = 1 \/ m - 1 \in T
  BY <1>4, <1>5
<1> QED BY <1>3, <1>6

\* And from the last one down.
LEMMA Descend ==
  ASSUME NEW n \in Nat, NEW T \in SUBSET (0 .. n),
         \A m \in 0 .. n : (\A k \in m + 1 .. n : k \in T) => m \in T
  PROVE  T = 0 .. n
<1> DEFINE U == (0 .. n) \ T
<1>1. SUFFICES ASSUME U # {} PROVE FALSE
  OBVIOUS
<1>2. PICK m \in U : \A k \in U : k <= m
  <2>1. U \in SUBSET (0 .. n)
    OBVIOUS
  <2> HIDE DEF U
  <2> QED BY <1>1, <2>1, Greatest
<1>3. m \in 0 .. n /\ m \notin T
  OBVIOUS
<1>4. \A k \in m + 1 .. n : k \in T
  <2> TAKE k \in m + 1 .. n
  <2>1. k \in 0 .. n /\ ~(k <= m)
    BY <1>3
  <2>2. k \notin U
    BY <1>2, <2>1
  <2> QED BY <2>1, <2>2
<1> QED BY <1>3, <1>4

\* FlattenSeq's recursive function exists and is what its equation says.
LEMMA Flattened ==
  ASSUME NEW S, NEW ss \in Seq(Seq(S)), ss # <<>>
  PROVE  \E f \in [1 .. Len(ss) -> Seq(S)] :
           /\ \A i \in 1 .. Len(ss) : f[i] = IF i = 1 THEN ss[i] ELSE f[i - 1] \o ss[i]
           /\ FlattenSeq(ss) = f[Len(ss)]
<1> DEFINE n == Len(ss)
           good(f, m) == \A i \in 1 .. m : f[i] = IF i = 1 THEN ss[i] ELSE f[i - 1] \o ss[i]
           T == {m \in 1 .. n : \E f \in [1 .. m -> Seq(S)] : good(f, m)}
           flatten[i \in 1 .. n] == IF i = 1 THEN ss[i] ELSE flatten[i - 1] \o ss[i]
<1>0. n \in Nat /\ n \in 1 .. n /\ \A i \in 1 .. n : ss[i] \in Seq(S)
  BY EmptySeq
<1>1. FlattenSeq(ss) = flatten[n]
  BY <1>0 DEF FlattenSeq
<1> HIDE DEF n
<1>2. T = 1 .. n
  <2>1. ASSUME NEW m \in 1 .. n, m = 1 \/ m - 1 \in T PROVE m \in T
    <3>0. m \in Nat /\ m >= 1 /\ ss[m] \in Seq(S)
      BY <1>0
    <3>1. CASE m = 1
      <4> DEFINE f == [i \in 1 .. 1 |-> ss[1]]
      <4>1. f \in [1 .. m -> Seq(S)]
        BY <1>0, <3>1
      <4>2. good(f, m)
        BY <3>1
      <4> QED BY <4>1, <4>2
    <3>2. CASE m # 1
      <4>1. PICK f \in [1 .. m - 1 -> Seq(S)] : good(f, m - 1)
        BY <2>1, <3>2
      <4>2. m - 1 \in 1 .. m - 1
        BY <3>0, <3>2
      <4> DEFINE g == [i \in 1 .. m |-> IF i = m THEN f[m - 1] \o ss[m] ELSE f[i]]
      <4>3. f[m - 1] \o ss[m] \in Seq(S)
        BY <3>0, <4>2, ConcatProperties
      <4>4. \A i \in 1 .. m : i # m => i \in 1 .. m - 1
        BY <3>0
      <4>5. g \in [1 .. m -> Seq(S)]
        BY <4>3, <4>4
      <4>6. \A i \in 1 .. m : g[i] = IF i = m THEN f[m - 1] \o ss[m] ELSE f[i]
        OBVIOUS
      <4> HIDE DEF g
      <4>7. ASSUME NEW i \in 1 .. m
            PROVE  g[i] = IF i = 1 THEN ss[i] ELSE g[i - 1] \o ss[i]
        <5>1. CASE i = m
          <6>1. m - 1 \in 1 .. m /\ m \in 1 .. m /\ m - 1 # m
            BY <3>0, <3>2
          <6>2. g[m] = f[m - 1] \o ss[m] /\ g[m - 1] = f[m - 1]
            BY <4>6, <6>1
          <6> QED BY <3>2, <5>1, <6>2
        <5>2. CASE i # m
          <6>1. i \in 1 .. m - 1 /\ (i # 1 => i - 1 \in 1 .. m /\ i - 1 # m)
            BY <3>0, <4>4, <5>2
          <6>2. g[i] = f[i] /\ (i # 1 => g[i - 1] = f[i - 1])
            BY <4>6, <5>2, <6>1
          <6>3. f[i] = IF i = 1 THEN ss[i] ELSE f[i - 1] \o ss[i]
            BY <4>1, <6>1
          <6> QED BY <6>2, <6>3
        <5> QED BY <5>1, <5>2
      <4>8. good(g, m)
        BY <4>7
      <4> QED BY <4>5, <4>8
    <3> QED BY <3>1, <3>2
  <2>2. T \in SUBSET (1 .. n)
    OBVIOUS
  <2> HIDE DEF T
  <2> QED BY <1>0, <2>1, <2>2, Ascend
<1>3. PICK f \in [1 .. n -> Seq(S)] : good(f, n)
  BY <1>0, <1>2
<1>4. flatten = [i \in 1 .. n |-> IF i = 1 THEN ss[i] ELSE flatten[i - 1] \o ss[i]]
  <2>1. f = [i \in 1 .. n |-> IF i = 1 THEN ss[i] ELSE f[i - 1] \o ss[i]]
    BY <1>3
  <2> QED BY <2>1
<1> HIDE DEF flatten, T
<1>5. \A i \in 1 .. n : flatten[i] = f[i]
  <2> DEFINE U == {i \in 1 .. n : flatten[i] = f[i]}
  <2>1. ASSUME NEW m \in 1 .. n, m = 1 \/ m - 1 \in U PROVE m \in U
    <3>1. flatten[m] = IF m = 1 THEN ss[m] ELSE flatten[m - 1] \o ss[m]
      BY <1>4
    <3>2. f[m] = IF m = 1 THEN ss[m] ELSE f[m - 1] \o ss[m]
      BY <1>3
    <3> QED BY <2>1, <3>1, <3>2
  <2>2. U \in SUBSET (1 .. n)
    OBVIOUS
  <2>3. U = 1 .. n
    <3> HIDE DEF U
    <3> QED BY <1>0, <2>1, <2>2, Ascend
  <2> QED BY <2>3
<1>6. flatten[n] = f[n]
  BY <1>0, <1>5
<1> QED BY <1>1, <1>3, <1>6 DEF n

\* Flattening a sequence starts with its first element.
LEMMA FlattenHead ==
  ASSUME NEW S, NEW x \in Seq(S), NEW rest \in Seq(Seq(S))
  PROVE  /\ FlattenSeq(rest) \in Seq(S)
         /\ FlattenSeq(<<x>> \o rest) = x \o FlattenSeq(rest)
<1> DEFINE ss == <<x>> \o rest
           n == Len(rest)
<1>1. /\ ss \in Seq(Seq(S)) /\ Len(ss) = n + 1 /\ ss # <<>>
      /\ ss[1] = x /\ \A i \in 1 .. n : ss[i + 1] = rest[i]
  OBVIOUS
<1>2. n \in Nat /\ (rest # <<>> => n \in 1 .. n) /\ \A i \in 1 .. n : rest[i] \in Seq(S)
  BY EmptySeq
<1> HIDE DEF ss
<1>3. PICK f \in [1 .. Len(ss) -> Seq(S)] :
           /\ \A i \in 1 .. Len(ss) : f[i] = IF i = 1 THEN ss[i] ELSE f[i - 1] \o ss[i]
           /\ FlattenSeq(ss) = f[Len(ss)]
  BY <1>1, Flattened
<1>4. CASE rest = <<>>
  <2>1. FlattenSeq(rest) = <<>>
    BY <1>4 DEF FlattenSeq
  <2>2. Len(ss) = 1
    BY <1>1, <1>4
  <2>3. 1 \in 1 .. Len(ss)
    BY <2>2
  <2>4. f[1] = ss[1]
    BY <1>3, <2>3
  <2>5. FlattenSeq(ss) = x
    BY <1>1, <1>3, <2>2, <2>4
  <2> QED BY <2>1, <2>5 DEF ss
<1>5. CASE rest # <<>>
  <2>1. PICK g \in [1 .. n -> Seq(S)] :
           /\ \A i \in 1 .. n : g[i] = IF i = 1 THEN rest[i] ELSE g[i - 1] \o rest[i]
           /\ FlattenSeq(rest) = g[n]
    BY <1>5, Flattened
  <2> HIDE DEF n
  <2> DEFINE T == {i \in 1 .. n : f[i + 1] = x \o g[i]}
  <2>2. ASSUME NEW m \in 1 .. n, m = 1 \/ m - 1 \in T PROVE m \in T
    <3>1. m + 1 \in 1 .. n + 1 /\ m + 1 # 1 /\ m + 1 - 1 = m /\ m - 1 + 1 = m
      BY <1>2
    <3>2. f[m + 1] = f[m] \o rest[m]
      <4>1. m + 1 \in 1 .. Len(ss) /\ ss[m + 1] = rest[m]
        BY <1>1, <3>1
      <4>2. PICK k : k = m + 1
        OBVIOUS
      <4>3. k \in 1 .. Len(ss) /\ k # 1 /\ k - 1 = m
        BY <3>1, <4>1, <4>2
      <4>4. f[k] = IF k = 1 THEN ss[k] ELSE f[k - 1] \o ss[k]
        BY <1>3, <4>3
      <4>5. f[k] = f[m] \o ss[k]
        BY <4>3, <4>4
      <4> QED BY <4>1, <4>2, <4>5
    <3>3. CASE m = 1
      <4>1. f[1] = x
        <5>1. 1 \in 1 .. n + 1
          BY <1>2
        <5> QED BY <1>1, <1>3, <5>1
      <4>2. g[1] = rest[1]
        BY <2>1, <3>3
      <4> QED BY <3>2, <3>3, <4>1, <4>2
    <3>4. CASE m # 1
      <4>1. m - 1 \in 1 .. n /\ f[m - 1 + 1] = x \o g[m - 1]
        BY <2>2, <3>4
      <4>2. f[m] = x \o g[m - 1]
        BY <3>1, <4>1
      <4>3. g[m] = g[m - 1] \o rest[m]
        BY <2>1, <3>4
      <4>4. g[m - 1] \in Seq(S) /\ rest[m] \in Seq(S)
        BY <1>2, <4>1
      <4> HIDE DEF T
      <4>5. (x \o g[m - 1]) \o rest[m] = x \o (g[m - 1] \o rest[m])
        <5>1. \A s, t \in Seq(S) : (x \o s) \o t = x \o (s \o t)
          BY ConcatAssociative
        <5> QED BY <4>4, <5>1
      <4>6. f[m + 1] = x \o g[m]
        BY <3>2, <4>2, <4>3, <4>5
      <4> QED BY <4>6 DEF T
    <3> QED BY <3>3, <3>4
  <2>3. T \in SUBSET (1 .. n)
    OBVIOUS
  <2>4. T = 1 .. n
    <3> HIDE DEF T
    <3> QED BY <1>2, <2>2, <2>3, Ascend
  <2>5. f[n + 1] = x \o g[n] /\ g[n] \in Seq(S)
    BY <1>2, <1>5, <2>4
  <2> QED BY <1>1, <1>3, <2>1, <2>5 DEF ss
<1> QED BY <1>4, <1>5

-----------------------------------------------------------------------------
(* Attributes of a packet, encoded and parsed.                               *)

\* The attributes of a packet.
Attribute == Nat \X Seq(Nat)

\* What an attribute is encoded to.
LEMMA TlvProperties ==
  ASSUME NEW a \in Attribute
  PROVE  /\ Tlv(a) \in Seq(Nat) /\ Len(Tlv(a)) = Len(a[2]) + 2
         /\ Tlv(a)[1] = a[1] /\ Tlv(a)[2] = Len(a[2]) + 2
         /\ \A i \in 1 .. Len(a[2]) : Tlv(a)[i + 2] = a[2][i]
<1>1. a[1] \in Nat /\ a[2] \in Seq(Nat) /\ Len(a[2]) \in Nat
  BY DEF Attribute
<1>2. <<a[1], Len(a[2]) + 2>> \in Seq(Nat) /\ Len(<<a[1], Len(a[2]) + 2>>) = 2
  BY <1>1
<1> QED BY <1>1, <1>2 DEF Tlv

\* The section of attributes starts with the first of them.
LEMMA SectionHead ==
  ASSUME NEW a \in Attribute, NEW rest \in Seq(Attribute)
  PROVE  /\ Section(rest) \in Seq(Nat)
         /\ Section(<<a>> \o rest) = Tlv(a) \o Section(rest)
<1> DEFINE ts == [i \in DOMAIN rest |-> Tlv(rest[i])]
           all == <<a>> \o rest
<1>1. DOMAIN rest = 1 .. Len(rest) /\ Len(rest) \in Nat /\ \A i \in 1 .. Len(rest) : rest[i] \in Attribute
  OBVIOUS
<1>2. ts \in Seq(Seq(Nat)) /\ Len(ts) = Len(rest) /\ \A i \in 1 .. Len(rest) : ts[i] = Tlv(rest[i])
  <2>1. \A i \in 1 .. Len(rest) : Tlv(rest[i]) \in Seq(Nat)
    BY <1>1, TlvProperties
  <2> QED BY <1>1, <2>1
<1>3. /\ DOMAIN all = 1 .. Len(rest) + 1
      /\ all[1] = a /\ \A i \in 2 .. Len(rest) + 1 : all[i] = rest[i - 1]
  BY <1>1
<1> HIDE DEF ts, all
<1>4. [i \in DOMAIN all |-> Tlv(all[i])] = <<Tlv(a)>> \o ts
  <2> DEFINE u == [i \in DOMAIN all |-> Tlv(all[i])]
             v == <<Tlv(a)>> \o ts
  <2>1. \A i \in 1 .. Len(rest) + 1 : u[i] = Tlv(all[i])
    BY <1>3
  <2>2. v \in Seq(Seq(Nat)) /\ Len(v) = Len(rest) + 1 /\ v[1] = Tlv(a)
    BY <1>2, TlvProperties
  <2>3. \A i \in 2 .. Len(rest) + 1 : v[i] = ts[i - 1]
    BY <1>1, <1>2, TlvProperties
  <2>4. \A i \in 2 .. Len(rest) + 1 : i - 1 \in 1 .. Len(rest)
    BY <1>1
  <2>5. ASSUME NEW i \in 1 .. Len(rest) + 1 PROVE u[i] = v[i]
    <3>1. CASE i = 1
      <4>1. u[1] = Tlv(all[1])
        BY <2>1, <3>1
      <4> QED BY <1>3, <2>2, <3>1, <4>1
    <3>2. CASE i # 1
      <4>1. i \in 2 .. Len(rest) + 1
        BY <1>1, <3>2
      <4>2. v[i] = Tlv(rest[i - 1])
        BY <1>2, <2>3, <2>4, <4>1
      <4>3. u[i] = Tlv(rest[i - 1])
        BY <1>3, <2>1, <4>1
      <4> QED BY <4>2, <4>3
    <3> QED BY <3>1, <3>2
  <2>6. u = [i \in 1 .. Len(rest) + 1 |-> u[i]]
    BY <1>3
  <2> HIDE DEF u
  <2>7. v = [i \in 1 .. Len(rest) + 1 |-> v[i]]
    BY <1>1, <2>2
  <2> HIDE DEF v
  <2>8. u = v
    BY <2>5, <2>6, <2>7
  <2> QED BY <2>8 DEF u, v
<1>5. Tlv(a) \in Seq(Nat)
  BY TlvProperties
<1>6. FlattenSeq(ts) \in Seq(Nat) /\ FlattenSeq(<<Tlv(a)>> \o ts) = Tlv(a) \o FlattenSeq(ts)
  BY <1>2, <1>5, FlattenHead
<1>7. Section(rest) = FlattenSeq(ts)
  BY DEF Section, ts
<1>8. Section(all) = FlattenSeq(<<Tlv(a)>> \o ts)
  BY <1>4 DEF Section
<1> QED BY <1>6, <1>7, <1>8 DEF all

\* No attributes, no bytes.
LEMMA SectionEmpty == Section(<<>>) = <<>>
<1> DEFINE u == [i \in DOMAIN <<>> |-> Tlv(<<>>[i])]
<1>1. u = <<>>
  OBVIOUS
<1>2. FlattenSeq(<<>>) = <<>>
  BY DEF FlattenSeq
<1> QED BY <1>1, <1>2 DEF Section

\* Where parsing stops.
Stops(data, pos) == pos + 2 > Len(data) \/ data[pos + 2] < 2 \/ pos + data[pos + 2] > Len(data)

\* What parsing reads at an offset.
At(data, pos) == <<data[pos + 1], SubSeq(data, pos + 3, pos + data[pos + 2])>>

\* It reads on further along, and what it reads are the bytes there.
LEMMA ReadsOn ==
  ASSUME NEW S \in SUBSET Nat, NEW data \in Seq(S), NEW pos \in 0 .. Len(data), ~Stops(data, pos)
  PROVE  /\ pos + data[pos + 2] \in pos + 2 .. Len(data)
         /\ At(data, pos) \in S \X Seq(S) /\ At(data, pos) \in Attribute
         /\ Tlv(At(data, pos)) = SubSeq(data, pos + 1, pos + data[pos + 2])
<1> DEFINE n == data[pos + 2]
           value == SubSeq(data, pos + 3, pos + n)
<1>1. Len(data) \in Nat /\ pos \in Nat /\ pos + 2 <= Len(data) /\ pos + 1 \in 1 .. Len(data) /\ pos + 2 \in 1 .. Len(data)
  BY DEF Stops
<1>2. n \in S /\ n \in Nat /\ n >= 2 /\ pos + n <= Len(data) /\ data[pos + 1] \in S /\ data[pos + 1] \in Nat
  <2>1. n \in S /\ data[pos + 1] \in S
    BY <1>1
  <2>2. ~(n < 2) /\ ~(pos + n > Len(data))
    BY DEF Stops
  <2> HIDE DEF n
  <2>3. n \in Nat /\ data[pos + 1] \in Nat
    BY <2>1
  <2>4. n >= 2 /\ pos + n <= Len(data)
    BY <1>1, <2>2, <2>3
  <2> QED BY <2>1, <2>3, <2>4
<1> HIDE DEF n
<1>3. \A i \in pos + 3 .. pos + n : data[i] \in S /\ data[i] \in Nat
  <2>1. \A i \in 1 .. Len(data) : data[i] \in S
    OBVIOUS
  <2>2. \A i \in pos + 3 .. pos + n : i \in 1 .. Len(data)
    BY <1>1, <1>2
  <2> QED BY <2>1, <2>2
<1>4. value \in Seq(S) /\ Len(value) = n - 2 /\ \A i \in 1 .. n - 2 : value[i] = data[pos + 2 + i]
  <2>1. pos + 3 \in Int /\ pos + n \in Int
    BY <1>1, <1>2
  <2>2. /\ value \in Seq(S)
        /\ Len(value) = IF pos + 3 <= pos + n THEN (pos + n) - (pos + 3) + 1 ELSE 0
        /\ \A i \in 1 .. (pos + n) - (pos + 3) + 1 : value[i] = data[(pos + 3) + i - 1]
    BY <1>3, <2>1, SubSeqProperties
  <2> HIDE DEF value
  <2>3. (pos + n) - (pos + 3) + 1 = n - 2 /\ \A i \in 1 .. n - 2 : (pos + 3) + i - 1 = pos + 2 + i
    BY <1>1, <1>2
  <2>4. Len(value) = n - 2
    BY <1>1, <1>2, <2>2
  <2>5. ASSUME NEW i \in 1 .. n - 2 PROVE value[i] = data[pos + 2 + i]
    BY <2>2, <2>3
  <2> QED BY <2>2, <2>4, <2>5
<1>5. At(data, pos) = <<data[pos + 1], value>>
  BY DEF At, n
<1>6. value \in Seq(Nat)
  <2> HIDE DEF value
  <2> QED BY <1>4, SeqMonotonic
<1> HIDE DEF value
<1>7. At(data, pos) \in S \X Seq(S) /\ At(data, pos) \in Attribute
  BY <1>2, <1>4, <1>5, <1>6 DEF Attribute
<1>8. Tlv(At(data, pos)) = SubSeq(data, pos + 1, pos + n)
  <2> DEFINE a == At(data, pos)
             s == SubSeq(data, pos + 1, pos + n)
             t == Tlv(a)
  <2>1. a[1] = data[pos + 1] /\ a[2] = value
    BY <1>5
  <2>2. /\ t \in Seq(Nat) /\ Len(t) = n
        /\ t[1] = data[pos + 1] /\ t[2] = n
        /\ \A i \in 1 .. n - 2 : t[i + 2] = value[i]
    <3> HIDE DEF a
    <3>1. /\ t \in Seq(Nat) /\ Len(t) = Len(a[2]) + 2
          /\ t[1] = a[1] /\ t[2] = Len(a[2]) + 2
          /\ \A i \in 1 .. Len(a[2]) : t[i + 2] = a[2][i]
      BY <1>7, TlvProperties DEF a
    <3> HIDE DEF t
    <3>2. Len(a[2]) = n - 2 /\ n - 2 + 2 = n
      BY <1>2, <1>4, <2>1
    <3> QED BY <2>1, <3>1, <3>2
  <2>3. /\ s \in Seq(Nat) /\ Len(s) = n
        /\ \A i \in 1 .. n : s[i] = data[pos + i]
    <3>1. \A i \in pos + 1 .. pos + n : data[i] \in Nat
      <4>1. \A i \in 1 .. Len(data) : data[i] \in Nat
        <5>1. \A i \in 1 .. Len(data) : data[i] \in S
          OBVIOUS
        <5>2. \A x \in S : x \in Nat
          OBVIOUS
        <5> QED BY <5>1, <5>2
      <4>2. \A i \in pos + 1 .. pos + n : i \in 1 .. Len(data)
        BY <1>1, <1>2
      <4> QED BY <4>1, <4>2
    <3>2. pos + 1 \in Int /\ pos + n \in Int
      BY <1>1, <1>2
    <3>3. /\ s \in Seq(Nat)
          /\ Len(s) = IF pos + 1 <= pos + n THEN (pos + n) - (pos + 1) + 1 ELSE 0
          /\ \A i \in 1 .. (pos + n) - (pos + 1) + 1 : s[i] = data[(pos + 1) + i - 1]
      BY <3>1, <3>2, SubSeqProperties
    <3> HIDE DEF s
    <3>4. (pos + n) - (pos + 1) + 1 = n /\ pos + 1 <= pos + n /\ \A i \in 1 .. n : (pos + 1) + i - 1 = pos + i
      BY <1>1, <1>2
    <3> QED BY <3>3, <3>4
  <2> HIDE DEF a, s, t
  <2>4. ASSUME NEW i \in 1 .. n PROVE t[i] = s[i]
    <3>1. CASE i = 1
      BY <2>2, <2>3, <3>1
    <3>2. CASE i = 2
      BY <2>2, <2>3, <3>2 DEF n
    <3>3. CASE i \notin {1, 2}
      <4>1. PICK k : k = i - 2
        OBVIOUS
      <4>2. k \in 1 .. n - 2 /\ k + 2 = i /\ pos + 2 + k = pos + i
        BY <1>1, <1>2, <3>3, <4>1
      <4>3. t[i] = value[k]
        BY <2>2, <4>2
      <4>4. value[k] = data[pos + i]
        BY <1>4, <4>2
      <4> QED BY <2>3, <4>3, <4>4
    <3> QED BY <3>1, <3>2, <3>3
  <2>5. s = t
    BY <2>2, <2>3, <2>4, SeqEqual
  <2> QED BY <2>5 DEF a, s, t
<1>9. pos + n \in pos + 2 .. Len(data)
  BY <1>1, <1>2
<1> QED BY <1>7, <1>8, <1>9 DEF n

\* Parse's recursive function exists and is what its equation says: read at an
\* offset, the attributes are the one there and those after it.
LEMMA Parsing ==
  ASSUME NEW S \in SUBSET Nat, NEW data \in Seq(S)
  PROVE  \E f \in [0 .. Len(data) -> Seq(S \X Seq(S))] :
           /\ \A pos \in 0 .. Len(data) :
                f[pos] = IF Stops(data, pos) THEN <<>> ELSE <<At(data, pos)>> \o f[pos + data[pos + 2]]
           /\ Parse(data) = f[0]
<1> DEFINE n == Len(data)
           V == Seq(S \X Seq(S))
           next(pos) == pos + data[pos + 2]
           good(f, m) == \A pos \in m .. n :
                           f[pos] = IF Stops(data, pos) THEN <<>> ELSE <<At(data, pos)>> \o f[next(pos)]
           T == {m \in 0 .. n : \E f \in [m .. n -> V] : good(f, m)}
           from[pos \in 0 .. n] ==
             IF pos + 2 > n \/ data[pos + 2] < 2 \/ pos + data[pos + 2] > n
             THEN <<>>
             ELSE << <<data[pos + 1], SubSeq(data, pos + 3, pos + data[pos + 2])>> >>
                  \o from[pos + data[pos + 2]]
<1>0. n \in Nat /\ 0 \in 0 .. n
  OBVIOUS
<1>1. Parse(data) = from[0]
  BY DEF Parse
<1>2. \A pos \in 0 .. n : ~Stops(data, pos) => next(pos) \in pos + 2 .. n /\ At(data, pos) \in S \X Seq(S)
  BY ReadsOn
<1>a. \A u \in S \X Seq(S), v \in V : <<u>> \o v \in V
  OBVIOUS
<1>b. <<>> \in V
  OBVIOUS
<1> HIDE DEF n, next, V
<1>3. T = 0 .. n
  <2>1. ASSUME NEW m \in 0 .. n, \A k \in m + 1 .. n : k \in T PROVE m \in T
    <3>1. PICK f \in [m + 1 .. n -> V] : good(f, m + 1)
      <4>1. CASE m = n
        <5>1. m + 1 .. n = {}
          BY <1>0, <4>1
        <5> DEFINE f == [i \in {} |-> <<>>]
        <5>2. f \in [{} -> V]
          OBVIOUS
        <5> HIDE DEF f
        <5> QED BY <5>1, <5>2
      <4>2. CASE m # n
        <5>1. m + 1 \in m + 1 .. n
          BY <1>0, <4>2
        <5> QED BY <2>1, <5>1
      <4> QED BY <4>1, <4>2
    <3> DEFINE x == IF Stops(data, m) THEN <<>> ELSE <<At(data, m)>> \o f[next(m)]
               g == [i \in m .. n |-> IF i = m THEN x ELSE f[i]]
    <3>2. x \in V
      <4>1. CASE Stops(data, m)
        BY <1>b, <4>1
      <4>2. CASE ~Stops(data, m)
        <5>1. next(m) \in m + 2 .. n /\ At(data, m) \in S \X Seq(S)
          BY <1>2, <4>2
        <5>2. next(m) \in m + 1 .. n
          BY <1>0, <5>1
        <5> QED BY <1>a, <3>1, <4>2, <5>1, <5>2
      <4> QED BY <4>1, <4>2
    <3> HIDE DEF x
    <3>3. \A i \in m .. n : i # m => i \in m + 1 .. n
      BY <1>0
    <3>4. g \in [m .. n -> V]
      BY <3>2, <3>3
    <3>5. m \in m .. n /\ \A i \in m .. n : g[i] = IF i = m THEN x ELSE f[i]
      BY <1>0
    <3> HIDE DEF g
    <3>6. ASSUME NEW pos \in m .. n
          PROVE  g[pos] = IF Stops(data, pos) THEN <<>> ELSE <<At(data, pos)>> \o g[next(pos)]
      <4>1. pos \in 0 .. n
        BY <1>0
      <4>2. ~Stops(data, pos) => next(pos) \in m .. n /\ next(pos) # m
        <5>1. SUFFICES ASSUME ~Stops(data, pos) PROVE next(pos) \in m .. n /\ next(pos) # m
          OBVIOUS
        <5>2. next(pos) \in pos + 2 .. n
          BY <1>2, <4>1, <5>1
        <5> QED BY <1>0, <4>1, <5>2
      <4>3. ~Stops(data, pos) => g[next(pos)] = f[next(pos)]
        BY <3>5, <4>2
      <4>4. CASE pos = m
        BY <3>5, <4>3, <4>4 DEF x
      <4>5. CASE pos # m
        <5>1. g[pos] = f[pos]
          BY <3>5, <4>5
        <5>2. f[pos] = IF Stops(data, pos) THEN <<>> ELSE <<At(data, pos)>> \o f[next(pos)]
          BY <3>1, <3>3, <4>5
        <5> QED BY <4>3, <5>1, <5>2
      <4> QED BY <4>4, <4>5
    <3>7. good(g, m)
      BY <3>6
    <3> HIDE DEF good
    <3> QED BY <3>4, <3>7
  <2>2. T \in SUBSET (0 .. n)
    OBVIOUS
  <2> HIDE DEF T
  <2> QED BY <1>0, <2>1, <2>2, Descend
<1>4. PICK f \in [0 .. n -> V] : good(f, 0)
  BY <1>0, <1>3
<1> HIDE DEF T
<1>5. \A pos : Stops(data, pos) <=> (pos + 2 > n \/ data[pos + 2] < 2 \/ pos + data[pos + 2] > n)
  BY DEF Stops, n
<1>6. \A pos : At(data, pos) = <<data[pos + 1], SubSeq(data, pos + 3, pos + data[pos + 2])>>
  BY DEF At
<1>7. from = [pos \in 0 .. n |->
             IF pos + 2 > n \/ data[pos + 2] < 2 \/ pos + data[pos + 2] > n
             THEN <<>>
             ELSE << <<data[pos + 1], SubSeq(data, pos + 3, pos + data[pos + 2])>> >>
                  \o from[pos + data[pos + 2]]]
  <2>1. f = [pos \in 0 .. n |->
             IF pos + 2 > n \/ data[pos + 2] < 2 \/ pos + data[pos + 2] > n
             THEN <<>>
             ELSE << <<data[pos + 1], SubSeq(data, pos + 3, pos + data[pos + 2])>> >>
                  \o f[pos + data[pos + 2]]]
    BY <1>4, <1>5, <1>6 DEF next
  <2> QED BY <2>1
<1> HIDE DEF from
<1>8. \A pos \in 0 .. n : from[pos] = IF Stops(data, pos) THEN <<>> ELSE <<At(data, pos)>> \o from[next(pos)]
  BY <1>5, <1>6, <1>7 DEF next
<1>9. \A pos \in 0 .. n : from[pos] = f[pos]
  <2> DEFINE U == {pos \in 0 .. n : from[pos] = f[pos]}
  <2>1. ASSUME NEW m \in 0 .. n, \A k \in m + 1 .. n : k \in U PROVE m \in U
    <3>1. ~Stops(data, m) => from[next(m)] = f[next(m)]
      <4>1. SUFFICES ASSUME ~Stops(data, m) PROVE from[next(m)] = f[next(m)]
        OBVIOUS
      <4>2. next(m) \in m + 2 .. n
        BY <1>2, <4>1
      <4>3. next(m) \in m + 1 .. n
        BY <1>0, <4>2
      <4> QED BY <2>1, <4>3
    <3>2. f[m] = IF Stops(data, m) THEN <<>> ELSE <<At(data, m)>> \o f[next(m)]
      BY <1>4
    <3> QED BY <1>8, <3>1, <3>2
  <2>2. U \in SUBSET (0 .. n)
    OBVIOUS
  <2>3. U = 0 .. n
    <3> HIDE DEF U
    <3> QED BY <1>0, <2>1, <2>2, Descend
  <2> QED BY <2>3
<1>10. Parse(data) = f[0]
  BY <1>0, <1>1, <1>9
<1> QED BY <1>4, <1>10 DEF n, V, next

\* Parsing leaves out bytes only at the end.
LEMMA ParsedPrefix ==
  ASSUME NEW S \in SUBSET Nat, NEW data \in Seq(S)
  PROVE  /\ Parse(data) \in Seq(S \X Seq(S))
         /\ \E n \in 0 .. Len(data) : Section(Parse(data)) = SubSeq(data, 1, n)
<1> DEFINE n == Len(data)
           next(pos) == pos + data[pos + 2]
<1>0. n \in Nat /\ 0 \in 0 .. n /\ data \in Seq(Nat)
  <2>1. data \in Seq(Nat)
    BY SeqMonotonic
  <2> QED BY <2>1
<1>1. PICK f \in [0 .. n -> Seq(S \X Seq(S))] :
           /\ \A pos \in 0 .. n :
                f[pos] = IF Stops(data, pos) THEN <<>> ELSE <<At(data, pos)>> \o f[next(pos)]
           /\ Parse(data) = f[0]
  BY Parsing
<1>2. \A pos \in 0 .. n : ~Stops(data, pos) =>
        /\ next(pos) \in pos + 2 .. n /\ At(data, pos) \in Attribute
        /\ Tlv(At(data, pos)) = SubSeq(data, pos + 1, next(pos))
  BY ReadsOn
<1>3. \A pos \in 0 .. n : f[pos] \in Seq(Attribute)
  <2>1. S \X Seq(S) \subseteq Attribute
    <3>1. Seq(S) \subseteq Seq(Nat)
      BY SeqMonotonic
    <3> QED BY <3>1 DEF Attribute
  <2>2. \A s \in Seq(S \X Seq(S)) : s \in Seq(Attribute)
    BY <2>1, SeqMonotonic
  <2> QED BY <1>1, <2>2
<1> DEFINE T == {pos \in 0 .. n : \E k \in pos .. n : Section(f[pos]) = SubSeq(data, pos + 1, k)}
<1>4. T = 0 .. n
  <2>1. ASSUME NEW m \in 0 .. n, \A k \in m + 1 .. n : k \in T PROVE m \in T
    <3>1. CASE Stops(data, m)
      <4>1. f[m] = <<>>
        BY <1>1, <3>1
      <4>2. Section(f[m]) = SubSeq(data, m + 1, m)
        <5>1. SubSeq(data, m + 1, m) = <<>>
          <6>1. m + 1 \in Int /\ m \in Int /\ m < m + 1
            BY <1>0
          <6> QED BY <6>1, SubSeqEmpty
        <5> QED BY <4>1, <5>1, SectionEmpty
      <4>3. m \in m .. n
        BY <1>0
      <4> QED BY <4>2, <4>3
    <3>2. CASE ~Stops(data, m)
      <4>1. /\ next(m) \in m + 2 .. n /\ At(data, m) \in Attribute
            /\ Tlv(At(data, m)) = SubSeq(data, m + 1, next(m))
        BY <1>2, <3>2
      <4> HIDE DEF next
      <4>2. next(m) \in m + 1 .. n /\ next(m) \in 0 .. n
        BY <1>0, <4>1
      <4>3. PICK k \in next(m) .. n : Section(f[next(m)]) = SubSeq(data, next(m) + 1, k)
        BY <2>1, <4>2
      <4>4. f[m] = <<At(data, m)>> \o f[next(m)]
        BY <1>1, <3>2
      <4>5. Section(f[m]) = Tlv(At(data, m)) \o Section(f[next(m)])
        BY <1>3, <4>1, <4>2, <4>4, SectionHead
      <4>6. SubSeq(data, m + 1, next(m)) \o SubSeq(data, next(m) + 1, k) = SubSeq(data, m + 1, k)
        <5>1. m + 1 \in 1 .. n + 1 /\ next(m) \in (m + 1) - 1 .. n /\ k \in next(m) .. n
          BY <1>0, <4>2
        <5> QED BY <1>0, <5>1, ConcatAdjacentSubSeq
      <4>7. Section(f[m]) = SubSeq(data, m + 1, k)
        BY <4>1, <4>3, <4>5, <4>6
      <4>8. k \in m .. n
        BY <1>0, <4>2
      <4> QED BY <4>7, <4>8
    <3> QED BY <3>1, <3>2
  <2>2. T \in SUBSET (0 .. n)
    OBVIOUS
  <2> HIDE DEF T, n
  <2> QED BY <1>0, <2>1, <2>2, Descend
<1>5. PICK k \in 0 .. n : Section(f[0]) = SubSeq(data, 0 + 1, k)
  BY <1>0, <1>4
<1>6. Section(Parse(data)) = SubSeq(data, 1, k)
  BY <1>1, <1>5
<1> QED BY <1>0, <1>1, <1>6

\* A slice of a sequence.
LEMMA Slice ==
  ASSUME NEW S, NEW s \in Seq(S), NEW p \in Nat, NEW k \in Nat, p + k <= Len(s)
  PROVE  /\ SubSeq(s, p + 1, p + k) \in Seq(S)
         /\ Len(SubSeq(s, p + 1, p + k)) = k
         /\ \A i \in 1 .. k : SubSeq(s, p + 1, p + k)[i] = s[p + i]
<1> DEFINE v == SubSeq(s, p + 1, p + k)
<1>1. p + 1 \in Int /\ p + k \in Int
  OBVIOUS
<1>2. \A i \in p + 1 .. p + k : s[i] \in S
  <2>1. \A i \in 1 .. Len(s) : s[i] \in S
    OBVIOUS
  <2>2. Len(s) \in Nat
    OBVIOUS
  <2>3. \A i \in p + 1 .. p + k : i \in 1 .. Len(s)
    BY <2>2
  <2> QED BY <2>1, <2>3
<1>3. /\ v \in Seq(S)
      /\ Len(v) = IF p + 1 <= p + k THEN (p + k) - (p + 1) + 1 ELSE 0
      /\ \A i \in 1 .. (p + k) - (p + 1) + 1 : v[i] = s[(p + 1) + i - 1]
  BY <1>1, <1>2, SubSeqProperties
<1> HIDE DEF v
<1>4. (p + k) - (p + 1) + 1 = k /\ (IF p + 1 <= p + k THEN (p + k) - (p + 1) + 1 ELSE 0) = k
  OBVIOUS
<1>5. \A i \in 1 .. k : (p + 1) + i - 1 = p + i
  OBVIOUS
<1>6. \A i \in 1 .. k : v[i] = s[p + i]
  BY <1>3, <1>4, <1>5
<1> QED BY <1>3, <1>4, <1>6 DEF v

\* Where an attribute is encoded, it is read.
LEMMA ReadBack ==
  ASSUME NEW data \in Seq(Nat), NEW pos \in 0 .. Len(data), NEW a \in Attribute, NEW rest \in Seq(Nat),
         SubSeq(data, pos + 1, Len(data)) = Tlv(a) \o rest
  PROVE  /\ ~Stops(data, pos) /\ At(data, pos) = a
         /\ pos + data[pos + 2] \in pos + 1 .. Len(data)
         /\ SubSeq(data, pos + data[pos + 2] + 1, Len(data)) = rest
<1> DEFINE l == Len(a[2])
           k == Len(rest)
           t == Tlv(a) \o rest
           v == Tlv(a)
<1>1. a = <<a[1], a[2]>> /\ a[2] \in Seq(Nat)
  BY DEF Attribute
<1>2. l \in Nat /\ k \in Nat /\ Len(data) \in Nat /\ pos \in Nat
  BY <1>1
<1>3. /\ v \in Seq(Nat) /\ Len(v) = l + 2
      /\ v[1] = a[1] /\ v[2] = l + 2
      /\ \A i \in 1 .. l : v[i + 2] = a[2][i]
  BY TlvProperties
<1> HIDE DEF l, k, v
<1>4. /\ Len(t) = (l + 2) + k
      /\ \A i \in 1 .. (l + 2) + k : t[i] = IF i <= l + 2 THEN v[i] ELSE rest[i - (l + 2)]
  <2>1. /\ Len(v \o rest) = Len(v) + Len(rest)
        /\ \A i \in 1 .. Len(v) + Len(rest) : (v \o rest)[i] = IF i <= Len(v) THEN v[i] ELSE rest[i - Len(v)]
    BY <1>3, ConcatProperties
  <2> QED BY <1>3, <2>1 DEF k, v
<1> HIDE DEF t
<1>5. Len(data) = pos + ((l + 2) + k) /\ \A i \in 1 .. (l + 2) + k : data[pos + i] = t[i]
  <2>1. PICK m \in Nat : Len(data) = pos + m
    <3>1. Len(data) - pos \in Nat /\ Len(data) = pos + (Len(data) - pos)
      BY <1>2
    <3> QED BY <3>1
  <2>2. pos + m <= Len(data)
    BY <1>2, <2>1
  <2>3. /\ Len(SubSeq(data, pos + 1, pos + m)) = m
        /\ \A i \in 1 .. m : SubSeq(data, pos + 1, pos + m)[i] = data[pos + i]
    <3>1. pos \in Nat
      BY <1>2
    <3> QED BY <2>2, <3>1, Slice, Zenon
  <2>4. SubSeq(data, pos + 1, pos + m) = t
    BY <2>1 DEF t
  <2>5. m = (l + 2) + k
    BY <1>4, <2>3, <2>4
  <2> QED BY <2>1, <2>3, <2>4, <2>5
<1>6. data[pos + 1] = a[1] /\ data[pos + 2] = l + 2
  <2>1. 1 \in 1 .. (l + 2) + k /\ 2 \in 1 .. (l + 2) + k /\ 1 <= l + 2 /\ 2 <= l + 2
    BY <1>2
  <2>2. data[pos + 1] = v[1] /\ data[pos + 2] = v[2]
    BY <1>4, <1>5, <2>1
  <2> QED BY <1>3, <2>2
<1>7. pos + (l + 2) \in pos + 1 .. Len(data)
  <2>1. Len(data) = pos + ((l + 2) + k)
    BY <1>5
  <2>2. \A n, p, q \in Nat : n = p + ((q + 2) + k) => p + (q + 2) \in p + 1 .. n
    BY <1>2
  <2> QED BY <1>2, <2>1, <2>2
<1>8. ~Stops(data, pos)
  <2>1. ~(pos + 2 > Len(data)) /\ ~(l + 2 < 2) /\ ~(pos + (l + 2) > Len(data))
    BY <1>2, <1>5
  <2> QED BY <1>6, <2>1 DEF Stops
<1>9. SubSeq(data, pos + 3, pos + (l + 2)) = a[2]
  <2>1. pos + 3 = (pos + 2) + 1 /\ pos + (l + 2) = (pos + 2) + l /\ pos + 2 \in Nat /\ (pos + 2) + l <= Len(data)
    BY <1>2, <1>5
  <2> DEFINE p == pos + 2
             u == SubSeq(data, p + 1, p + l)
  <2>2. \A i \in 1 .. l : p + i = pos + (i + 2) /\ i + 2 \in 1 .. (l + 2) + k /\ i + 2 <= l + 2
    BY <1>2
  <2> HIDE DEF p
  <2>3. p \in Nat /\ p + l <= Len(data)
    BY <2>1 DEF p
  <2>4. u \in Seq(Nat) /\ Len(u) = l /\ \A i \in 1 .. l : u[i] = data[p + i]
    BY <1>2, <2>3, Slice
  <2> HIDE DEF u
  <2>5. ASSUME NEW i \in 1 .. l PROVE u[i] = a[2][i]
    <3>1. u[i] = data[pos + (i + 2)]
      BY <2>2, <2>4
    <3>2. data[pos + (i + 2)] = t[i + 2] /\ t[i + 2] = v[i + 2]
      BY <1>4, <1>5, <2>2
    <3> QED BY <1>3, <3>1, <3>2
  <2>6. u = a[2]
    BY <1>1, <2>4, <2>5, SeqEqual DEF l
  <2> QED BY <2>1, <2>6 DEF u, p
<1>10. At(data, pos) = a
  BY <1>1, <1>6, <1>9 DEF At
<1>11. SubSeq(data, pos + (l + 2) + 1, Len(data)) = rest
  <2> DEFINE p == pos + (l + 2)
             u == SubSeq(data, p + 1, p + k)
  <2>1. p \in Nat /\ p + k <= Len(data) /\ Len(data) = p + k
    BY <1>2, <1>5
  <2>2. \A i \in 1 .. k : /\ p + i = pos + (i + (l + 2)) /\ i + (l + 2) \in 1 .. (l + 2) + k
                          /\ ~(i + (l + 2) <= l + 2) /\ i + (l + 2) - (l + 2) = i
    BY <1>2
  <2> HIDE DEF p
  <2>4. u \in Seq(Nat) /\ Len(u) = k /\ \A i \in 1 .. k : u[i] = data[p + i]
    BY <1>2, <2>1, Slice
  <2> HIDE DEF u
  <2>5. ASSUME NEW i \in 1 .. k PROVE u[i] = rest[i]
    <3>1. PICK j : j = i + (l + 2)
      OBVIOUS
    <3>2. u[i] = data[pos + j]
      BY <2>2, <2>4, <3>1
    <3>3. j \in 1 .. (l + 2) + k /\ ~(j <= l + 2) /\ j - (l + 2) = i
      BY <1>2, <3>1
    <3>4. data[pos + j] = t[j] /\ t[j] = rest[i]
      BY <1>4, <1>5, <3>3
    <3> QED BY <3>2, <3>4
  <2>6. u = rest
    BY <2>4, <2>5, SeqEqual DEF k
  <2> QED BY <2>1, <2>6 DEF u, p
<1> QED BY <1>6, <1>7, <1>8, <1>10, <1>11

\* What is encoded can be parsed.
LEMMA ParsedSection ==
  ASSUME NEW attributes \in Seq(Attribute)
  PROVE  Section(attributes) \in Seq(Nat) /\ Parse(Section(attributes)) = attributes
<1> DEFINE n == Len(attributes)
           tail(m) == SubSeq(attributes, m + 1, n)
           data == Section(attributes)
           next(pos) == pos + data[pos + 2]
<1>0. n \in Nat /\ 0 \in 0 .. n
  OBVIOUS
<1>1. Section(attributes) \in Seq(Nat)
  <2>1. <<0, <<>>>> \in Attribute
    <3>1. <<>> \in Seq(Nat)
      OBVIOUS
    <3> QED BY <3>1 DEF Attribute
  <2> QED BY <2>1, SectionHead
<1>2. tail(0) = attributes
  BY SubSeqFull
<1>3. tail(n) = <<>>
  <2>1. n + 1 \in Int /\ n \in Int /\ n < n + 1
    BY <1>0
  <2> HIDE DEF n
  <2> QED BY <2>1, SubSeqEmpty
<1>4. \A m \in 0 .. n : tail(m) \in Seq(Attribute)
  <2> TAKE m \in 0 .. n
  <2>1. \A i \in m + 1 .. n : attributes[i] \in Attribute
    <3>1. \A i \in 1 .. n : attributes[i] \in Attribute
      OBVIOUS
    <3>2. \A i \in m + 1 .. n : i \in 1 .. n
      BY <1>0
    <3> QED BY <3>1, <3>2
  <2>2. m + 1 \in Int /\ n \in Int
    BY <1>0
  <2> HIDE DEF n
  <2> QED BY <2>1, <2>2, SubSeqProperties
<1>5. \A m \in 0 .. n : m # n => /\ m + 1 \in 0 .. n /\ attributes[m + 1] \in Attribute
                                 /\ tail(m) = <<attributes[m + 1]>> \o tail(m + 1)
  <2> TAKE m \in 0 .. n
  <2>1. SUFFICES ASSUME m # n
                 PROVE  /\ m + 1 \in 0 .. n /\ attributes[m + 1] \in Attribute
                        /\ tail(m) = <<attributes[m + 1]>> \o tail(m + 1)
    OBVIOUS
  <2>2. m + 1 \in 1 .. n /\ n \in m + 1 .. n /\ m + 1 \in 0 .. n
    BY <1>0, <2>1
  <2>3. attributes[m + 1] \in Attribute
    BY <2>2
  <2>4. SubSeq(attributes, m + 1, n) = <<attributes[m + 1]>> \o SubSeq(attributes, (m + 1) + 1, n)
    BY <2>2, SubSeqRecursiveFirst
  <2> QED BY <2>2, <2>3, <2>4
<1> HIDE DEF n, tail, data
<1>6. data \in Seq(Nat) /\ Len(data) \in Nat /\ 0 \in 0 .. Len(data)
  BY <1>1 DEF data
<1>7. PICK f \in [0 .. Len(data) -> Seq(Nat \X Seq(Nat))] :
           /\ \A pos \in 0 .. Len(data) :
                f[pos] = IF Stops(data, pos) THEN <<>> ELSE <<At(data, pos)>> \o f[next(pos)]
           /\ Parse(data) = f[0]
  BY <1>6, Parsing
<1> DEFINE T == {m \in 0 .. n : \A pos \in 0 .. Len(data) :
                    SubSeq(data, pos + 1, Len(data)) = Section(tail(m)) => f[pos] = tail(m)}
<1>8. T = 0 .. n
  <2>1. ASSUME NEW m \in 0 .. n, \A k \in m + 1 .. n : k \in T PROVE m \in T
    <3> SUFFICES ASSUME NEW pos \in 0 .. Len(data), SubSeq(data, pos + 1, Len(data)) = Section(tail(m))
                 PROVE  f[pos] = tail(m)
      OBVIOUS
    <3>1. CASE m = n
      <4>1. SubSeq(data, pos + 1, Len(data)) = <<>>
        BY <1>3, <3>1, SectionEmpty
      <4>2. pos + 2 > Len(data)
        <5>1. CASE pos + 2 > Len(data)
          BY <5>1
        <5>2. CASE ~(pos + 2 > Len(data))
          <6>1. pos + 1 \in Int /\ Len(data) \in Int /\ pos + 1 <= Len(data)
            BY <1>6, <5>2
          <6>2. \A i \in pos + 1 .. Len(data) : data[i] \in Nat
            <7>1. \A i \in pos + 1 .. Len(data) : i \in 1 .. Len(data)
              BY <1>6
            <7> QED BY <1>6, <7>1
          <6>3. Len(SubSeq(data, pos + 1, Len(data))) = Len(data) - (pos + 1) + 1
            BY <6>1, <6>2, SubSeqProperties
          <6>4. Len(data) - (pos + 1) + 1 # 0
            BY <1>6, <5>2
          <6>5. Len(<<>>) = 0
            OBVIOUS
          <6> QED BY <4>1, <6>3, <6>4, <6>5
        <5> QED BY <5>1, <5>2
      <4>3. f[pos] = <<>>
        BY <1>7, <4>2 DEF Stops
      <4> QED BY <1>3, <3>1, <4>3
    <3>2. CASE m # n
      <4> DEFINE a == attributes[m + 1]
                 rest == Section(tail(m + 1))
      <4>1. m + 1 \in 0 .. n /\ a \in Attribute /\ tail(m) = <<a>> \o tail(m + 1)
        BY <1>5, <3>2
      <4>2. tail(m + 1) \in Seq(Attribute)
        BY <1>4, <4>1
      <4>3. rest \in Seq(Nat) /\ Section(tail(m)) = Tlv(a) \o rest
        BY <4>1, <4>2, SectionHead
      <4> HIDE DEF a, rest
      <4>4. SubSeq(data, pos + 1, Len(data)) = Tlv(a) \o rest
        BY <4>3
      <4>5. /\ ~Stops(data, pos) /\ At(data, pos) = a
            /\ next(pos) \in pos + 1 .. Len(data)
            /\ SubSeq(data, next(pos) + 1, Len(data)) = rest
        <5>1. /\ ~Stops(data, pos) /\ At(data, pos) = a
              /\ pos + data[pos + 2] \in pos + 1 .. Len(data)
              /\ SubSeq(data, pos + data[pos + 2] + 1, Len(data)) = rest
          <6>1. a \in Attribute /\ rest \in Seq(Nat)
            BY <4>1, <4>3
          <6>2. data \in Seq(Nat) /\ pos \in 0 .. Len(data)
            BY <1>6
          <6> HIDE DEF T, next
          <6> QED BY <4>4, <6>1, <6>2, ReadBack
        <5> QED BY <5>1
      <4> HIDE DEF next
      <4>6. next(pos) \in 0 .. Len(data)
        BY <1>6, <4>5
      <4>7. m + 1 \in T
        <5>1. m + 1 \in m + 1 .. n
          BY <1>0, <4>1
        <5> QED BY <2>1, <5>1
      <4>8. f[next(pos)] = tail(m + 1)
        BY <4>5, <4>6, <4>7 DEF rest
      <4>9. f[pos] = <<At(data, pos)>> \o f[next(pos)]
        BY <1>7, <4>5
      <4> QED BY <4>1, <4>5, <4>8, <4>9
    <3> QED BY <3>1, <3>2
  <2>2. T \in SUBSET (0 .. n)
    OBVIOUS
  <2> HIDE DEF T
  <2> QED BY <1>0, <2>1, <2>2, Descend
<1>9. SubSeq(data, 0 + 1, Len(data)) = Section(tail(0))
  <2>1. SubSeq(data, 1, Len(data)) = data
    BY <1>6, SubSeqFull
  <2> QED BY <1>2, <2>1 DEF data
<1>10. f[0] = tail(0)
  BY <1>0, <1>6, <1>8, <1>9
<1>11. Parse(data) = attributes
  BY <1>2, <1>7, <1>10
<1> QED BY <1>1, <1>11 DEF data

-----------------------------------------------------------------------------
(* What decode() makes of a datagram.                                        *)

\* Division by 256, as struct.pack makes bytes of a number.
LEMMA Quotients ==
  \A q \in Nat : \A r \in 0 .. 255 : (256 * q + r) \div 256 = q /\ (256 * q + r) % 256 = r
OBVIOUS

\* The four bytes of a number read from four bytes are these bytes.
LEMMA WordOfBytes ==
  ASSUME NEW a \in Byte, NEW b \in Byte, NEW c \in Byte, NEW d \in Byte
  PROVE  Word(256 * (256 * (256 * a + b) + c) + d) = <<a, b, c, d>>
<1>0. a \in 0 .. 255 /\ b \in 0 .. 255 /\ c \in 0 .. 255 /\ d \in 0 .. 255
  BY DEF Byte
<1> DEFINE k == 256 * a + b
           m == 256 * k + c
           n == 256 * m + d
<1>1. a \in Nat /\ k \in Nat /\ m \in Nat
  BY <1>0
<1>2. k \div 256 = a /\ k % 256 = b
  <2>1. a \in Nat /\ b \in 0 .. 255
    BY <1>0, <1>1
  <2> QED BY <2>1, Quotients
<1> HIDE DEF k
<1>3. m \div 256 = k /\ m % 256 = c
  <2>1. k \in Nat /\ c \in 0 .. 255
    BY <1>0, <1>1
  <2> QED BY <2>1, Quotients
<1> HIDE DEF m
<1>4. n \div 256 = m /\ n % 256 = d
  <2>1. m \in Nat /\ d \in 0 .. 255
    BY <1>0, <1>1
  <2> QED BY <2>1, Quotients
<1> HIDE DEF n
<1>5. Word(n) = <<a, b, c, d>>
  BY <1>2, <1>3, <1>4 DEF Word
<1> QED BY <1>5 DEF n, m, k

\* What decode() makes of a datagram.
LEMMA Decoded ==
  ASSUME NEW data \in Seq(Byte), ~TooShort(data)
  PROVE  Decode(data).attributes \in Seq(Byte \X Seq(Byte))
<1> DEFINE length == 256 * data[3] + data[4]
           end == IF length < Len(data) THEN length ELSE Len(data)
           body == SubSeq(data, 21, end)
<1>1. Len(data) \in Nat /\ Len(data) >= 20 /\ \A i \in 1 .. Len(data) : data[i] \in Byte
  BY DEF TooShort
<1>2. data[3] \in 0 .. 255 /\ data[4] \in 0 .. 255
  BY <1>1 DEF Byte
<1>3. end \in Int /\ end <= Len(data)
  <2>1. length \in Int
    <3>1. PICK x \in 0 .. 255 : x = data[3]
      BY <1>2
    <3>2. PICK y \in 0 .. 255 : y = data[4]
      BY <1>2
    <3>3. length = 256 * x + y
      BY <3>1, <3>2
    <3> HIDE DEF length
    <3>4. 256 * x + y \in Int
      OBVIOUS
    <3> QED BY <3>3, <3>4
  <2> HIDE DEF length
  <2> QED BY <1>1, <2>1
<1> HIDE DEF end
<1>4. body \in Seq(Byte)
  <2>1. \A i \in 21 .. end : data[i] \in Byte
    BY <1>1, <1>3
  <2> QED BY <1>3, <2>1, SubSeqProperties
<1>5. Decode(data).attributes = Parse(body)
  BY DEF Decode, end
<1> HIDE DEF body
<1>6. Byte \in SUBSET Nat
  BY DEF Byte
<1> QED BY <1>4, <1>5, <1>6, ParsedPrefix

\* A datagram is read up to where it is malformed, and only a whole
\* Error-Cause is reported, whatever bytes arrive.
THEOREM NothingIsMisread == Functions => []NothingMisread
<1>1. ASSUME Supplied PROVE NothingMisread
  <2>1. SUFFICES ASSUME asked = "datagram"
                 PROVE  /\ IsPrefix(Section(Parse(test)), test)
                        /\ ~TooShort(test) =>
                             LET p == Decode(test) IN
                             Cause(p) # 0 => \E i \in DOMAIN p.attributes :
                                               /\ p.attributes[i][1] = ErrorCause
                                               /\ IsPrefix(Word(Cause(p)), p.attributes[i][2])
    BY DEF NothingMisread
  <2>2. test \in Seq(Byte) /\ Len(test) \in Nat
    BY <1>1, <2>1, Supply, DatagramsAssumption
  <2>3. IsPrefix(Section(Parse(test)), test)
    <3>0. Byte \in SUBSET Nat
      BY DEF Byte
    <3>1. PICK n \in 0 .. Len(test) : Section(Parse(test)) = SubSeq(test, 1, n)
      BY <2>2, <3>0, ParsedPrefix
    <3> DEFINE s == SubSeq(test, 1, n)
    <3>2. s \in Seq(Byte) /\ Len(s) = n
      <4>1. n \in Nat /\ 0 \in Nat /\ 0 + n <= Len(test) /\ 0 + 1 = 1 /\ 0 + n = n
        BY <2>2
      <4>2. /\ SubSeq(test, 0 + 1, 0 + n) \in Seq(Byte)
            /\ Len(SubSeq(test, 0 + 1, 0 + n)) = n
        BY <2>2, <4>1, Slice
      <4> QED BY <4>1, <4>2
    <3> HIDE DEF s
    <3>3. SubSeq(s, 1, Len(s)) = s
      BY <3>2, SubSeqFull
    <3>4. Len(s) <= Len(test)
      BY <2>2, <3>2
    <3>5. IsPrefix(s, test)
      BY <3>2, <3>3, <3>4 DEF IsPrefix, s
    <3> QED BY <3>1, <3>5 DEF s
  <2>4. ASSUME ~TooShort(test), NEW p, p = Decode(test), Cause(p) # 0
        PROVE  \E i \in DOMAIN p.attributes :
                 /\ p.attributes[i][1] = ErrorCause
                 /\ IsPrefix(Word(Cause(p)), p.attributes[i][2])
    <3> DEFINE as == p.attributes
               found == {i \in DOMAIN as : as[i][1] = ErrorCause /\ Len(as[i][2]) >= 4}
               i == CHOOSE j \in found : \A k \in found : j <= k
               first == as[i][2]
    <3>1. as \in Seq(Byte \X Seq(Byte))
      BY <2>2, <2>4, Decoded
    <3>2. Cause(p) = IF found = {} THEN 0
                     ELSE 256 * (256 * (256 * first[1] + first[2]) + first[3]) + first[4]
      BY DEF Cause
    <3>3. DOMAIN as = 1 .. Len(as) /\ Len(as) \in Nat /\ \A k \in DOMAIN as : as[k] \in Byte \X Seq(Byte)
      <4> DEFINE Read == Byte \X Seq(Byte)
      <4>1. as \in Seq(Read)
        BY <3>1
      <4> HIDE DEF as, Read
      <4>2. DOMAIN as = 1 .. Len(as) /\ Len(as) \in Nat /\ \A k \in DOMAIN as : as[k] \in Read
        <5>1. as \in [1 .. Len(as) -> Read] /\ DOMAIN as = 1 .. Len(as) /\ Len(as) \in Nat
          BY <4>1, LenProperties
        <5> QED BY <5>1
      <4> QED BY <4>2 DEF Read
    <3> HIDE DEF as
    <3>4. found # {}
      BY <2>4, <3>2
    <3>5. i \in found
      <4>1. found \in SUBSET Nat
        <5>1. \A k \in found : k \in DOMAIN as
          OBVIOUS
        <5>2. \A k \in DOMAIN as : k \in Nat
          BY <3>3
        <5> HIDE DEF found
        <5> QED BY <5>1, <5>2
      <4> HIDE DEF found
      <4> QED BY <3>4, <4>1, Least
    <3> HIDE DEF i
    <3>6. i \in DOMAIN as /\ as[i][1] = ErrorCause /\ Len(first) >= 4
      BY <3>5
    <3>7. first \in Seq(Byte)
      BY <3>3, <3>6
    <3> HIDE DEF first, found
    <3>8. Len(first) \in Nat /\ \A k \in 1 .. 4 : first[k] \in Byte
      BY <3>6, <3>7
    <3>9. Word(Cause(p)) = <<first[1], first[2], first[3], first[4]>>
      <4>1. first[1] \in Byte /\ first[2] \in Byte /\ first[3] \in Byte /\ first[4] \in Byte
        BY <3>8
      <4>2. PICK a \in Byte, b \in Byte, c \in Byte, d \in Byte :
              a = first[1] /\ b = first[2] /\ c = first[3] /\ d = first[4]
        BY <4>1
      <4>3. Cause(p) = 256 * (256 * (256 * a + b) + c) + d
        BY <3>2, <3>4, <4>2
      <4>4. Word(256 * (256 * (256 * a + b) + c) + d) = <<a, b, c, d>>
        BY WordOfBytes
      <4>5. Word(Cause(p)) = <<a, b, c, d>>
        BY <4>3, <4>4, Zenon
      <4> QED BY <4>2, <4>5
    <3>10. IsPrefix(Word(Cause(p)), first)
      <4> DEFINE w == <<first[1], first[2], first[3], first[4]>>
                 u == SubSeq(first, 0 + 1, 0 + 4)
      <4>1. w \in Seq(Byte) /\ Len(w) = 4 /\ \A k \in 1 .. 4 : w[k] = first[k]
        BY <3>8
      <4>2. u \in Seq(Byte) /\ Len(u) = 4 /\ \A k \in 1 .. 4 : u[k] = first[0 + k]
        <5>1. 0 \in Nat /\ 4 \in Nat /\ 0 + 4 <= Len(first)
          BY <3>6
        <5> QED BY <3>7, <5>1, Slice
      <4>3. u = SubSeq(first, 1, 4) /\ \A k \in 1 .. 4 : 0 + k = k
        OBVIOUS
      <4> HIDE DEF w, u
      <4>4. w = u
        BY <4>1, <4>2, <4>3, SeqEqual
      <4>5. SubSeq(w, 1, Len(w)) = w
        BY <4>1, SubSeqFull
      <4>6. IsPrefix(w, first)
        BY <3>6, <4>1, <4>3, <4>4, <4>5 DEF IsPrefix
      <4> QED BY <3>9, <4>6 DEF w
    <3> QED BY <3>6, <3>10 DEF first, as
  <2> QED BY <2>3, <2>4
<1> QED BY <1>1, InputKept, PTL

-----------------------------------------------------------------------------
(* What a manager sends.                                                     *)

\* Attributes whose values are bytes, unless they are too long to be encoded.
Fit == {a \in Attribute : Len(a[2]) <= 253 => a[2] \in Seq(Byte)}

\* The calls of a manager, and what it builds for them.
Calls == [do : {"disconnect", "reauthenticate", "vlan_change", "apply_acl"}, id : Byte, vendor : STRING,
          sid : Seq(Byte), mac : Seq(Byte), value : Seq(Byte)]
Built == [code : Nat, id : Byte, attributes : Seq(Fit)]

\* A byte as a word.
LEMMA SmallWord ==
  ASSUME NEW n \in 0 .. 255
  PROVE  Word(n) = <<0, 0, 0, n>>
<1>1. n \div 256 = 0 /\ n % 256 = n
  <2>1. (256 * 0 + n) \div 256 = 0 /\ (256 * 0 + n) % 256 = n
    BY Quotients
  <2>2. 256 * 0 + n = n
    OBVIOUS
  <2> QED BY <2>1, <2>2
<1>2. 0 \div 256 = 0 /\ 0 % 256 = 0
  OBVIOUS
<1> QED BY <1>1, <1>2 DEF Word

\* Its bytes.
LEMMA WordBytes ==
  ASSUME NEW n \in 0 .. 255
  PROVE  Word(n) \in Seq(Byte) /\ Len(Word(n)) = 4
<1>1. 0 \in Byte /\ n \in Byte
  BY DEF Byte
<1>2. <<0, 0, 0, n>> \in Seq(Byte) /\ Len(<<0, 0, 0, n>>) = 4
  BY <1>1
<1> QED BY <1>2, SmallWord

\* A type and the bytes of a value.
LEMMA BytesFit ==
  ASSUME NEW type \in Nat, NEW value \in Seq(Byte)
  PROVE  <<type, value>> \in Fit /\ << <<type, value>> >> \in Seq(Fit) /\ OptionalAttr(type, value) \in Seq(Fit)
<1>1. Byte \in SUBSET Nat
  BY DEF Byte
<1>2. value \in Seq(Nat)
  BY <1>1, SeqMonotonic
<1>3. <<type, value>> \in Fit
  BY <1>2 DEF Fit, Attribute
<1>4. << <<type, value>> >> \in Seq(Fit) /\ <<>> \in Seq(Fit)
  BY <1>3
<1> QED BY <1>3, <1>4 DEF OptionalAttr

\* Two byte strings after each other.
LEMMA Joined ==
  ASSUME NEW S, NEW u \in Seq(S), NEW v \in Seq(S)
  PROVE  u \o v \in Seq(S) /\ Len(u) \in Nat /\ Len(v) \in Nat /\ Len(u \o v) = Len(u) + Len(v)
OBVIOUS

\* A Cisco pair short enough to be encoded has a length that is a byte.
LEMMA PairFits ==
  ASSUME NEW pair \in Seq(Byte)
  PROVE  CiscoPair(pair) \in Seq(Fit)
<1> DEFINE word == Word(CiscoVendor)
           inner == <<CiscoAvPair, Len(pair) + 2>>
           value == word \o inner \o pair
<1>0. Byte \in SUBSET Nat /\ 1 \in Byte
  BY DEF Byte
<1>1. Len(pair) \in Nat /\ pair \in Seq(Nat)
  <2>1. pair \in Seq(Nat)
    BY <1>0, SeqMonotonic
  <2> QED BY <2>1
<1>2. word \in Seq(Byte) /\ word \in Seq(Nat) /\ Len(word) = 4
  <2>1. word \in Seq(Byte) /\ Len(word) = 4
    BY WordBytes DEF CiscoVendor
  <2> HIDE DEF word
  <2> QED BY <1>0, <2>1, SeqMonotonic
<1>3. inner \in Seq(Nat) /\ Len(inner) = 2
  BY <1>1 DEF CiscoAvPair
<1>4. Len(pair) + 2 \in Byte => inner \in Seq(Byte)
  BY <1>0 DEF CiscoAvPair
<1> HIDE DEF word, inner
<1>5. value \in Seq(Nat) /\ Len(value) = 6 + Len(pair)
  <2>1. word \o inner \in Seq(Nat) /\ Len(word \o inner) = 6
    <3>1. word \o inner \in Seq(Nat) /\ Len(word \o inner) = Len(word) + Len(inner)
      BY <1>2, <1>3, Joined, Zenon
    <3>2. 4 + 2 = 6
      OBVIOUS
    <3> QED BY <1>2, <1>3, <3>1, <3>2, Zenon
  <2>2. value \in Seq(Nat) /\ Len(value) = Len(word \o inner) + Len(pair)
    BY <1>1, <2>1, Joined, Zenon
  <2> QED BY <2>1, <2>2, Zenon
<1>6. ASSUME Len(value) <= 253 PROVE value \in Seq(Byte)
  <2>1. Len(pair) + 2 \in Byte
    <3> DEFINE n == Len(pair)  l == Len(value)
    <3>1. n \in Nat /\ l = 6 + n /\ l <= 253
      BY <1>1, <1>5, <1>6
    <3> HIDE DEF n, l
    <3>2. n + 2 \in Byte
      BY <3>1 DEF Byte
    <3> QED BY <3>2 DEF n
  <2>2. word \o inner \in Seq(Byte)
    BY <1>2, <1>4, <2>1
  <2> QED BY <2>2
<1> HIDE DEF value
<1>7. <<VendorSpecific, value>> \in Fit
  BY <1>5, <1>6 DEF Fit, Attribute, VendorSpecific
<1>8. << <<VendorSpecific, value>> >> \in Seq(Fit)
  BY <1>7
<1> QED BY <1>8 DEF CiscoPair, value, word, inner

\* The three attributes of a VLAN.
LEMMA TunnelFits ==
  ASSUME NEW vlan \in Seq(Byte)
  PROVE  TunnelVlan(vlan) \in Seq(Fit)
<1>0. <<0>> \in Seq(Byte) /\ Len(<<0>>) = 1
  BY DEF Byte
<1>1. \A n \in 0 .. 255 : Tagged(0, n) \in Seq(Byte)
  <2> TAKE n \in 0 .. 255
  <2> DEFINE word == Word(n)
             t == <<0>> \o word
  <2>1. word \in Seq(Byte) /\ Len(word) = 4
    BY WordBytes
  <2> HIDE DEF word
  <2>2. t \in Seq(Byte) /\ Len(t) = 5
    <3>1. t \in Seq(Byte) /\ Len(t) = Len(<<0>>) + Len(word)
      BY <1>0, <2>1, Joined, Zenon
    <3>2. 1 + 4 = 5
      OBVIOUS
    <3> QED BY <1>0, <2>1, <3>1, <3>2, Zenon
  <2> HIDE DEF t
  <2>3. SubSeq(t, 0 + 1, 0 + 4) \in Seq(Byte)
    <3>1. 0 \in Nat /\ 4 \in Nat /\ 0 + 4 <= Len(t)
      BY <2>2
    <3> QED BY <2>2, <3>1, Slice
  <2>4. 0 + 1 = 1 /\ 0 + 4 = 4
    OBVIOUS
  <2>5. SubSeq(t, 1, 4) \in Seq(Byte)
    BY <2>3, <2>4
  <2> QED BY <2>5 DEF Tagged, t, word
<1>2. <<0>> \o vlan \in Seq(Byte) /\ Tagged(0, 13) \in Seq(Byte) /\ Tagged(0, 6) \in Seq(Byte)
  BY <1>0, <1>1
<1>3. /\ <<TunnelType, Tagged(0, 13)>> \in Fit
      /\ <<TunnelMedium, Tagged(0, 6)>> \in Fit
      /\ <<TunnelGroup, <<0>> \o vlan>> \in Fit
  <2>1. TunnelType \in Nat /\ TunnelMedium \in Nat /\ TunnelGroup \in Nat
    BY DEF TunnelType, TunnelMedium, TunnelGroup
  <2> QED BY <1>2, <2>1, BytesFit
<1> QED BY <1>3 DEF TunnelVlan

\* The identifier wraps.
LEMMA NextIdByte == \A id \in Byte : NextId(id) \in Byte
BY DEF NextId, Byte

\* Every request is a packet of attributes that fit, unless they are too long.
LEMMA RequestFits ==
  ASSUME NEW c \in Calls
  PROVE  Request(c) \in Built
<1>1. /\ c.do \in {"disconnect", "reauthenticate", "vlan_change", "apply_acl"}
      /\ c.id \in Byte /\ c.sid \in Seq(Byte) /\ c.mac \in Seq(Byte) /\ c.value \in Seq(Byte)
  BY DEF Calls
<1>2. \A code \in Nat : \A attributes \in Seq(Fit) : Packet(code, c.id, attributes) \in Built
  BY <1>1, NextIdByte DEF Packet, Built
<1>3. DisconnectRequest \in Nat /\ CoaRequest \in Nat
  BY DEF DisconnectRequest, CoaRequest
<1>4. OptionalAttr(AcctSession, c.sid) \in Seq(Fit) /\ OptionalAttr(CallingStation, c.mac) \in Seq(Fit)
  BY <1>1, BytesFit DEF AcctSession, CallingStation
<1>5. Reauthenticate \in Seq(Byte) /\ AuditSession \o c.sid \in Seq(Byte) /\ DefinedAcl \o c.value \in Seq(Byte)
  <2>1. Reauthenticate \in Seq(Byte) /\ AuditSession \in Seq(Byte) /\ DefinedAcl \in Seq(Byte)
    BY WordsAssumption
  <2> QED BY <1>1, <2>1
<1>6. /\ CiscoPair(Reauthenticate) \in Seq(Fit)
      /\ CiscoPair(AuditSession \o c.sid) \in Seq(Fit)
      /\ CiscoPair(DefinedAcl \o c.value) \in Seq(Fit)
  BY <1>5, PairFits
<1>7. << <<ServiceType, Word(17)>> >> \in Seq(Fit) /\ << <<FilterId, c.value>> >> \in Seq(Fit)
  <2>1. ServiceType \in Nat /\ FilterId \in Nat /\ Word(17) \in Seq(Byte)
    BY WordBytes DEF ServiceType, FilterId
  <2> QED BY <1>1, <2>1, BytesFit
<1>8. TunnelVlan(c.value) \in Seq(Fit) /\ <<>> \in Seq(Fit)
  BY <1>1, TunnelFits
<1>9. \A u, v \in Seq(Fit) : u \o v \in Seq(Fit)
  OBVIOUS
<1>10. Session(c.sid, c.mac) \in Seq(Fit)
  BY <1>4, <1>9 DEF Session
<1>11. CASE c.do = "disconnect"
  <2>1. Disconnect(c.id, c.sid, c.mac) \in Built
    BY <1>2, <1>3, <1>10 DEF Disconnect
  <2> QED BY <1>11, <2>1 DEF Request
<1>12. CASE c.do = "reauthenticate"
  <2>1. Reauthentication(c.id, c.sid, c.mac, c.vendor) \in Built
    BY <1>2, <1>3, <1>6, <1>7, <1>9, <1>10 DEF Reauthentication
  <2> QED BY <1>12, <2>1 DEF Request
<1>13. CASE c.do = "vlan_change"
  <2>1. VlanChange(c.id, c.sid, c.mac, c.vendor, c.value) \in Built
    BY <1>2, <1>3, <1>6, <1>8, <1>9, <1>10 DEF VlanChange
  <2> QED BY <1>13, <2>1 DEF Request
<1>14. CASE c.do = "apply_acl"
  <2>1. AclChange(c.id, c.sid, c.mac, c.value) \in Built
    BY <1>2, <1>3, <1>6, <1>7, <1>9, <1>10 DEF AclChange
  <2> QED BY <1>14, <2>1 DEF Request
<1> QED BY <1>1, <1>11, <1>12, <1>13, <1>14

\* What follows a sequence.
LEMMA Rest ==
  ASSUME NEW u \in Seq(Nat), NEW v \in Seq(Nat)
  PROVE  SubSeq(u \o v, Len(u) + 1, Len(u \o v)) = v
<1> DEFINE c == Len(u)  k == Len(v)  data == u \o v  w == SubSeq(data, c + 1, c + k)
<1>1. c \in Nat /\ k \in Nat
  OBVIOUS
<1>2. data \in Seq(Nat) /\ Len(data) = c + k
  OBVIOUS
<1>3. \A i \in 1 .. c + k : data[i] = IF i <= c THEN u[i] ELSE v[i - c]
  OBVIOUS
<1> HIDE DEF c, k, data
<1>4. c + k <= Len(data)
  BY <1>1, <1>2
<1>5. w \in Seq(Nat) /\ Len(w) = k /\ \A i \in 1 .. k : w[i] = data[c + i]
  BY <1>1, <1>2, <1>4, Slice
<1> HIDE DEF w
<1>6. ASSUME NEW i \in 1 .. k PROVE w[i] = v[i]
  <2>1. PICK j : j = c + i
    OBVIOUS
  <2>2. j \in 1 .. c + k /\ ~(j <= c) /\ j - c = i
    BY <1>1, <2>1
  <2> QED BY <1>3, <1>5, <2>1, <2>2
<1>7. w = v
  BY <1>5, <1>6, SeqEqual DEF k
<1> QED BY <1>2, <1>7 DEF w, c, data

\* The parts of a packet are where decode() looks for them.
LEMMA Encoded ==
  ASSUME NEW p \in Built, NEW md \in [1 .. 16 -> Byte], NEW data,
         data = Preamble(p) \o md \o Section(p.attributes)
  PROVE  /\ data[1] = p.code /\ data[2] = p.id
         /\ 256 * data[3] + data[4] = Len(data)
         /\ SubSeq(data, 21, Len(data)) = Section(p.attributes)
         /\ Len(data) \in Nat
<1> DEFINE body == Section(p.attributes)
           k == Len(body)
           n == 20 + k
           head == Preamble(p)
           q == n \div 256
           r == n % 256
<1>1. p.code \in Nat /\ p.id \in Nat /\ p.attributes \in Seq(Attribute)
  <2>1. p.code \in Nat /\ p.id \in Byte /\ p.attributes \in Seq(Fit)
    BY DEF Built
  <2>2. Fit \in SUBSET Attribute /\ Byte \in SUBSET Nat
    BY DEF Fit, Byte
  <2> HIDE DEF Fit
  <2>3. p.attributes \in Seq(Attribute)
    BY <2>1, <2>2, SeqMonotonic
  <2> QED BY <2>1, <2>2, <2>3
<1>2. body \in Seq(Nat) /\ k \in Nat
  <2>1. body \in Seq(Nat)
    BY <1>1, ParsedSection
  <2> HIDE DEF body
  <2> QED BY <2>1
<1>3. head = <<p.code, p.id, q, r>>
  BY DEF Preamble
<1>4. data = head \o md \o body
  OBVIOUS
<1> HIDE DEF body, head
<1>5. n \in Nat
  BY <1>2
<1> HIDE DEF k
<1>6. q \in Nat /\ r \in Nat /\ 256 * q + r = n
  <2> HIDE DEF n
  <2> QED BY <1>5
<1>7. n = 20 + k
  OBVIOUS
<1> HIDE DEF n, q, r
<1>8. /\ head \in Seq(Nat) /\ Len(head) = 4
      /\ head[1] = p.code /\ head[2] = p.id /\ head[3] = q /\ head[4] = r
  BY <1>1, <1>3, <1>6
<1>9. md \in Seq(Nat) /\ Len(md) = 16
  <2>1. \A i \in 1 .. 16 : md[i] \in Nat
    <3>1. \A i \in 1 .. 16 : md[i] \in Byte
      OBVIOUS
    <3>2. Byte \in SUBSET Nat
      BY DEF Byte
    <3> QED BY <3>1, <3>2
  <2>2. DOMAIN md = 1 .. 16 /\ md = [i \in 1 .. 16 |-> md[i]]
    OBVIOUS
  <2> QED BY <2>1, <2>2
<1> DEFINE top == head \o md
<1>10. /\ top \in Seq(Nat) /\ Len(top) = 20
       /\ \A i \in 1 .. 4 : top[i] = head[i]
  <2>1. /\ top \in Seq(Nat)
        /\ Len(top) = Len(head) + Len(md)
        /\ \A i \in 1 .. Len(head) + Len(md) : top[i] = IF i <= Len(head) THEN head[i] ELSE md[i - Len(head)]
    BY <1>8, <1>9, ConcatProperties
  <2> HIDE DEF top
  <2> QED BY <1>8, <1>9, <2>1
<1> HIDE DEF top
<1>11. /\ data \in Seq(Nat) /\ Len(data) = 20 + k
       /\ \A i \in 1 .. 20 + k : data[i] = IF i <= 20 THEN top[i] ELSE body[i - 20]
  <2>1. /\ top \o body \in Seq(Nat)
        /\ Len(top \o body) = Len(top) + Len(body)
        /\ \A i \in 1 .. Len(top) + Len(body) : (top \o body)[i] = IF i <= Len(top) THEN top[i] ELSE body[i - Len(top)]
    BY <1>2, <1>10, ConcatProperties
  <2>2. data = top \o body
    BY <1>4 DEF top
  <2> QED BY <1>10, <2>1, <2>2 DEF k
<1>12. k \in Nat
  BY <1>2 DEF k
<1>13. data[1] = p.code /\ data[2] = p.id /\ data[3] = q /\ data[4] = r
  <2>1. \A i \in 1 .. 4 : data[i] = top[i]
    <3> TAKE i \in 1 .. 4
    <3>1. i \in 1 .. 20 + k /\ i <= 20
      BY <1>12
    <3> QED BY <1>11, <3>1, Zenon
  <2>2. 1 \in 1 .. 4 /\ 2 \in 1 .. 4 /\ 3 \in 1 .. 4 /\ 4 \in 1 .. 4
    OBVIOUS
  <2> QED BY <1>8, <1>10, <2>1, <2>2
<1>14. 256 * data[3] + data[4] = Len(data)
  <2>1. 256 * data[3] + data[4] = 256 * q + r
    BY <1>13
  <2> QED BY <1>6, <1>7, <1>11, <2>1
<1>15. SubSeq(data, 21, Len(data)) = body
  <2>1. SubSeq(top \o body, Len(top) + 1, Len(top \o body)) = body
    BY <1>2, <1>10, Rest, Zenon
  <2>2. Len(top) + 1 = 21
    BY <1>10
  <2>3. top \o body = data
    BY <1>4 DEF top
  <2> QED BY <2>1, <2>2, <2>3, Zenon
<1>16. Len(data) \in Nat
  BY <1>11, <1>12
<1> QED BY <1>13, <1>14, <1>15, <1>16 DEF body

\* The attributes of a sequence of attributes.
LEMMA Attributes ==
  ASSUME NEW u \in Seq(Fit), NEW v \in Seq(Fit)
  PROVE  /\ u \o v \in Seq(Fit) /\ ToSet(u) \cup ToSet(v) \subseteq ToSet(u \o v)
         /\ \A type, value : value # <<>> => <<type, value>> \in ToSet(OptionalAttr(type, value))
<1>1. u \o v \in Seq(Fit) /\ Len(u) \in Nat /\ Len(v) \in Nat /\ Len(u \o v) = Len(u) + Len(v)
  BY Joined
<1>2. \A i \in 1 .. Len(u) + Len(v) : (u \o v)[i] = IF i <= Len(u) THEN u[i] ELSE v[i - Len(u)]
  BY ConcatProperties
<1>3. DOMAIN u = 1 .. Len(u) /\ DOMAIN v = 1 .. Len(v) /\ DOMAIN (u \o v) = 1 .. Len(u) + Len(v)
  BY <1>1, LenProperties
<1>4. ASSUME NEW i \in DOMAIN u PROVE u[i] \in ToSet(u \o v)
  <2>1. i \in DOMAIN (u \o v) /\ (u \o v)[i] = u[i]
    BY <1>1, <1>2, <1>3
  <2> QED BY <2>1 DEF ToSet
<1>5. ASSUME NEW i \in DOMAIN v PROVE v[i] \in ToSet(u \o v)
  <2> PICK k : k = Len(u) + i
    OBVIOUS
  <2>1. k \in DOMAIN (u \o v) /\ ~(k <= Len(u)) /\ k - Len(u) = i
    BY <1>1, <1>3
  <2>2. (u \o v)[k] = v[i]
    BY <1>2, <1>3, <2>1
  <2> QED BY <2>1, <2>2 DEF ToSet
<1>6. ASSUME NEW type, NEW value, value # <<>> PROVE <<type, value>> \in ToSet(OptionalAttr(type, value))
  <2> DEFINE x == <<type, value>>
  <2>1. OptionalAttr(type, value) = << x >>
    BY <1>6 DEF OptionalAttr
  <2> HIDE DEF x
  <2>2. 1 \in DOMAIN << x >> /\ << x >>[1] = x
    OBVIOUS
  <2>3. x \in ToSet(<< x >>)
    BY <2>2 DEF ToSet
  <2> QED BY <2>1, <2>3 DEF x
<1> QED BY <1>1, <1>4, <1>5, <1>6 DEF ToSet

\* What is ordered is in the request.
LEMMA RequestOrders ==
  ASSUME NEW c \in Calls
  PROVE  Ordered(c) \subseteq ToSet(Request(c).attributes)
<1>1. /\ c.do \in {"disconnect", "reauthenticate", "vlan_change", "apply_acl"}
      /\ c.sid \in Seq(Byte) /\ c.mac \in Seq(Byte) /\ c.value \in Seq(Byte)
  BY DEF Calls
<1> DEFINE s == OptionalAttr(AcctSession, c.sid)
           m == OptionalAttr(CallingStation, c.mac)
           session == Session(c.sid, c.mac)
           pair == IF c.vendor = "juniper" THEN << <<ServiceType, Word(17)>> >> ELSE CiscoPair(Reauthenticate)
           pairs == IF c.vendor = "cisco" THEN CiscoPair(AuditSession \o c.sid) \o CiscoPair(Reauthenticate) ELSE <<>>
           acl == << <<FilterId, c.value>> >>
           own == {a \in {<<AcctSession, c.sid>>, <<CallingStation, c.mac>>} : a[2] # <<>>}
<1>2. s \in Seq(Fit) /\ m \in Seq(Fit)
  BY <1>1, BytesFit DEF AcctSession, CallingStation
<1>3. session \in Seq(Fit) /\ ToSet(s) \cup ToSet(m) \subseteq ToSet(session)
  BY <1>2, Attributes DEF Session
<1>4. own \subseteq ToSet(session)
  <2>1. c.sid # <<>> => <<AcctSession, c.sid>> \in ToSet(s)
    BY <1>2, Attributes
  <2>2. c.mac # <<>> => <<CallingStation, c.mac>> \in ToSet(m)
    BY <1>2, Attributes
  <2>3. <<AcctSession, c.sid>>[2] = c.sid /\ <<CallingStation, c.mac>>[2] = c.mac
    OBVIOUS
  <2> HIDE DEF s, m, session
  <2> QED BY <1>3, <2>1, <2>2, <2>3
<1>5. Reauthenticate \in Seq(Byte) /\ AuditSession \o c.sid \in Seq(Byte) /\ DefinedAcl \o c.value \in Seq(Byte)
  <2>1. Reauthenticate \in Seq(Byte) /\ AuditSession \in Seq(Byte) /\ DefinedAcl \in Seq(Byte)
    BY WordsAssumption
  <2> QED BY <1>1, <2>1
<1>6. /\ CiscoPair(Reauthenticate) \in Seq(Fit)
      /\ CiscoPair(AuditSession \o c.sid) \in Seq(Fit)
      /\ CiscoPair(DefinedAcl \o c.value) \in Seq(Fit)
  BY <1>5, PairFits
<1>7. << <<ServiceType, Word(17)>> >> \in Seq(Fit) /\ acl \in Seq(Fit)
  <2>1. ServiceType \in Nat /\ FilterId \in Nat /\ Word(17) \in Seq(Byte)
    BY WordBytes DEF ServiceType, FilterId
  <2> QED BY <1>1, <2>1, BytesFit
<1>8. TunnelVlan(c.value) \in Seq(Fit) /\ <<>> \in Seq(Fit)
  BY <1>1, TunnelFits
<1>9. pair \in Seq(Fit) /\ pairs \in Seq(Fit)
  <2>1. CiscoPair(AuditSession \o c.sid) \o CiscoPair(Reauthenticate) \in Seq(Fit)
    BY <1>6, Joined
  <2> QED BY <1>6, <1>7, <1>8, <2>1
<1>10. \A code, attributes : Packet(code, c.id, attributes).attributes = attributes
  BY DEF Packet
<1>11. CASE c.do = "disconnect"
  <2>1. Request(c).attributes = session
    BY <1>10, <1>11 DEF Request, Disconnect
  <2>2. Ordered(c) = own
    BY <1>11 DEF Ordered
  <2> QED BY <1>4, <2>1, <2>2
<1>12. CASE c.do = "reauthenticate"
  <2>1. Request(c).attributes = session \o pair
    BY <1>10, <1>12 DEF Request, Reauthentication
  <2>2. Ordered(c) = own
    BY <1>12 DEF Ordered
  <2> HIDE DEF session, pair, own
  <2>3. ToSet(session) \subseteq ToSet(session \o pair)
    BY <1>3, <1>9, Attributes
  <2> QED BY <1>4, <2>1, <2>2, <2>3
<1>13. CASE c.do = "vlan_change"
  <2> DEFINE tunnel == TunnelVlan(c.value)
             group == <<TunnelGroup, <<0>> \o c.value>>
  <2>1. Request(c).attributes = session \o tunnel \o pairs
    BY <1>10, <1>13 DEF Request, VlanChange
  <2>2. Ordered(c) = own \cup {group}
    BY <1>13 DEF Ordered
  <2>3. group \in ToSet(tunnel)
    <3>1. 3 \in DOMAIN tunnel /\ tunnel[3] = group
      BY DEF TunnelVlan
    <3> HIDE DEF tunnel, group
    <3> QED BY <3>1 DEF ToSet
  <2> HIDE DEF session, pairs, own, tunnel, group
  <2>4. tunnel \in Seq(Fit)
    BY <1>8 DEF tunnel
  <2>5. session \o tunnel \in Seq(Fit) /\ ToSet(session) \cup ToSet(tunnel) \subseteq ToSet(session \o tunnel)
    BY <1>3, <2>4, Attributes
  <2>6. ToSet(session \o tunnel) \subseteq ToSet(session \o tunnel \o pairs)
    BY <1>9, <2>5, Attributes
  <2> QED BY <1>4, <2>1, <2>2, <2>3, <2>5, <2>6
<1>14. CASE c.do = "apply_acl"
  <2> DEFINE filter == <<FilterId, c.value>>
             defined == CiscoPair(DefinedAcl \o c.value)
  <2>1. Request(c).attributes = session \o acl \o defined
    BY <1>10, <1>14 DEF Request, AclChange
  <2>2. Ordered(c) = own \cup {filter}
    BY <1>14 DEF Ordered
  <2>3. filter \in ToSet(acl)
    <3>1. 1 \in DOMAIN acl /\ acl[1] = filter
      OBVIOUS
    <3> HIDE DEF acl, filter
    <3> QED BY <3>1 DEF ToSet
  <2>4. defined \in Seq(Fit)
    BY <1>6
  <2> HIDE DEF session, own, acl, filter, defined
  <2>5. session \o acl \in Seq(Fit) /\ ToSet(session) \cup ToSet(acl) \subseteq ToSet(session \o acl)
    BY <1>3, <1>7, Attributes
  <2>6. ToSet(session \o acl) \subseteq ToSet(session \o acl \o defined)
    BY <2>4, <2>5, Attributes
  <2> QED BY <1>4, <2>1, <2>2, <2>3, <2>5, <2>6
<1> QED BY <1>1, <1>11, <1>12, <1>13, <1>14

\* Every request whose attributes fit can be encoded, decodes to itself, and
\* names the session and what is ordered as they were given.
THEOREM RequestsRoundTrip == Functions => []RoundTrip
<1>1. ASSUME Supplied PROVE RoundTrip
  <2>1. SUFFICES ASSUME asked = "request", NEW p, p = Request(test)
                 PROVE  /\ (\A i \in DOMAIN p.attributes : Len(p.attributes[i][2]) <= 253) => Encodable(p)
                        /\ Encodable(p) => Decode(Encode(p, Secret)) = p
                        /\ Ordered(test) \subseteq ToSet(p.attributes)
    BY DEF RoundTrip
  <2>2. test \in Requests /\ test \in Calls
    BY <1>1, <2>1, Supply, RequestsAssumption DEF Calls
  <2>3. p \in Built
    BY <2>1, <2>2, RequestFits
  <2> DEFINE as == p.attributes
  <2>4. p.id \in Byte /\ as \in Seq(Fit) /\ p = [code |-> p.code, id |-> p.id, attributes |-> as]
    BY <2>3 DEF Built
  <2>5. \A i \in DOMAIN as : as[i] \in Fit
    <3> HIDE DEF as
    <3> QED BY <2>4, LenProperties
  <2>6. ASSUME \A i \in DOMAIN p.attributes : Len(p.attributes[i][2]) <= 253 PROVE Encodable(p)
    <3>1. SUFFICES ASSUME NEW i \in DOMAIN as
                   PROVE  Len(as[i][2]) + 2 \in Byte /\ \A j \in DOMAIN as[i][2] : as[i][2][j] \in Byte
      BY <2>4 DEF Encodable
    <3> DEFINE v == as[i][2]
    <3>2. Len(v) <= 253 /\ v \in Seq(Byte) /\ v \in Seq(Nat)
      BY <2>5, <2>6 DEF Fit, Attribute
    <3> HIDE DEF v
    <3>3. Len(v) \in Nat /\ \A j \in DOMAIN v : v[j] \in Byte
      BY <3>2, LenProperties
    <3>4. Len(v) + 2 \in Byte
      <4>1. \A n \in Nat : n <= 253 => n + 2 \in Byte
        BY DEF Byte
      <4> QED BY <3>2, <3>3, <4>1
    <3> QED BY <3>3, <3>4 DEF v
  <2>7. Decode(Encode(p, Secret)) = p
    <3> DEFINE data == Encode(p, Secret)
               length == 256 * data[3] + data[4]
               end == IF length < Len(data) THEN length ELSE Len(data)
    <3>1. Md5(Signed(p, Secret)) \in [1 .. 16 -> Byte]
      BY <2>1, <2>2, DigestAssumption
    <3>2. data = Preamble(p) \o Md5(Signed(p, Secret)) \o Section(p.attributes)
      BY DEF Encode
    <3> HIDE DEF data
    <3>3. /\ data[1] = p.code /\ data[2] = p.id
          /\ 256 * data[3] + data[4] = Len(data)
          /\ SubSeq(data, 21, Len(data)) = Section(p.attributes)
          /\ Len(data) \in Nat
      BY <2>3, <3>1, <3>2, Encoded
    <3>4. Parse(Section(as)) = as
      <4>1. as \in Seq(Attribute)
        <5>1. Fit \in SUBSET Attribute
          BY DEF Fit
        <5> HIDE DEF Fit
        <5> QED BY <2>4, <5>1, SeqMonotonic
      <4> QED BY <4>1, ParsedSection
    <3>5. end = Len(data)
      BY <3>3
    <3>6. Decode(data) = [code |-> data[1], id |-> data[2], attributes |-> Parse(SubSeq(data, 21, end))]
      BY DEF Decode
    <3> HIDE DEF end, length
    <3>7. Decode(data) = [code |-> p.code, id |-> p.id, attributes |-> as]
      BY <3>3, <3>4, <3>5, <3>6
    <3> QED BY <2>4, <3>7 DEF data
  <2>8. Ordered(test) \subseteq ToSet(p.attributes)
    BY <2>1, <2>2, RequestOrders
  <2> QED BY <2>6, <2>7, <2>8
<1> QED BY <1>1, InputKept, PTL

-----------------------------------------------------------------------------
(* What a generated configuration declares and uses.                         *)

\* The files that are generated, and what is in each.
LEMMA Files ==
  ASSUME NEW db, NEW path \in DOMAIN Generated(db)
  PROVE  \/ path = "eap" /\ Generated(db)[path] = EapConfig(db)
         \/ path = "ldap_orw" /\ Generated(db)[path] = LdapConfig(db)
         \/ path = "python" /\ Generated(db)[path] = File({Module("orw")}, {})
         \/ path = "proxy.conf" /\ Generated(db)[path] = ProxyConfig(db)
         \/ path = "clients.conf" /\ Generated(db)[path] = ClientsConfig(db)
         \/ path = "default" /\ Generated(db)[path] = SiteDefault(db)
         \/ path = "inner-tunnel" /\ HasEap(db) /\ Generated(db)[path] = SiteInnerTunnel(db)
BY SMTT(60) DEF Generated

\* A file that is generated declares its names.
LEMMA Declares ==
  ASSUME NEW db
  PROVE  /\ HasEap(db) => Module("eap") \in Declared(db)
         /\ HasEap(db) /\ Rendered(db, "inner-tunnel") => Server("inner-tunnel") \in Declared(db)
         /\ HasPython(db) => Module("orw") \in Declared(db)
         /\ LdapModules(db) \subseteq Declared(db)
         /\ ProxyConfig(db).declares \subseteq Declared(db)
         /\ CertFiles(db) \subseteq Declared(db)
<1>1. \A path \in DOMAIN Generated(db) : Generated(db)[path].declares \subseteq Declared(db)
  BY DEF Declared
<1>2. \A declares, uses : File(declares, uses).declares = declares
  BY DEF File
<1>3. ASSUME HasEap(db) PROVE Module("eap") \in Declared(db)
  <2>1. "eap" \in DOMAIN Generated(db) /\ Generated(db)["eap"] = EapConfig(db)
    BY <1>3 DEF Generated
  <2>2. Module("eap") \in EapConfig(db).declares
    BY <1>2 DEF EapConfig
  <2> QED BY <1>1, <2>1, <2>2
<1>4. ASSUME HasEap(db), Rendered(db, "inner-tunnel") PROVE Server("inner-tunnel") \in Declared(db)
  <2>1. "inner-tunnel" \in DOMAIN Generated(db) /\ Generated(db)["inner-tunnel"] = SiteInnerTunnel(db)
    BY <1>4 DEF Generated
  <2>2. Server("inner-tunnel") \in SiteInnerTunnel(db).declares
    BY <1>2 DEF SiteInnerTunnel
  <2> QED BY <1>1, <2>1, <2>2
<1>5. ASSUME HasPython(db) PROVE Module("orw") \in Declared(db)
  <2>1. "python" \in DOMAIN Generated(db) /\ Generated(db)["python"] = File({Module("orw")}, {})
    BY <1>5 DEF Generated
  <2>2. Module("orw") \in File({Module("orw")}, {}).declares
    BY <1>2
  <2> QED BY <1>1, <2>1, <2>2
<1>6. LdapModules(db) \subseteq Declared(db)
  <2>1. SUFFICES ASSUME NEW m \in LdapModules(db) PROVE m \in Declared(db)
    OBVIOUS
  <2>2. Rendered(db, "ldap") /\ m \in {LdapModule(s) : s \in Enabled(db.ldap)}
    BY <2>1 DEF LdapModules
  <2>3. Enabled(db.ldap) # {}
    BY <2>2
  <2>4. "ldap_orw" \in DOMAIN Generated(db) /\ Generated(db)["ldap_orw"] = LdapConfig(db)
    BY <2>2, <2>3 DEF Generated
  <2>5. m \in LdapConfig(db).declares
    BY <1>2, <2>2 DEF LdapConfig
  <2> QED BY <1>1, <2>4, <2>5
<1>7. ProxyConfig(db).declares \subseteq Declared(db)
  <2>1. "proxy.conf" \in DOMAIN Generated(db) /\ Generated(db)["proxy.conf"] = ProxyConfig(db)
    BY DEF Generated
  <2> QED BY <1>1, <2>1
<1>8. CertFiles(db) \subseteq Declared(db)
  BY DEF Declared
<1> QED BY <1>3, <1>4, <1>5, <1>6, <1>7, <1>8

\* The certificates in use that have PEM data.
Held(db, type) == {db.certs[i] : i \in {i \in OfType(db, type) : db.certs[i].pem}}

\* What is written for them.
LEMMA WrittenFor ==
  ASSUME NEW db, DOMAIN db.certs \in SUBSET Nat
  PROVE  LET unreadable == \E c \in Held(db, "server") : c.key = "unreadable" IN
         /\ Held(db, "server") # {} => Path("server.pem") \in CertFiles(db)
         /\ ~unreadable =>
              /\ Held(db, "ca") # {} => Path("ca.pem") \in CertFiles(db)
              /\ \A c \in Held(db, "server") :
                   /\ c.key = "readable" => Path("server.key") \in CertFiles(db)
                   /\ c.dh => Path("dh.pem") \in CertFiles(db)
              /\ \A s \in Enabled(db.ldap) : s.ca => LdapCa(s) \in CertFiles(db)
<1> DEFINE unreadable == \E c \in Held(db, "server") : c.key = "unreadable"
           certs   == {i \in ActiveCerts(db) : db.certs[i].pem}
           unread  == {i \in certs : db.certs[i].type = "server" /\ db.certs[i].key = "unreadable"}
           tried   == {db.certs[i] : i \in {i \in certs : \A j \in unread : i <= j}}
           cas     == {c \in tried : c.type = "ca"}
           servers == {c \in tried : c.type = "server"}
           written == {c \in servers : c.key # "unreadable"}
<1>1. \A type : \A i : i \in OfType(db, type) <=> i \in ActiveCerts(db) /\ db.certs[i].type = type
  BY DEF OfType
<1>2. CertFiles(db) = {Path("ca.pem") : c \in cas}
                      \cup {Path("server.pem") : c \in servers}
                      \cup {Path("server.key") : c \in {c \in written : c.key = "readable"}}
                      \cup {Path("dh.pem") : c \in {c \in written : c.dh}}
                      \cup {LdapCa(s) : s \in {s \in Enabled(db.ldap) : s.ca /\ unread = {}}}
  BY DEF CertFiles
<1>3. ASSUME ~unreadable PROVE unread = {}
  BY <1>1, <1>3 DEF Held
<1>4. ASSUME unread = {}
      PROVE  Held(db, "ca") = cas /\ Held(db, "server") = servers
  <2>1. tried = {db.certs[i] : i \in certs}
    <3> HIDE DEF unread, certs
    <3> QED BY <1>4
  <2> HIDE DEF tried, unread
  <2> QED BY <1>1, <2>1 DEF Held
<1>5. Held(db, "server") # {} => servers # {}
  <2>1. CASE unread = {}
    BY <1>4, <2>1
  <2>2. CASE unread # {}
    <3>1. unread \in SUBSET Nat
      BY DEF ActiveCerts
    <3>2. PICK m \in unread : \A j \in unread : m <= j
      <4> HIDE DEF unread
      <4> QED BY <2>2, <3>1, Least
    <3>3. m \in certs /\ db.certs[m].type = "server"
      BY <3>2
    <3>4. db.certs[m] \in tried
      <4> HIDE DEF unread, certs
      <4> QED BY <3>2, <3>3
    <3> HIDE DEF tried
    <3> QED BY <3>3, <3>4
  <2> QED BY <2>1, <2>2
<1> HIDE DEF unread, tried, certs, cas, servers
<1>6. Held(db, "server") # {} => Path("server.pem") \in CertFiles(db)
  BY <1>2, <1>5
<1>7. ASSUME ~unreadable
      PROVE  /\ Held(db, "ca") # {} => Path("ca.pem") \in CertFiles(db)
             /\ \A c \in Held(db, "server") :
                  /\ c.key = "readable" => Path("server.key") \in CertFiles(db)
                  /\ c.dh => Path("dh.pem") \in CertFiles(db)
             /\ \A s \in Enabled(db.ldap) : s.ca => LdapCa(s) \in CertFiles(db)
  <2>1. unread = {} /\ Held(db, "ca") = cas /\ Held(db, "server") = servers
    BY <1>3, <1>4, <1>7
  <2>2. \A c \in servers : c \in written
    BY <1>7, <2>1
  <2>3. Held(db, "ca") # {} => Path("ca.pem") \in CertFiles(db)
    BY <1>2, <2>1
  <2>4. ASSUME NEW c \in servers
        PROVE  /\ c.key = "readable" => Path("server.key") \in CertFiles(db)
               /\ c.dh => Path("dh.pem") \in CertFiles(db)
    <3>1. c \in written
      BY <2>2
    <3> HIDE DEF written
    <3> QED BY <1>2, <3>1
  <2>5. \A s \in Enabled(db.ldap) : s.ca => LdapCa(s) \in CertFiles(db)
    BY <1>2, <2>1
  <2> QED BY <2>1, <2>3, <2>4, <2>5
<1> HIDE DEF written
<1> QED BY <1>6, <1>7

\* A certificate's file that a generated file names is written, or the tables
\* say why it is not.
LEMMA WrittenOrNot ==
  ASSUME NEW db, DOMAIN db.certs \in SUBSET Nat
  PROVE  /\ \A u \in {Path("ca.pem"), Path("server.pem"), Path("server.key")} :
              u \in CertFiles(db) \/ Unwritten(db, u)
         /\ HasDh(db) => Path("dh.pem") \in CertFiles(db) \/ Unwritten(db, Path("dh.pem"))
         /\ \A s \in Enabled(db.ldap) : s.ca => LdapCa(s) \in CertFiles(db) \/ Unwritten(db, LdapCa(s))
<1> DEFINE rows(type) == {db.certs[i] : i \in OfType(db, type)}
           certs(type) == {c \in rows(type) : c.pem}
           unreadable == \E c \in certs("server") : c.key = "unreadable"
<1>1. \A type : certs(type) = Held(db, type)
  BY DEF Held
<1>2. \A u : Unwritten(db, u) <=>
        \/ u = Path("server.pem") /\ certs("server") = {}
        \/ u = Path("server.key") /\ \A c \in certs("server") : c.key # "readable"
        \/ u = Path("ca.pem") /\ certs("ca") = {}
        \/ u = Path("dh.pem") /\ \E c \in rows("ca") \cup rows("server") : c.dh /\ (c.type = "ca" \/ ~c.pem)
        \/ u[1] = "file" /\ u # Path("server.pem") /\ unreadable
  BY DEF Unwritten
<1>3. \A name : Path(name) = <<"file", name>> /\ Path(name)[1] = "file"
  BY DEF Path
<1>4. \A s : LdapCa(s)[1] = "file" /\ LdapCa(s) # Path("server.pem")
  BY DEF LdapCa, Path
<1>5. /\ certs("server") # {} => Path("server.pem") \in CertFiles(db)
      /\ ~unreadable =>
           /\ certs("ca") # {} => Path("ca.pem") \in CertFiles(db)
           /\ \A c \in certs("server") :
                /\ c.key = "readable" => Path("server.key") \in CertFiles(db)
                /\ c.dh => Path("dh.pem") \in CertFiles(db)
           /\ \A s \in Enabled(db.ldap) : s.ca => LdapCa(s) \in CertFiles(db)
  <2> HIDE DEF certs
  <2> QED BY <1>1, WrittenFor
<1>6. /\ Path("ca.pem") # Path("server.pem") /\ Path("server.key") # Path("server.pem")
      /\ Path("dh.pem") # Path("server.pem")
  BY <1>3
<1>7. ASSUME HasDh(db) PROVE \E c \in rows("ca") \cup rows("server") : c.dh /\ (c.type = "ca" \/ c \in rows("server"))
  BY <1>7 DEF HasDh, OfType
<1> DEFINE dh == \E c \in rows("ca") \cup rows("server") : c.dh /\ (c.type = "ca" \/ ~c.pem)
<1>8. ASSUME HasDh(db) PROVE dh \/ \E c \in certs("server") : c.dh
  BY <1>7, <1>8
<1> HIDE DEF rows, certs
<1>9. Path("dh.pem") \in CertFiles(db) \/ Unwritten(db, Path("dh.pem")) \/ ~HasDh(db)
  BY <1>2, <1>3, <1>5, <1>6, <1>8
<1>10. \A u \in {Path("ca.pem"), Path("server.pem"), Path("server.key")} :
         u \in CertFiles(db) \/ Unwritten(db, u)
  BY <1>2, <1>3, <1>5, <1>6
<1>11. ASSUME NEW s \in Enabled(db.ldap), s.ca PROVE LdapCa(s) \in CertFiles(db) \/ Unwritten(db, LdapCa(s))
  BY <1>2, <1>4, <1>5, <1>11
<1> QED BY <1>9, <1>10, <1>11
\* What a generated file uses is declared by a file of the generation, but for
\* the names that are missing by design, the servers of the clients' rows and
\* the files of certificates that the tables say are not written.
LEMMA Resolved ==
  ASSUME NEW db, DOMAIN db.certs \in SUBSET Nat, NEW u \in Used(db), u \notin Declared(db),
         u # <<"pool", "reject">>, u # Server("check-eap-tls"),
         ~(u = Server("inner-tunnel") /\ ~Rendered(db, "inner-tunnel")),
         u \notin ClientServers(db)
  PROVE  Unwritten(db, u)
<1>1. PICK path \in DOMAIN Generated(db) : u \in Generated(db)[path].uses
  BY DEF Used
<1>2. \A declares, uses : File(declares, uses).declares = declares /\ File(declares, uses).uses = uses
  BY DEF File
<1>5. u \notin CertFiles(db) /\ u \notin LdapModules(db) /\ u \notin ProxyConfig(db).declares
  BY Declares
<1>6. u \in Called(db) => FALSE
  <2>1. u \in Called(db) => u \in LdapModules(db) \/ (HasPython(db) /\ u = Module("orw"))
    BY DEF Called
  <2> QED BY <1>5, <2>1, Declares
<1>7. CASE path = "eap" /\ Generated(db)[path] = EapConfig(db)
  <2>1. \/ u = Server("inner-tunnel")
        \/ u \in {Path("ca.pem"), Path("server.pem"), Path("server.key")}
        \/ HasDh(db) /\ u = Path("dh.pem")
    BY <1>1, <1>2, <1>7 DEF EapConfig
  <2>2. HasEap(db)
    BY <1>1, <1>7 DEF Generated
  <2>3. u # Server("inner-tunnel")
    BY <2>2, Declares
  <2> QED BY <1>5, <2>1, <2>3, WrittenOrNot
<1>8. CASE path = "ldap_orw" /\ Generated(db)[path] = LdapConfig(db)
  <2>1. PICK s \in Enabled(db.ldap) : s.ca /\ u = LdapCa(s)
    BY <1>1, <1>2, <1>8 DEF LdapConfig
  <2> QED BY <1>5, <2>1, WrittenOrNot
<1>9. CASE path = "python" /\ Generated(db)[path] = File({Module("orw")}, {})
  BY <1>1, <1>2, <1>9
<1>10. CASE path = "proxy.conf" /\ Generated(db)[path] = ProxyConfig(db)
  <2>1. \/ u \in {Pool(r) : r \in ProxyRealms(db)} \cup {HomeServer(r) : r \in ProxyRealms(db)}
        \/ u = <<"pool", "reject">>
    BY <1>1, <1>2, <1>10 DEF ProxyConfig
  <2>2. u \in ProxyConfig(db).declares
    BY <1>2, <2>1 DEF ProxyConfig
  <2> QED BY <1>5, <2>2
<1>11. CASE path = "clients.conf" /\ Generated(db)[path] = ClientsConfig(db)
  BY <1>1, <1>2, <1>11 DEF ClientsConfig
<1>12. CASE path = "default" /\ Generated(db)[path] = SiteDefault(db)
  <2>1. u \in Called(db) \/ (HasEap(db) /\ u = Module("eap"))
    BY <1>1, <1>2, <1>12 DEF SiteDefault
  <2> QED BY <1>6, <2>1, Declares
<1>13. CASE path = "inner-tunnel" /\ HasEap(db) /\ Generated(db)[path] = SiteInnerTunnel(db)
  <2>1. u \in Called(db) \/ u = Module("eap")
    BY <1>1, <1>2, <1>13 DEF SiteInnerTunnel
  <2> QED BY <1>6, <1>13, <2>1, Declares
<1> QED BY <1>1, <1>7, <1>8, <1>9, <1>10, <1>11, <1>12, <1>13, Files

\* radiusd finds what a generated file names, but for the exceptions the
\* property lists, whatever the tables hold.
THEOREM ReferencesAreResolved == Functions => []ReferencesResolve
<1>1. ASSUME Supplied PROVE ReferencesResolve
  <2> DEFINE unmade == IF Rendered(test, "inner-tunnel") THEN {} ELSE {Server("inner-tunnel")}
             missing == {<<"pool", "reject">>, Server("check-eap-tls")} \cup unmade \cup ClientServers(test)
  <2>1. SUFFICES ASSUME asked = "database", NEW u \in Used(test) \ (Declared(test) \cup missing)
                 PROVE  Unwritten(test, u)
    BY DEF ReferencesResolve
  <2>2. DOMAIN test.certs \in SUBSET Nat
    BY <1>1, <2>1, DatabasesAssumption DEF Supplied, Inputs
  <2>3. /\ u \in Used(test) /\ u \notin Declared(test)
        /\ u # <<"pool", "reject">> /\ u # Server("check-eap-tls")
        /\ ~(u = Server("inner-tunnel") /\ ~Rendered(test, "inner-tunnel"))
        /\ u \notin ClientServers(test)
    OBVIOUS
  <2> QED BY <2>2, <2>3, Resolved
<1> QED BY <1>1, InputKept, PTL

-----------------------------------------------------------------------------
(* What a CSV file makes of the whitelist.                                   *)

\* Induction over 0 .. n.
LEMMA Climb ==
  ASSUME NEW n \in Nat, NEW T \in SUBSET (0 .. n), 0 \in T,
         \A m \in 1 .. n : m - 1 \in T => m \in T
  PROVE  T = 0 .. n
<1> DEFINE U == (0 .. n) \ T
<1>1. SUFFICES ASSUME U # {} PROVE FALSE
  OBVIOUS
<1>2. PICK m \in U : \A k \in U : m <= k
  <2>1. U \in SUBSET Nat
    OBVIOUS
  <2> HIDE DEF U
  <2> QED BY <1>1, <2>1, Least
<1>3. m \in 0 .. n /\ m \notin T
  OBVIOUS
<1>4. m \in 1 .. n /\ m - 1 \in 0 .. n
  BY <1>3
<1>5. m - 1 \notin U
  <2> HIDE DEF U
  <2>1. m \in Nat /\ ~(m <= m - 1)
    BY <1>3
  <2> QED BY <1>2, <2>1
<1>6. m - 1 \in T
  BY <1>4, <1>5
<1> QED BY <1>3, <1>4, <1>6

\* What an import makes of one line.
Line(items, s, n) == IF n \in DOMAIN items THEN BulkInsert(s, items[n]) ELSE s

\* bulk_import goes through the lines in order.
LEMMA Imported ==
  ASSUME NEW items, NEW last \in Nat, NEW table
  PROVE  \E f : /\ f[0] = [table |-> table, created |-> 0, skipped |-> 0]
                /\ \A n \in 1 .. last : f[n] = Line(items, f[n - 1], n)
                /\ BulkImport(items, last, table) = f[last]
<1> DEFINE start == [table |-> table, created |-> 0, skipped |-> 0]
           goes(f, m) == f = [n \in 0 .. m |-> IF n = 0 THEN start ELSE Line(items, f[n - 1], n)]
           T == {m \in 0 .. last : \E f : goes(f, m)}
           after[n \in 0 .. last] ==
             IF n = 0 THEN [table |-> table, created |-> 0, skipped |-> 0]
             ELSE IF n \in DOMAIN items THEN BulkInsert(after[n - 1], items[n])
             ELSE after[n - 1]
<1>1. BulkImport(items, last, table) = after[last]
  BY DEF BulkImport
<1> HIDE DEF start
<1>2. T = 0 .. last
  <2>1. 0 \in T
    <3> DEFINE f == [n \in 0 .. 0 |-> start]
    <3>1. goes(f, 0)
      OBVIOUS
    <3> HIDE DEF f
    <3> QED BY <3>1
  <2>2. ASSUME NEW m \in 1 .. last, m - 1 \in T PROVE m \in T
    <3>1. PICK f : goes(f, m - 1)
      BY <2>2
    <3>2. \A n \in 0 .. m - 1 : f[n] = IF n = 0 THEN start ELSE Line(items, f[n - 1], n)
      BY <3>1
    <3> HIDE DEF goes
    <3>3. m \in Nat /\ m >= 1 /\ m - 1 \in 0 .. m - 1 /\ \A n \in 0 .. m : n # m => n \in 0 .. m - 1
      OBVIOUS
    <3> DEFINE g == [n \in 0 .. m |-> IF n = m THEN Line(items, f[m - 1], m) ELSE f[n]]
    <3>4. \A n \in 0 .. m : g[n] = IF n = m THEN Line(items, f[m - 1], m) ELSE f[n]
      OBVIOUS
    <3>5. g = [n \in 0 .. m |-> g[n]]
      OBVIOUS
    <3> HIDE DEF g
    <3>6. ASSUME NEW n \in 0 .. m PROVE g[n] = IF n = 0 THEN start ELSE Line(items, g[n - 1], n)
      <4>1. n # 0 => n - 1 \in 0 .. m /\ n - 1 # m
        BY <3>3
      <4>2. n # 0 => g[n - 1] = f[n - 1]
        BY <3>4, <4>1
      <4>3. CASE n = m
        BY <3>3, <3>4, <4>2, <4>3
      <4>4. CASE n # m
        <5>1. f[n] = IF n = 0 THEN start ELSE Line(items, f[n - 1], n)
          BY <3>2, <3>3, <4>4
        <5> QED BY <3>4, <4>2, <4>4, <5>1
      <4> QED BY <4>3, <4>4
    <3>7. goes(g, m)
      BY <3>5, <3>6 DEF goes
    <3> QED BY <3>7
  <2>3. T \in SUBSET (0 .. last)
    OBVIOUS
  <2> HIDE DEF T
  <2> QED BY <2>1, <2>2, <2>3, Climb
<1>3. PICK f : goes(f, last)
  <2>1. last \in T
    <3>1. last \in 0 .. last
      OBVIOUS
    <3> HIDE DEF T
    <3> QED BY <1>2, <3>1
  <2> HIDE DEF after, goes
  <2> QED BY <2>1
<1>4. after = [n \in 0 .. last |->
                 IF n = 0 THEN [table |-> table, created |-> 0, skipped |-> 0]
                 ELSE IF n \in DOMAIN items THEN BulkInsert(after[n - 1], items[n])
                 ELSE after[n - 1]]
  <2>1. f = [n \in 0 .. last |->
                 IF n = 0 THEN [table |-> table, created |-> 0, skipped |-> 0]
                 ELSE IF n \in DOMAIN items THEN BulkInsert(f[n - 1], items[n])
                 ELSE f[n - 1]]
    BY <1>3 DEF Line, start
  <2> QED BY <2>1
<1> HIDE DEF after, T
<1>5. after[0] = [table |-> table, created |-> 0, skipped |-> 0]
  <2>1. 0 \in 0 .. last
    OBVIOUS
  <2> QED BY <1>4, <2>1
<1>6. \A n \in 1 .. last : after[n] = Line(items, after[n - 1], n)
  <2> TAKE n \in 1 .. last
  <2>1. n \in 0 .. last /\ n # 0
    OBVIOUS
  <2>2. after[n] = IF n = 0 THEN [table |-> table, created |-> 0, skipped |-> 0]
                   ELSE IF n \in DOMAIN items THEN BulkInsert(after[n - 1], items[n])
                   ELSE after[n - 1]
    BY <1>4, <2>1
  <2> QED BY <2>1, <2>2 DEF Line
<1> QED BY <1>1, <1>5, <1>6

\* What one item adds.
LEMMA Inserted ==
  ASSUME NEW s, NEW item
  PROVE  \/ /\ BulkInsert(s, item).table = s.table /\ BulkInsert(s, item).created = s.created
            /\ \E d \in s.table : d["mac_address"] = item["mac_address"]
         \/ /\ BulkInsert(s, item).table = s.table \cup {Enlisted(item)}
            /\ BulkInsert(s, item).created = s.created + 1
            /\ Enlisted(item) \notin s.table /\ Enlisted(item)["mac_address"] = item["mac_address"]
<1>1. Enlisted(item)["mac_address"] = item["mac_address"]
  BY DEF Enlisted, CSV_KNOWN_HEADERS
<1>2. CASE \E d \in s.table : d["mac_address"] = item["mac_address"]
  BY <1>2 DEF BulkInsert
<1>3. CASE ~\E d \in s.table : d["mac_address"] = item["mac_address"]
  <2>1. Enlisted(item) \notin s.table
    BY <1>1, <1>3
  <2> HIDE DEF Enlisted
  <2>2. BulkInsert(s, item) = [table |-> s.table \cup {Enlisted(item)}, created |-> s.created + 1, skipped |-> s.skipped]
    BY <1>3 DEF BulkInsert
  <2> QED BY <1>1, <2>1, <2>2
<1> QED BY <1>2, <1>3

\* An import keeps the table, counts what it adds, and leaves a device for
\* every item.
LEMMA ImportAdds ==
  ASSUME NEW items, NEW last \in Nat, NEW table
  PROVE  LET done == BulkImport(items, last, table) IN
         /\ table \subseteq done.table
         /\ done.created = Cardinality(done.table \ table)
         /\ \A i \in DOMAIN items : i \in 1 .. last =>
              \E d \in done.table : d["mac_address"] = items[i]["mac_address"]
<1>1. PICK f : /\ f[0] = [table |-> table, created |-> 0, skipped |-> 0]
               /\ \A n \in 1 .. last : f[n] = Line(items, f[n - 1], n)
               /\ BulkImport(items, last, table) = f[last]
  BY Imported
<1> DEFINE new(n) == f[n].table \ table
           has(t, i) == \E d \in t : d["mac_address"] = items[i]["mac_address"]
           T == {n \in 0 .. last :
                   /\ table \subseteq f[n].table
                   /\ IsFiniteSet(new(n)) /\ f[n].created = Cardinality(new(n))
                   /\ \A i \in DOMAIN items : i \in 1 .. n => has(f[n].table, i)}
<1>2. T = 0 .. last
  <2>1. 0 \in T
    <3>1. f[0].table = table /\ f[0].created = 0 /\ new(0) = {} /\ 0 \in 0 .. last /\ 1 .. 0 = {}
      BY <1>1
    <3> QED BY <3>1, FS_EmptySet
  <2>2. ASSUME NEW n \in 1 .. last, n - 1 \in T PROVE n \in T
    <3>1. PICK m : m = n - 1
      OBVIOUS
    <3>2. /\ table \subseteq f[m].table
          /\ IsFiniteSet(new(m)) /\ f[m].created = Cardinality(new(m))
          /\ \A i \in DOMAIN items : i \in 1 .. m => has(f[m].table, i)
      BY <2>2, <3>1
    <3>3. f[n] = Line(items, f[m], n)
      BY <1>1, <3>1
    <3>4. \A i \in 1 .. n : i = n \/ i \in 1 .. m
      BY <3>1
    <3>5. n \in 0 .. last
      OBVIOUS
    <3>6. CASE f[n].table = f[m].table /\ f[n].created = f[m].created
               /\ (n \in DOMAIN items => has(f[m].table, n))
      <4>1. new(n) = new(m)
        BY <3>6
      <4>2. \A i \in DOMAIN items : i \in 1 .. n => has(f[n].table, i)
        <5> HIDE DEF has
        <5> QED BY <3>2, <3>4, <3>6
      <4> HIDE DEF has, new
      <4> QED BY <3>2, <3>5, <3>6, <4>1, <4>2
    <3>7. CASE n \in DOMAIN items /\ f[n].table = f[m].table \cup {Enlisted(items[n])}
               /\ f[n].created = f[m].created + 1
               /\ Enlisted(items[n]) \notin f[m].table
               /\ Enlisted(items[n])["mac_address"] = items[n]["mac_address"]
      <4> DEFINE x == Enlisted(items[n])
      <4> HIDE DEF x
      <4>1. /\ n \in DOMAIN items /\ f[n].table = f[m].table \cup {x} /\ f[n].created = f[m].created + 1
            /\ x \notin f[m].table /\ x["mac_address"] = items[n]["mac_address"]
        BY <3>7 DEF x
      <4>2. new(n) = new(m) \cup {x} /\ x \notin new(m)
        BY <3>2, <4>1
      <4>3. IsFiniteSet(new(n)) /\ Cardinality(new(n)) = Cardinality(new(m)) + 1
        <5> HIDE DEF new
        <5> QED BY <3>2, <4>2, FS_AddElement
      <4>4. table \subseteq f[n].table
        BY <3>2, <4>1
      <4>5. has(f[n].table, n) /\ \A i : has(f[m].table, i) => has(f[n].table, i)
        BY <4>1
      <4> HIDE DEF has, new
      <4>6. \A i \in DOMAIN items : i \in 1 .. n => has(f[n].table, i)
        BY <3>2, <3>4, <4>5
      <4> QED BY <3>2, <3>5, <4>1, <4>3, <4>4, <4>6
    <3>8. CASE n \in DOMAIN items
      <4>1. f[n] = BulkInsert(f[m], items[n])
        BY <3>3, <3>8 DEF Line
      <4> HIDE DEF T, new
      <4> QED BY <3>6, <3>7, <3>8, <4>1, Inserted
    <3>9. CASE n \notin DOMAIN items
      <4>1. f[n] = f[m]
        BY <3>3, <3>9 DEF Line
      <4> HIDE DEF T, new, has
      <4> QED BY <3>6, <3>9, <4>1
    <3> QED BY <3>8, <3>9
  <2>3. T \in SUBSET (0 .. last)
    OBVIOUS
  <2> HIDE DEF T
  <2> QED BY <2>1, <2>2, <2>3, Climb
<1>3. last \in T
  <2>1. last \in 0 .. last
    OBVIOUS
  <2> HIDE DEF T
  <2> QED BY <1>2, <2>1
<1> QED BY <1>1, <1>3

\* Items whose addresses the table has add nothing.
LEMMA ImportKeeps ==
  ASSUME NEW items, NEW last \in Nat, NEW table,
         \A i \in DOMAIN items : i \in 1 .. last => \E d \in table : d["mac_address"] = items[i]["mac_address"]
  PROVE  BulkImport(items, last, table).table = table /\ BulkImport(items, last, table).created = 0
<1>1. PICK f : /\ f[0] = [table |-> table, created |-> 0, skipped |-> 0]
               /\ \A n \in 1 .. last : f[n] = Line(items, f[n - 1], n)
               /\ BulkImport(items, last, table) = f[last]
  BY Imported
<1> DEFINE T == {n \in 0 .. last : f[n].table = table /\ f[n].created = 0}
<1>2. T = 0 .. last
  <2>1. 0 \in T
    BY <1>1
  <2>2. ASSUME NEW n \in 1 .. last, n - 1 \in T PROVE n \in T
    <3>1. PICK m : m = n - 1
      OBVIOUS
    <3>2. f[m].table = table /\ f[m].created = 0 /\ n \in 0 .. last
      BY <2>2, <3>1
    <3>3. f[n] = Line(items, f[m], n)
      BY <1>1, <3>1
    <3>4. CASE n \in DOMAIN items
      <4>1. \E d \in f[m].table : d["mac_address"] = items[n]["mac_address"]
        BY <3>2, <3>4
      <4>2. f[n].table = f[m].table /\ f[n].created = f[m].created
        BY <3>3, <3>4, <4>1 DEF Line, BulkInsert
      <4> QED BY <3>2, <4>2
    <3>5. CASE n \notin DOMAIN items
      BY <3>2, <3>3, <3>5 DEF Line
    <3> QED BY <3>4, <3>5
  <2>3. T \in SUBSET (0 .. last)
    OBVIOUS
  <2> HIDE DEF T
  <2> QED BY <2>1, <2>2, <2>3, Climb
<1>3. last \in T
  <2>1. last \in 0 .. last
    OBVIOUS
  <2> HIDE DEF T
  <2> QED BY <1>2, <2>1
<1> QED BY <1>1, <1>3

\* A file only adds devices, and only once, whatever it holds.
LEMMA ImportAlwaysAdds ==
  ASSUME NEW file, NEW table, Len(file.lines) \in Nat
  PROVE  ImportOnlyAdds(file, table)
<1>1. SUFFICES ASSUME NEW once, once = ImportCsv(file, table),
                      NEW twice, twice = ImportCsv(file, once.table)
               PROVE  /\ table \subseteq once.table
                      /\ once.created = Cardinality(once.table \ table)
                      /\ twice.table = once.table /\ twice.created = 0
  BY DEF ImportOnlyAdds
<1> DEFINE lines == Len(file.lines)
           raised == [items |-> <<>>, errors |-> {"raises"}]
           read == IF "mac_address" \in Columns(file) /\ Overlong(file) THEN raised ELSE Parsed(file)
           parsed == IF Refused(read.items) THEN raised ELSE read
           first == BulkImport(parsed.items, lines, table)
           second == BulkImport(parsed.items, lines, once.table)
<1>2. lines \in Nat
  OBVIOUS
<1>3. once = [table |-> first.table, created |-> first.created, errors |-> parsed.errors]
  BY <1>1 DEF ImportCsv
<1>4. twice = [table |-> second.table, created |-> second.created, errors |-> parsed.errors]
  BY <1>1 DEF ImportCsv
<1> HIDE DEF lines, parsed
<1>5. /\ table \subseteq first.table
      /\ first.created = Cardinality(first.table \ table)
      /\ \A i \in DOMAIN parsed.items : i \in 1 .. lines =>
           \E d \in first.table : d["mac_address"] = parsed.items[i]["mac_address"]
  BY <1>2, ImportAdds
<1> HIDE DEF first
<1>6. once.table = first.table /\ once.created = first.created
  BY <1>3
<1>7. second.table = once.table /\ second.created = 0
  <2>1. \A i \in DOMAIN parsed.items : i \in 1 .. lines =>
          \E d \in once.table : d["mac_address"] = parsed.items[i]["mac_address"]
    BY <1>5, <1>6
  <2> DEFINE items == parsed.items
             table2 == once.table
  <2> HIDE DEF items, table2
  <2>2. /\ \A i \in DOMAIN items : i \in 1 .. lines =>
             \E d \in table2 : d["mac_address"] = items[i]["mac_address"]
        /\ second = BulkImport(items, lines, table2)
    BY <2>1 DEF items, table2
  <2> HIDE DEF second
  <2>3. second.table = table2 /\ second.created = 0
    BY <1>2, <2>2, ImportKeeps
  <2> QED BY <2>3 DEF table2
<1> HIDE DEF second
<1>8. twice.table = second.table /\ twice.created = second.created
  BY <1>4
<1> QED BY <1>5, <1>6, <1>7, <1>8

-----------------------------------------------------------------------------
(* What an export of the whitelist comes back as.                            *)

\* What a column comes back as, and a device.
Trim(v) == IF IsA("text", v) /\ Strip(v[2]) = <<>> THEN Null
           ELSE IF IsA("text", v) THEN Text(Strip(v[2])) ELSE v
Back(d) == [c \in DOMAIN d |-> IF c = "enabled" THEN TRUE ELSE Trim(d[c])]

\* A text of one token that is not blank has nothing to strip.
LEMMA StripOne ==
  ASSUME NEW t, t # Blank
  PROVE  Strip(<<t>>) = <<t>>
<1> DEFINE w == <<t>>
           kept == {i \in DOMAIN w : w[i] # Blank}
           m == CHOOSE i \in kept : \A j \in kept : i <= j
           n == CHOOSE i \in kept : \A j \in kept : j <= i
<1>1. kept = {1}
  <2>1. DOMAIN w = {1} /\ w[1] = t
    OBVIOUS
  <2> QED BY <2>1
<1>2. Strip(w) = SubSeq(w, m, n)
  BY <1>1 DEF Strip
<1> HIDE DEF kept
<1>3. m = 1 /\ n = 1
  BY <1>1
<1> HIDE DEF m, n
<1>4. SubSeq(w, 1, 1) = <<t>>
  <2>1. w \in Seq({t}) /\ Len(w) = 1 /\ 0 + 1 = 1 /\ w[1] = t
    OBVIOUS
  <2> HIDE DEF w
  <2> DEFINE v == SubSeq(w, 0 + 1, 0 + 1)
  <2>2. v \in Seq({t}) /\ Len(v) = 1
    BY <2>1, Slice
  <2> HIDE DEF v
  <2>3. v = <<t>>
    BY <2>2
  <2> QED BY <2>1, <2>3 DEF v
<1>5. SubSeq(w, m, n) = SubSeq(w, 1, 1)
  BY <1>3
<1> QED BY <1>2, <1>4, <1>5

\* The names of the columns are their own keys.
LEMMA OneKey ==
  ASSUME NEW h \in CSV_KNOWN_HEADERS
  PROVE  Key(<<h>>) = <<h>>
<1>1. h \notin DOMAIN Fold /\ h # Blank
  BY HeadersAssumption
<1>2. Lower(<<h>>) = <<h>>
  <2>1. DOMAIN <<h>> = 1 .. 1 /\ <<h>>[1] = h
    OBVIOUS
  <2>2. \A i \in DOMAIN <<h>> : <<h>>[i] = h
    BY <2>1
  <2>3. Lower(<<h>>) = [i \in DOMAIN <<h>> |-> <<h>>[i]]
    BY <1>1, <2>2 DEF Lower
  <2> QED BY <2>3
<1> QED BY <1>1, <1>2, StripOne DEF Key

\* The columns of a file with the header of an export.
Header == [j \in 1 .. 6 |-> <<CsvHeader[j]>>]
LineOf(d) == [j \in 1 .. 6 |-> Cell(d, CsvHeader[j])]

\* What strip() leaves of a cell.
Read(d, c) == Strip(Cell(d, c))

\* The header of an export names every column once.
LEMMA HeaderColumns ==
  /\ DOMAIN Header = 1 .. 6
  /\ \A j \in 1 .. 6 : CsvHeader[j] \in CSV_KNOWN_HEADERS /\ Key(Header[j]) = <<CsvHeader[j]>>
  /\ \A j, k \in 1 .. 6 : CsvHeader[j] = CsvHeader[k] => j = k
  /\ \A c \in CSV_KNOWN_HEADERS : \E j \in 1 .. 6 : CsvHeader[j] = c
<1>1. \A j \in 1 .. 6 : j = 1 \/ j = 2 \/ j = 3 \/ j = 4 \/ j = 5 \/ j = 6
  OBVIOUS
<1>2. /\ CsvHeader[1] = "mac_address" /\ CsvHeader[2] = "name" /\ CsvHeader[3] = "description"
      /\ CsvHeader[4] = "device_type" /\ CsvHeader[5] = "assigned_vlan_id" /\ CsvHeader[6] = "expiry_date"
  BY DEF CsvHeader
<1>3. \A j \in 1 .. 6 : CsvHeader[j] \in CSV_KNOWN_HEADERS
  BY <1>1, <1>2 DEF CSV_KNOWN_HEADERS
<1>4. \A j, k \in 1 .. 6 : CsvHeader[j] = CsvHeader[k] => j = k
  BY <1>1, <1>2
<1>5. \A c \in CSV_KNOWN_HEADERS : \E j \in 1 .. 6 : CsvHeader[j] = c
  <2>1. 1 \in 1 .. 6 /\ 2 \in 1 .. 6 /\ 3 \in 1 .. 6 /\ 4 \in 1 .. 6 /\ 5 \in 1 .. 6 /\ 6 \in 1 .. 6
    OBVIOUS
  <2> QED BY <1>2, <2>1 DEF CSV_KNOWN_HEADERS
<1>6. DOMAIN Header = 1 .. 6 /\ \A j \in 1 .. 6 : Header[j] = <<CsvHeader[j]>>
  BY DEF Header
<1>7. \A j \in 1 .. 6 : Key(Header[j]) = <<CsvHeader[j]>>
  BY <1>3, <1>6, OneKey
<1> QED BY <1>3, <1>4, <1>5, <1>6, <1>7

\* What is read of a line that was written of a device.
LEMMA Cleaned ==
  ASSUME NEW file, file.header = Header, NEW d
  PROVE  /\ Columns(file) = CSV_KNOWN_HEADERS
         /\ Clean(file, LineOf(d)) =
              [c \in {c \in CSV_KNOWN_HEADERS : Read(d, c) # <<>>} |-> Read(d, c)]
<1>1. Columns(file) = CSV_KNOWN_HEADERS
  <2>1. \A c \in CSV_KNOWN_HEADERS : \E j \in DOMAIN Header : Key(Header[j]) = <<c>>
    BY HeaderColumns
  <2> QED BY <2>1 DEF Columns
<1> DEFINE named(c) == {j \in DOMAIN file.header : Key(file.header[j]) = <<c>>}
           at(c) == CHOOSE j \in named(c) : \A k \in named(c) : k <= j
           value(c) == IF at(c) \in DOMAIN LineOf(d) THEN Strip(LineOf(d)[at(c)]) ELSE <<>>
<1>2. ASSUME NEW c \in CSV_KNOWN_HEADERS PROVE value(c) = Read(d, c)
  <2>1. PICK j \in 1 .. 6 : CsvHeader[j] = c
    BY HeaderColumns
  <2>2. named(c) = {j}
    <3>1. \A k \in 1 .. 6 : Key(Header[k]) = <<c>> <=> k = j
      BY <2>1, HeaderColumns
    <3> QED BY <3>1, HeaderColumns
  <2> HIDE DEF named
  <2>3. at(c) = j
    BY <2>2
  <2> HIDE DEF at
  <2>4. at(c) \in 1 .. 6 /\ CsvHeader[at(c)] = c
    BY <2>1, <2>3
  <2>5. DOMAIN LineOf(d) = 1 .. 6 /\ LineOf(d)[at(c)] = Cell(d, c)
    BY <2>4 DEF LineOf
  <2> QED BY <2>4, <2>5 DEF Read
<1>3. Clean(file, LineOf(d)) = [c \in {c \in Columns(file) : value(c) # <<>>} |-> value(c)]
  BY DEF Clean
<1> HIDE DEF value, Read
<1>4. {c \in CSV_KNOWN_HEADERS : value(c) # <<>>} = {c \in CSV_KNOWN_HEADERS : Read(d, c) # <<>>}
  BY <1>2
<1> QED BY <1>1, <1>2, <1>3, <1>4

\* An empty text has nothing to strip.
LEMMA StripNone == Strip(<<>>) = <<>>
BY DEF Strip

\* Stripping makes no text longer.
LEMMA StripShorter ==
  ASSUME NEW S, NEW w \in Seq(S)
  PROVE  Len(Strip(w)) \in Nat /\ Len(Strip(w)) <= Len(w)
<1> DEFINE kept == {i \in DOMAIN w : w[i] # Blank}
           m == CHOOSE i \in kept : \A j \in kept : i <= j
           n == CHOOSE i \in kept : \A j \in kept : j <= i
<1>1. Len(w) \in Nat /\ kept \in SUBSET (1 .. Len(w))
  OBVIOUS
<1>2. CASE kept = {}
  <2>1. Strip(w) = <<>>
    BY <1>2 DEF Strip
  <2>2. Len(Strip(w)) = 0
    BY <2>1
  <2> QED BY <1>1, <2>2
<1>3. CASE kept # {}
  <2>1. Strip(w) = SubSeq(w, m, n)
    BY <1>3 DEF Strip
  <2> HIDE DEF kept
  <2>2. \E i \in kept : \A j \in kept : i <= j
    <3>1. kept \in SUBSET Nat
      BY <1>1
    <3> QED BY <1>3, <3>1, Least
  <2>3. \E i \in kept : \A j \in kept : j <= i
    <3>1. kept \in SUBSET (0 .. Len(w))
      BY <1>1
    <3> QED BY <1>1, <1>3, <3>1, Greatest
  <2>4. m \in kept /\ n \in kept /\ m <= n
    BY <2>2, <2>3
  <2> HIDE DEF m, n
  <2>5. PICK p, k \in Nat : m = p + 1 /\ n = p + k /\ p + k <= Len(w) /\ k <= Len(w)
    <3>1. m \in 1 .. Len(w) /\ n \in 1 .. Len(w) /\ m <= n
      BY <1>1, <2>4
    <3>2. m - 1 \in Nat /\ n - (m - 1) \in Nat
      BY <3>1
    <3>3. /\ m = (m - 1) + 1 /\ n = (m - 1) + (n - (m - 1))
          /\ (m - 1) + (n - (m - 1)) <= Len(w) /\ n - (m - 1) <= Len(w)
      BY <1>1, <3>1
    <3> QED BY <3>2, <3>3
  <2>6. Len(SubSeq(w, p + 1, p + k)) = k
    BY <2>5, Slice
  <2> QED BY <2>1, <2>5, <2>6
<1> QED BY <1>2, <1>3

\* A text is its own cell, a number the cell of a numeral.
LEMMA CellOf ==
  ASSUME NEW d, NEW c
  PROVE  /\ d[c] = Null => Cell(d, c) = <<>>
         /\ \A w : d[c] = Text(w) => Cell(d, c) = w
         /\ \A x : d[c] = <<"time", x>> => Cell(d, c) = Iso[x]
         /\ \A n : d[c] = <<"num", n>> => Cell(d, c) = <<CHOOSE t \in DOMAIN Numeral : Numeral[t] = n>>
<1>1. d[c] = Null => Cell(d, c) = <<>>
  BY DEF Cell
<1>2. ASSUME NEW w, d[c] = Text(w) PROVE Cell(d, c) = w
  <2>1. Text(w)[1] = "text" /\ Text(w)[2] = w /\ Text(w) # Null
    BY DEF Text, Null
  <2>2. Str(Text(w)) = w
    BY <2>1 DEF Str, IsA
  <2> QED BY <1>2, <2>1, <2>2 DEF Cell, IsA
<1>3. ASSUME NEW x, d[c] = <<"time", x>> PROVE Cell(d, c) = Iso[x]
  <2>1. <<"time", x>>[1] = "time" /\ <<"time", x>>[2] = x /\ <<"time", x>> # Null
    BY DEF Null
  <2> QED BY <1>3, <2>1 DEF Cell, IsA
<1>4. ASSUME NEW n, d[c] = <<"num", n>>
      PROVE  Cell(d, c) = <<CHOOSE t \in DOMAIN Numeral : Numeral[t] = n>>
  <2>1. <<"num", n>>[1] = "num" /\ <<"num", n>>[2] = n /\ <<"num", n>> # Null
    BY DEF Null
  <2>2. Str(<<"num", n>>) = <<CHOOSE t \in DOMAIN Numeral : Numeral[t] = n>>
    BY <2>1 DEF Str, IsA
  <2> QED BY <1>4, <2>1, <2>2 DEF Cell, IsA
<1> QED BY <1>1, <1>2, <1>3, <1>4

\* The VLANs there are.
VlanNumbers == 1 .. 4094

\* What is stripped of the cells of a device is what comes back.
LEMMA CellsReadBack ==
  ASSUME NEW d, MabDevice(d)
  PROVE  /\ Read(d, "mac_address") # <<>> /\ Read(d, "mac_address") \in DOMAIN NormalMac
         /\ Trim(d["mac_address"]) = d["mac_address"]
         /\ d["mac_address"] = Text(NormalMac[Read(d, "mac_address")])
         /\ \A c \in {"name", "description", "device_type"} :
              /\ Trim(d[c]) = IF Read(d, c) = <<>> THEN Null ELSE Text(Read(d, c))
              /\ c \in DOMAIN Width => Read(d, c) = <<>> \/ Len(Read(d, c)) <= Width[c]
         /\ \/ Read(d, "assigned_vlan_id") = <<>> /\ Trim(d["assigned_vlan_id"]) = Null
            \/ \E t \in DOMAIN Numeral :
                 /\ Read(d, "assigned_vlan_id") = <<t>> /\ Numeral[t] \in VlanNumbers
                 /\ Trim(d["assigned_vlan_id"]) = <<"num", Numeral[t]>>
         /\ \/ Read(d, "expiry_date") = <<>> /\ Trim(d["expiry_date"]) = Null
            \/ /\ Read(d, "expiry_date") # <<>> /\ Read(d, "expiry_date") \in DOMAIN Instant
               /\ Trim(d["expiry_date"]) = <<"time", Instant[Read(d, "expiry_date")]>>
<1>1. /\ Read(d, "mac_address") # <<>> /\ Read(d, "mac_address") \in DOMAIN NormalMac
      /\ Trim(d["mac_address"]) = d["mac_address"]
      /\ d["mac_address"] = Text(NormalMac[Read(d, "mac_address")])
  <2>1. PICK m \in DOMAIN NormalMac : d["mac_address"] = Text(m) /\ NormalMac[m] = m /\ m # <<>> /\ Strip(m) = m
    BY DEF MabDevice
  <2>2. Read(d, "mac_address") = m
    BY <2>1, CellOf DEF Read
  <2>3. Trim(Text(m)) = Text(m)
    <3>1. Text(m)[1] = "text" /\ Text(m)[2] = m
      BY DEF Text
    <3> QED BY <2>1, <3>1 DEF Trim, IsA
  <2> QED BY <2>1, <2>2, <2>3
<1>0. Trim(Null) = Null
  <2>1. Null[1] # "text"
    BY DEF Null
  <2> QED BY <2>1 DEF Trim, IsA
<1>2. ASSUME NEW c \in {"name", "description", "device_type"}
      PROVE  /\ Trim(d[c]) = IF Read(d, c) = <<>> THEN Null ELSE Text(Read(d, c))
             /\ c \in DOMAIN Width => Read(d, c) = <<>> \/ Len(Read(d, c)) <= Width[c]
  <2>1. Optional(d[c], {"text"} \X Seq(Token))
    BY DEF MabDevice
  <2>2. CASE d[c] = Null
    BY <1>0, <2>2, CellOf, StripNone DEF Read
  <2>3. CASE d[c] \in {"text"} \X Seq(Token)
    <3>1. PICK w : d[c] = Text(w)
      BY <2>3 DEF Text
    <3>2. Text(w)[1] = "text" /\ Text(w)[2] = w
      BY DEF Text
    <3>3. Read(d, c) = Strip(w)
      BY <3>1, CellOf DEF Read
    <3>4. Trim(d[c]) = IF Read(d, c) = <<>> THEN Null ELSE Text(Read(d, c))
      BY <3>1, <3>2, <3>3 DEF Trim, IsA
    <3>5. ASSUME c \in DOMAIN Width PROVE Len(Read(d, c)) <= Width[c]
      <4>1. d[c] # Null /\ d[c][2] = w
        <5>1. Text(w) # Null
          BY DEF Text, Null
        <5> QED BY <3>1, <3>2, <5>1
      <4>2. Len(w) <= Width[c]
        BY <3>5, <4>1 DEF MabDevice, Fits
      <4>3. w \in Seq(Token)
        BY <2>3, <4>1
      <4>4. Len(Strip(w)) \in Nat /\ Len(Strip(w)) <= Len(w) /\ Len(w) \in Nat
        BY <4>3, StripShorter
      <4>5. Width[c] \in Nat
        BY <3>5, WidthAssumption
      <4>6. Len(Strip(w)) <= Width[c]
        BY <4>2, <4>4, <4>5
      <4> QED BY <3>3, <4>6
    <3> QED BY <3>4, <3>5
  <2> QED BY <2>1, <2>2, <2>3 DEF Optional
<1>3. \/ Read(d, "assigned_vlan_id") = <<>> /\ Trim(d["assigned_vlan_id"]) = Null
      \/ \E t \in DOMAIN Numeral :
           /\ Read(d, "assigned_vlan_id") = <<t>> /\ Numeral[t] \in VlanNumbers
           /\ Trim(d["assigned_vlan_id"]) = <<"num", Numeral[t]>>
  <2> DEFINE v == d["assigned_vlan_id"]
  <2>1. CASE v = Null
    BY <1>0, <2>1, CellOf, StripNone DEF Read
  <2>2. CASE v # Null
    <3>0. v \in {<<"num", Numeral[t]>> : t \in {t \in DOMAIN Numeral : Numeral[t] \in 1 .. 4094}}
      <4>1. Optional(v, {<<"num", Numeral[t]>> : t \in {t \in DOMAIN Numeral : Numeral[t] \in 1 .. 4094}})
        BY DEF MabDevice
      <4> QED BY <2>2, <4>1 DEF Optional
    <3>1. PICK r \in DOMAIN Numeral : Numeral[r] \in VlanNumbers /\ v = <<"num", Numeral[r]>>
      BY <3>0 DEF VlanNumbers
    <3> DEFINE t == CHOOSE t \in DOMAIN Numeral : Numeral[t] = Numeral[r]
    <3>2. t \in DOMAIN Numeral /\ Numeral[t] = Numeral[r]
      OBVIOUS
    <3>3. Cell(d, "assigned_vlan_id") = <<t>>
      BY <3>1, CellOf
    <3> HIDE DEF t
    <3>4. Strip(<<t>>) = <<t>>
      BY <3>2, NumeralAssumption, StripOne
    <3>5. Trim(<<"num", Numeral[r]>>) = <<"num", Numeral[r]>>
      <4>1. <<"num", Numeral[r]>>[1] # "text"
        OBVIOUS
      <4> QED BY <4>1 DEF Trim, IsA
    <3>6. Read(d, "assigned_vlan_id") = <<t>>
      BY <3>3, <3>4 DEF Read
    <3>7. Numeral[t] \in VlanNumbers
      BY <3>1, <3>2
    <3>8. Trim(v) = <<"num", Numeral[t]>>
      BY <3>1, <3>2, <3>5
    <3> QED BY <3>2, <3>6, <3>7, <3>8
  <2> QED BY <2>1, <2>2
<1>4. \/ Read(d, "expiry_date") = <<>> /\ Trim(d["expiry_date"]) = Null
      \/ /\ Read(d, "expiry_date") # <<>> /\ Read(d, "expiry_date") \in DOMAIN Instant
         /\ Trim(d["expiry_date"]) = <<"time", Instant[Read(d, "expiry_date")]>>
  <2> DEFINE v == d["expiry_date"]
  <2>1. CASE v = Null
    BY <1>0, <2>1, CellOf, StripNone DEF Read
  <2>2. CASE v # Null
    <3>1. PICK x \in DOMAIN Iso : /\ v = <<"time", x>>
                                  /\ Iso[x] \in DOMAIN Instant /\ Instant[Iso[x]] = x
                                  /\ Iso[x] # <<>> /\ Strip(Iso[x]) = Iso[x]
      BY <2>2 DEF MabDevice, Optional
    <3>2. Read(d, "expiry_date") = Iso[x]
      BY <3>1, CellOf DEF Read
    <3>3. Trim(<<"time", x>>) = <<"time", x>>
      <4>1. <<"time", x>>[1] # "text"
        OBVIOUS
      <4> QED BY <4>1 DEF Trim, IsA
    <3> QED BY <3>1, <3>2, <3>3
  <2> QED BY <2>1, <2>2
<1> QED BY <1>1, <1>2, <1>3, <1>4

\* What the validators make of each column.
LEMMA ItemColumns ==
  ASSUME NEW given
  PROVE  LET item == MabDeviceBulkItem(given) IN
         /\ \A c \in CSV_KNOWN_HEADERS : c \notin DOMAIN given => item[c] = Null
         /\ "mac_address" \in DOMAIN given => item["mac_address"] = Text(NormalMac[given["mac_address"]])
         /\ "assigned_vlan_id" \in DOMAIN given =>
              item["assigned_vlan_id"] = <<"num", Numeral[given["assigned_vlan_id"][1]]>>
         /\ "expiry_date" \in DOMAIN given => item["expiry_date"] = <<"time", Instant[given["expiry_date"]]>>
         /\ \A c \in {"name", "description", "device_type"} :
              c \in DOMAIN given => item[c] = Text(given[c])
<1> DEFINE item == MabDeviceBulkItem(given)
           column(c) ==
             CASE c \notin DOMAIN given -> Null
               [] c \in DOMAIN given /\ c = "mac_address" -> Text(NormalMac[given[c]])
               [] c \in DOMAIN given /\ c = "assigned_vlan_id" -> <<"num", Numeral[given[c][1]]>>
               [] c \in DOMAIN given /\ c = "expiry_date" -> <<"time", Instant[given[c]]>>
               [] OTHER -> Text(given[c])
<1>1. item = [c \in CSV_KNOWN_HEADERS |-> column(c)]
  BY DEF MabDeviceBulkItem
<1> HIDE DEF item, column
<1>2. \A c \in CSV_KNOWN_HEADERS : item[c] = column(c)
  BY <1>1
<1>3. /\ "mac_address" \in CSV_KNOWN_HEADERS /\ "assigned_vlan_id" \in CSV_KNOWN_HEADERS
      /\ "expiry_date" \in CSV_KNOWN_HEADERS
      /\ \A c \in {"name", "description", "device_type"} :
           c \in CSV_KNOWN_HEADERS /\ c # "mac_address" /\ c # "assigned_vlan_id" /\ c # "expiry_date"
  BY DEF CSV_KNOWN_HEADERS
<1>4. \A c \in CSV_KNOWN_HEADERS : c \notin DOMAIN given => item[c] = Null
  BY <1>2 DEF column
<1>5. "mac_address" \in DOMAIN given => item["mac_address"] = Text(NormalMac[given["mac_address"]])
  BY <1>2, <1>3 DEF column
<1>6. "assigned_vlan_id" \in DOMAIN given =>
        item["assigned_vlan_id"] = <<"num", Numeral[given["assigned_vlan_id"][1]]>>
  BY <1>2, <1>3 DEF column
<1>7. "expiry_date" \in DOMAIN given => item["expiry_date"] = <<"time", Instant[given["expiry_date"]]>>
  BY <1>2, <1>3 DEF column
<1>8. \A c \in {"name", "description", "device_type"} : c \in DOMAIN given => item[c] = Text(given[c])
  BY <1>2, <1>3 DEF column
<1> QED BY <1>4, <1>5, <1>6, <1>7, <1>8 DEF item

\* The columns of a written device, read again, are valid and make the device.
LEMMA ItemBack ==
  ASSUME NEW d, MabDevice(d), NEW given,
         given = [c \in {c \in CSV_KNOWN_HEADERS : Read(d, c) # <<>>} |-> Read(d, c)]
  PROVE  /\ Valid(given)
         /\ MabDeviceBulkItem(given)["mac_address"] = d["mac_address"]
         /\ Enlisted(MabDeviceBulkItem(given)) = Back(d)
         /\ Fits(MabDeviceBulkItem(given))
<1>1. \A c \in CSV_KNOWN_HEADERS : /\ c \in DOMAIN given <=> Read(d, c) # <<>>
                                   /\ c \in DOMAIN given => given[c] = Read(d, c)
  OBVIOUS
<1>2. /\ "mac_address" \in CSV_KNOWN_HEADERS /\ "assigned_vlan_id" \in CSV_KNOWN_HEADERS
      /\ "expiry_date" \in CSV_KNOWN_HEADERS /\ "enabled" \notin CSV_KNOWN_HEADERS
      /\ \A c \in CSV_KNOWN_HEADERS :
           \/ c = "mac_address" \/ c = "assigned_vlan_id" \/ c = "expiry_date"
           \/ /\ c \in {"name", "description", "device_type"}
              /\ c # "mac_address" /\ c # "assigned_vlan_id" /\ c # "expiry_date"
  BY DEF CSV_KNOWN_HEADERS
<1> HIDE DEF Read
<1>3. given.mac_address = given["mac_address"] /\ given.assigned_vlan_id = given["assigned_vlan_id"]
      /\ given.expiry_date = given["expiry_date"]
  OBVIOUS
<1>4. Valid(given)
  <2>1. "mac_address" \in DOMAIN given /\ given["mac_address"] \in DOMAIN NormalMac
    BY <1>1, <1>2, CellsReadBack
  <2>2. "assigned_vlan_id" \in DOMAIN given =>
          \E t \in DOMAIN Numeral : given["assigned_vlan_id"] = <<t>> /\ Numeral[t] \in VlanNumbers
    BY <1>1, <1>2, CellsReadBack
  <2>3. "expiry_date" \in DOMAIN given => given["expiry_date"] \in DOMAIN Instant
    BY <1>1, <1>2, CellsReadBack
  <2> QED BY <1>3, <2>1, <2>2, <2>3 DEF Valid, VlanNumbers
<1> DEFINE item == MabDeviceBulkItem(given)
<1>5. /\ \A c \in CSV_KNOWN_HEADERS : c \notin DOMAIN given => item[c] = Null
      /\ "mac_address" \in DOMAIN given => item["mac_address"] = Text(NormalMac[given["mac_address"]])
      /\ "assigned_vlan_id" \in DOMAIN given =>
           item["assigned_vlan_id"] = <<"num", Numeral[given["assigned_vlan_id"][1]]>>
      /\ "expiry_date" \in DOMAIN given => item["expiry_date"] = <<"time", Instant[given["expiry_date"]]>>
      /\ \A c \in {"name", "description", "device_type"} :
           c \in DOMAIN given => item[c] = Text(given[c])
  BY ItemColumns
<1> HIDE DEF item
<1>6. item["mac_address"] = Trim(d["mac_address"]) /\ Trim(d["mac_address"]) = d["mac_address"]
  <2>1. /\ Read(d, "mac_address") # <<>> /\ Trim(d["mac_address"]) = d["mac_address"]
        /\ d["mac_address"] = Text(NormalMac[Read(d, "mac_address")])
    BY CellsReadBack
  <2>2. "mac_address" \in DOMAIN given /\ given["mac_address"] = Read(d, "mac_address")
    BY <1>1, <1>2, <2>1
  <2> QED BY <1>5, <2>1, <2>2
<1>7. \A c \in {"name", "description", "device_type"} :
        c \in CSV_KNOWN_HEADERS /\ c # "mac_address" /\ c # "assigned_vlan_id" /\ c # "expiry_date"
          => item[c] = Trim(d[c])
  <2> TAKE c \in {"name", "description", "device_type"}
  <2>1. Trim(d[c]) = IF Read(d, c) = <<>> THEN Null ELSE Text(Read(d, c))
    BY CellsReadBack
  <2> QED BY <1>1, <1>5, <2>1
<1>8. item["assigned_vlan_id"] = Trim(d["assigned_vlan_id"])
  <2>1. \/ Read(d, "assigned_vlan_id") = <<>> /\ Trim(d["assigned_vlan_id"]) = Null
        \/ \E t \in DOMAIN Numeral :
             /\ Read(d, "assigned_vlan_id") = <<t>> /\ Numeral[t] \in VlanNumbers
             /\ Trim(d["assigned_vlan_id"]) = <<"num", Numeral[t]>>
    BY CellsReadBack
  <2>2. CASE Read(d, "assigned_vlan_id") = <<>> /\ Trim(d["assigned_vlan_id"]) = Null
    BY <1>1, <1>2, <1>5, <2>2
  <2>3. ASSUME NEW t \in DOMAIN Numeral, Read(d, "assigned_vlan_id") = <<t>>,
               Trim(d["assigned_vlan_id"]) = <<"num", Numeral[t]>>
        PROVE  item["assigned_vlan_id"] = Trim(d["assigned_vlan_id"])
    <3>1. <<t>> # <<>> /\ <<t>>[1] = t
      OBVIOUS
    <3>2. "assigned_vlan_id" \in DOMAIN given /\ given["assigned_vlan_id"] = <<t>>
      BY <1>1, <1>2, <2>3, <3>1
    <3>3. item["assigned_vlan_id"] = <<"num", Numeral[<<t>>[1]]>>
      BY <1>2, <1>5, <3>2
    <3> QED BY <2>3, <3>1, <3>3
  <2> QED BY <2>1, <2>2, <2>3
<1>9. item["expiry_date"] = Trim(d["expiry_date"])
  BY <1>1, <1>2, <1>5, CellsReadBack
<1>10. \A c \in CSV_KNOWN_HEADERS : item[c] = Trim(d[c])
  <2> TAKE c \in CSV_KNOWN_HEADERS
  <2> QED BY <1>2, <1>6, <1>7, <1>8, <1>9
<1>11. Enlisted(item) = Back(d)
  <2>1. DOMAIN d = CSV_KNOWN_HEADERS \cup {"enabled"}
    BY DEF MabDevice
  <2>2. Enlisted(item) = [c \in CSV_KNOWN_HEADERS \cup {"enabled"} |-> IF c = "enabled" THEN TRUE ELSE Trim(d[c])]
    BY <1>2, <1>10 DEF Enlisted
  <2> QED BY <2>1, <2>2 DEF Back
<1>12. Fits(item)
  <2>1. \A c \in DOMAIN Width : c \in {"name", "description", "device_type"}
    BY WidthAssumption
  <2>2. ASSUME NEW c \in DOMAIN Width PROVE item[c] = Null \/ Len(item[c][2]) <= Width[c]
    <3>1. c \in {"name", "description", "device_type"} /\ c \in CSV_KNOWN_HEADERS
      BY <2>1 DEF CSV_KNOWN_HEADERS
    <3>2. CASE Read(d, c) = <<>>
      BY <1>1, <1>5, <3>1, <3>2
    <3>3. CASE Read(d, c) # <<>>
      <4>1. item[c] = Text(Read(d, c))
        BY <1>1, <1>5, <3>1, <3>3
      <4>2. Text(Read(d, c))[2] = Read(d, c)
        BY DEF Text
      <4>3. Len(Read(d, c)) <= Width[c]
        BY <3>1, <3>3, CellsReadBack
      <4> QED BY <4>1, <4>2, <4>3
    <3> QED BY <3>2, <3>3
  <2> QED BY <2>2 DEF Fits
<1> QED BY <1>4, <1>6, <1>11, <1>12 DEF item

\* A finite set as a sequence: each element once.
LEMMA Enumerated ==
  ASSUME NEW S, IsFiniteSet(S)
  PROVE  \E n \in Nat : /\ SetToSeq(S) \in [1 .. n -> S]
                        /\ \A i, j \in 1 .. n : SetToSeq(S)[i] = SetToSeq(S)[j] => i = j
                        /\ \A x \in S : \E i \in 1 .. n : SetToSeq(S)[i] = x
<1> DEFINE n == Cardinality(S)
           f == SetToSeq(S)
<1>1. n \in Nat /\ ExistsBijection(1 .. n, S)
  BY FS_CardinalityType
<1>2. \E g \in [1 .. n -> S] : IsInjective(g)
  BY <1>1 DEF ExistsBijection, Bijection, Injection
<1>3. f \in [1 .. n -> S] /\ IsInjective(f)
  BY <1>2 DEF SetToSeq
<1> HIDE DEF f
<1>4. f \in Injection(1 .. n, S)
  BY <1>3 DEF Injection
<1>5. IsFiniteSet(1 .. n) /\ Cardinality(1 .. n) = Cardinality(S)
  BY <1>1, FS_Interval
<1>6. f \in Surjection(1 .. n, S)
  BY <1>4, <1>5, FS_Injection
<1>7. \A x \in S : \E i \in 1 .. n : f[i] = x
  BY <1>6 DEF Surjection
<1>8. \A i, j \in 1 .. n : f[i] = f[j] => i = j
  BY <1>3 DEF IsInjective
<1> HIDE DEF n
<1> QED BY <1>1, <1>3, <1>7, <1>8 DEF f

\* Items of different addresses are all inserted into an empty table.
LEMMA ImportAll ==
  ASSUME NEW items, NEW n \in Nat, DOMAIN items = 1 .. n,
         \A i, j \in 1 .. n : items[i]["mac_address"] = items[j]["mac_address"] => i = j
  PROVE  BulkImport(items, n, {}).table = {Enlisted(items[i]) : i \in 1 .. n}
<1>1. PICK f : /\ f[0] = [table |-> {}, created |-> 0, skipped |-> 0]
               /\ \A m \in 1 .. n : f[m] = Line(items, f[m - 1], m)
               /\ BulkImport(items, n, {}) = f[n]
  <2>1. \A table : \E f : /\ f[0] = [table |-> table, created |-> 0, skipped |-> 0]
                          /\ \A m \in 1 .. n : f[m] = Line(items, f[m - 1], m)
                          /\ BulkImport(items, n, table) = f[n]
    BY Imported
  <2> QED BY <2>1
<1> DEFINE row(i) == Enlisted(items[i])
           T == {m \in 0 .. n : f[m].table = {row(i) : i \in 1 .. m}}
<1>2. T = 0 .. n
  <2>1. 0 \in T
    <3>1. f[0].table = {} /\ 0 \in 0 .. n /\ 1 .. 0 = {}
      BY <1>1
    <3> HIDE DEF row
    <3> QED BY <3>1
  <2>2. ASSUME NEW m \in 1 .. n, m - 1 \in T PROVE m \in T
    <3>1. PICK k : k = m - 1
      OBVIOUS
    <3>2. f[k].table = {row(i) : i \in 1 .. k}
      BY <2>2, <3>1
    <3>3. f[m] = Line(items, f[k], m)
      BY <1>1, <3>1
    <3>4. f[m] = BulkInsert(f[k], items[m])
      BY <3>3 DEF Line
    <3>5. /\ m \in 0 .. n /\ 1 .. m = (1 .. k) \cup {m}
          /\ \A i \in 1 .. k : i \in 1 .. n /\ i # m
      BY <3>1
    <3>6. ~\E d \in f[k].table : d["mac_address"] = items[m]["mac_address"]
      <4>1. SUFFICES ASSUME NEW i \in 1 .. k, row(i)["mac_address"] = items[m]["mac_address"] PROVE FALSE
        <5> HIDE DEF row
        <5> QED BY <3>2
      <4>2. row(i)["mac_address"] = items[i]["mac_address"]
        BY DEF Enlisted, CSV_KNOWN_HEADERS
      <4> HIDE DEF row
      <4> QED BY <3>5, <4>1, <4>2
    <3>7. f[m].table = f[k].table \cup {row(m)}
      <4> HIDE DEF T
      <4>1. BulkInsert(f[k], items[m]) =
              [table |-> f[k].table \cup {row(m)}, created |-> f[k].created + 1, skipped |-> f[k].skipped]
        BY <3>6 DEF BulkInsert
      <4> HIDE DEF row
      <4> QED BY <3>4, <4>1
    <3> HIDE DEF row
    <3>8. f[m].table = {row(i) : i \in 1 .. m}
      BY <3>2, <3>5, <3>7
    <3> QED BY <3>5, <3>8
  <2>3. T \in SUBSET (0 .. n)
    OBVIOUS
  <2> HIDE DEF T
  <2> QED BY <2>1, <2>2, <2>3, Climb
<1>3. n \in T
  <2>1. n \in 0 .. n
    OBVIOUS
  <2> HIDE DEF T
  <2> QED BY <1>2, <2>1
<1> QED BY <1>1, <1>3

\* An export is read without an error, an item for every device.
LEMMA ExportParsed ==
  ASSUME NEW table, NEW n \in Nat, NEW devices \in [1 .. n -> table], devices = SetToSeq(table),
         \A d \in table : MabDevice(d)
  PROVE  LET file == ExportCsv(table) IN
         /\ Len(file.lines) = n
         /\ Columns(file) = CSV_KNOWN_HEADERS
         /\ ~Overlong(file)
         /\ Parsed(file) = [items |-> [i \in 1 .. n |-> MabDeviceBulkItem(Clean(file, LineOf(devices[i])))],
                            errors |-> {}]
<1> DEFINE file == ExportCsv(table)
<1>0. ExportCsv(table) = [header |-> Header, lines |-> [i \in DOMAIN devices |-> LineOf(devices[i])]]
  BY DEF ExportCsv, Header, LineOf
<1>1. DOMAIN devices = 1 .. n
  OBVIOUS
<1>2. file.header = Header /\ file.lines = [i \in 1 .. n |-> LineOf(devices[i])]
  BY <1>0, <1>1
<1> HIDE DEF file
<1> DEFINE given(i) == Clean(file, LineOf(devices[i]))
<1>3. DOMAIN file.lines = 1 .. n /\ \A i \in 1 .. n : file.lines[i] = LineOf(devices[i])
  BY <1>2
<1>4. Len(file.lines) = n
  BY <1>3
<1>5. Columns(file) = CSV_KNOWN_HEADERS
  BY <1>2, Cleaned
<1>6. ASSUME NEW d PROVE DOMAIN LineOf(d) = 1 .. 6 /\ Len(LineOf(d)) = 6 /\ LineOf(d)[1] = Cell(d, "mac_address")
  <2>1. DOMAIN LineOf(d) = 1 .. 6 /\ LineOf(d)[1] = Cell(d, CsvHeader[1])
    BY DEF LineOf
  <2>2. CsvHeader[1] = "mac_address"
    BY DEF CsvHeader
  <2> HIDE DEF LineOf
  <2>3. Len(LineOf(d)) = 6
    BY <2>1
  <2> QED BY <2>1, <2>2, <2>3
<1>7. ~Overlong(file)
  <2>1. Len(Header) = 6
    BY HeaderColumns
  <2>2. \A i \in 1 .. n : Len(file.lines[i]) = 6
    BY <1>3, <1>6
  <2>3. Len(file.header) = 6
    BY <1>2, <2>1
  <2>4. \A i \in DOMAIN file.lines : ~(Len(file.lines[i]) > Len(file.header))
    <3>1. \A i \in DOMAIN file.lines : Len(file.lines[i]) = 6
      BY <1>3, <2>2
    <3>2. ~(6 > 6)
      OBVIOUS
    <3> QED BY <2>3, <3>1, <3>2
  <2> QED BY <2>4 DEF Overlong
<1>8. ASSUME NEW i \in 1 .. n PROVE ~Blanks(file.lines[i]) /\ Valid(given(i))
  <2>1. MabDevice(devices[i])
    OBVIOUS
  <2>2. given(i) = [c \in {c \in CSV_KNOWN_HEADERS : Read(devices[i], c) # <<>>} |-> Read(devices[i], c)]
    <3>1. file.header = Header
      BY <1>2
    <3>2. ASSUME NEW d PROVE Clean(file, LineOf(d)) = [c \in {c \in CSV_KNOWN_HEADERS : Read(d, c) # <<>>} |-> Read(d, c)]
      BY <3>1, Cleaned
    <3> QED BY <3>2
  <2> HIDE DEF given
  <2>3. Valid(given(i))
    BY <2>1, <2>2, ItemBack
  <2>4. Strip(LineOf(devices[i])[1]) # <<>>
    BY <1>6, <2>1, CellsReadBack DEF Read
  <2>5. 1 \in DOMAIN LineOf(devices[i])
    BY <1>6
  <2> QED BY <1>3, <2>3, <2>4, <2>5 DEF Blanks
<1>9. Parsed(file) = [items |-> [i \in 1 .. n |-> MabDeviceBulkItem(given(i))], errors |-> {}]
  <2> DEFINE tried == {i \in DOMAIN file.lines : ~Blanks(file.lines[i])}
             read  == [i \in tried |-> Clean(file, file.lines[i])]
             good  == {i \in tried : Valid(read[i])}
  <2>1. tried = 1 .. n
    <3> HIDE DEF given
    <3> QED BY <1>3, <1>8
  <2>2. \A i \in tried : read[i] = given(i)
    <3> HIDE DEF tried
    <3> QED BY <1>3, <2>1
  <2>3. "mac_address" \in Columns(file)
    BY <1>5 DEF CSV_KNOWN_HEADERS
  <2>4. Parsed(file) = [items |-> [i \in good |-> MabDeviceBulkItem(read[i])], errors |-> tried \ good]
    BY <2>3 DEF Parsed
  <2> HIDE DEF tried, read, given
  <2>5. good = 1 .. n
    BY <1>8, <2>1, <2>2
  <2> HIDE DEF good
  <2>6. [i \in good |-> MabDeviceBulkItem(read[i])] = [i \in 1 .. n |-> MabDeviceBulkItem(given(i))]
    BY <2>1, <2>2, <2>5
  <2>7. tried \ good = {}
    BY <2>1, <2>5
  <2> QED BY <2>4, <2>6, <2>7
<1> QED BY <1>4, <1>5, <1>7, <1>9 DEF file

\* What a table is exported to restores it when it is imported again.
LEMMA TableBack ==
  ASSUME NEW table, IsFiniteSet(table), \A d \in table : MabDevice(d),
         \A d, e \in table : d["mac_address"] = e["mac_address"] => d = e
  PROVE  /\ ImportCsv(ExportCsv(table), {}).errors = {}
         /\ ImportCsv(ExportCsv(table), {}).table = {Back(d) : d \in table}
<1> DEFINE file == ExportCsv(table)
           devices == SetToSeq(table)
           items(n) == [i \in 1 .. n |-> MabDeviceBulkItem(Clean(file, LineOf(devices[i])))]
<1>1. PICK n \in Nat : /\ devices \in [1 .. n -> table]
                       /\ \A i, j \in 1 .. n : devices[i] = devices[j] => i = j
                       /\ \A d \in table : \E i \in 1 .. n : devices[i] = d
  BY Enumerated
<1>2. /\ Len(file.lines) = n /\ Columns(file) = CSV_KNOWN_HEADERS /\ ~Overlong(file)
      /\ Parsed(file) = [items |-> items(n), errors |-> {}]
  BY <1>1, ExportParsed
<1> DEFINE done == BulkImport(items(n), n, {})
<1>4. file.header = Header
  BY DEF ExportCsv, Header
<1> HIDE DEF file
<1>5. ASSUME NEW i \in 1 .. n
      PROVE  /\ items(n)[i]["mac_address"] = devices[i]["mac_address"]
             /\ Enlisted(items(n)[i]) = Back(devices[i])
             /\ Fits(items(n)[i])
  <2> DEFINE given == Clean(file, LineOf(devices[i]))
  <2>1. MabDevice(devices[i])
    BY <1>1
  <2> HIDE DEF devices
  <2>2. given = [c \in {c \in CSV_KNOWN_HEADERS : Read(devices[i], c) # <<>>} |-> Read(devices[i], c)]
    <3>1. ASSUME NEW d PROVE Clean(file, LineOf(d)) = [c \in {c \in CSV_KNOWN_HEADERS : Read(d, c) # <<>>} |-> Read(d, c)]
      BY <1>4, Cleaned
    <3> QED BY <3>1
  <2>3. items(n)[i] = MabDeviceBulkItem(given)
    OBVIOUS
  <2> HIDE DEF given, items
  <2> QED BY <2>1, <2>2, <2>3, ItemBack
<1>6. DOMAIN items(n) = 1 .. n
  OBVIOUS
<1>3. ImportCsv(file, {}).table = done.table /\ ImportCsv(file, {}).errors = {}
  <2> HIDE DEF done
  <2>1. ~Refused(items(n))
    BY <1>5, <1>6 DEF Refused
  <2> HIDE DEF items
  <2>2. "mac_address" \in Columns(file) => ~Overlong(file)
    BY <1>2
  <2>3. Parsed(file).items = items(n) /\ Parsed(file).errors = {}
    BY <1>2
  <2>4. ImportCsv(file, {}) = [table |-> done.table, created |-> done.created, errors |-> {}]
    BY <1>2, <2>1, <2>2, <2>3 DEF ImportCsv, done
  <2> QED BY <2>4
<1> HIDE DEF items, devices
<1>7. \A i, j \in 1 .. n : items(n)[i]["mac_address"] = items(n)[j]["mac_address"] => i = j
  BY <1>1, <1>5
<1>8. done.table = {Enlisted(items(n)[i]) : i \in 1 .. n}
  BY <1>6, <1>7, ImportAll
<1>9. {Enlisted(items(n)[i]) : i \in 1 .. n} = {Back(d) : d \in table}
  BY <1>1, <1>5
<1> HIDE DEF done
<1>10. ImportCsv(file, {}).table = {Back(d) : d \in table}
  BY <1>3, <1>8, <1>9
<1> QED BY <1>3, <1>10 DEF file

\* An exported table comes back from its file without an error and as it was,
\* but for blanks and "enabled", and a file of any lines only adds devices to
\* any table, and only once.
THEOREM CsvFilesRoundTrip == Functions => []CsvRoundTrip
<1>1. ASSUME Supplied PROVE CsvRoundTrip
  <2>1. SUFFICES ASSUME asked = "csv"
                 PROVE  ExportComesBack(test.table) /\ ImportOnlyAdds(test.file, test.table)
    BY DEF CsvRoundTrip
  <2>2. test \in CsvFiles
    BY <1>1, <2>1, Supply
  <2>3. /\ IsFiniteSet(test.table) /\ \A d \in test.table : MabDevice(d)
        /\ \A d, e \in test.table : d["mac_address"] = e["mac_address"] => d = e
    BY <2>2, CsvAssumption
  <2>4. ExportComesBack(test.table)
    <3>1. /\ ImportCsv(ExportCsv(test.table), {}).errors = {}
          /\ ImportCsv(ExportCsv(test.table), {}).table = {Back(d) : d \in test.table}
      BY <2>3, TableBack
    <3> QED BY <3>1 DEF ExportComesBack, Back, Trim
  <2>5. ImportOnlyAdds(test.file, test.table)
    <3>1. test.file \in [header : Seq(Seq(Token)), lines : Seq(Seq(Seq(Token)))]
      BY <2>2, CsvAssumption
    <3>2. test.file.lines \in Seq(Seq(Seq(Token)))
      BY <3>1
    <3>3. Len(test.file.lines) \in Nat
      BY <3>2, LenProperties
    <3> QED BY <3>3, ImportAlwaysAdds
  <2> QED BY <2>4, <2>5
<1> QED BY <1>1, InputKept, PTL
=============================================================================
