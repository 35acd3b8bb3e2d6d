------------------------ MODULE Certificates_proofs ------------------------
(***************************************************************************)
(* TypeOK, OneActive and ActiveSurvives, for every set of certificates,    *)
(* any number of concurrent requests and any number of failures.           *)
(*                                                                         *)
(* The argument: among the transactions that are past their deactivation   *)
(* of a kind at most one decides which certificate of the kind is active   *)
(* (they would wait for each other's rows, unless one has overlooked the   *)
(* other's), and the one that does has cleared every active row it sees.   *)
(***************************************************************************)
EXTENDS Certificates, TLAPS

\* Locks exclude each other, and what a transaction deletes it commits next.
LocksOK ==
  /\ \A t, u \in Proc : t # u =>
       \A c \in Cert : dirty[t][c] # None => dirty[u][c] = None
  /\ \A t \in Proc, c \in Cert : dirty[t][c] = "absent" => pc[t] = "commit"

\* A request that has not written yet holds nothing; a transaction that is
\* activating has a target.  It will visit every row it
\* has written itself, and once it has deactivated the others it holds its
\* target, unless that is gone for good.
LocalsOK ==
  \A t \in Proc :
    /\ pc[t] \in {"found", "wait", "activate", "delete"} => target[t] \in Cert
    /\ pc[t] \in {"idle", "delete"} => \A c \in Cert : dirty[t][c] = None
    /\ pc[t] = "wait" =>
         /\ \A c \in KindOf(target[t]) : dirty[t][c] # None => c \in seen[t]
         /\ target[t] \notin seen[t] => row[target[t]] = "absent"
         /\ seen[t] \subseteq KindOf(target[t])
    /\ pc[t] = "activate" =>
         (dirty[t][target[t]] = None => row[target[t]] = "absent")

\* An identity inserted but not committed is nobody else's target.
NewIsPrivate ==
  \A c \in Cert, t, u \in Proc :
    (row[c] = "absent" /\ dirty[t][c] # None /\ t # u) => target[u] # c

\* t has deactivated the kind and not yet activated its target.
Holds(t, kind) == /\ pc[t] = "activate" /\ KindOf(target[t]) = kind
                  /\ dirty[t][target[t]] # None

\* t is the transaction that decides which certificate of the kind is active.
Decides(t, kind) ==
  Holds(t, kind) \/ \E c \in kind : dirty[t][c] = "active"

\* Active rows of the kind, except c, that t leaves active.
Spares(t, kind, c) ==
  \E d \in kind \ {c} : \/ dirty[t][d] = "active"
                        \/ row[d] = "active" /\ dirty[t][d] = None

\* At most one transaction decides for a kind, and it spares nothing.
DecisionsOK ==
  \A kind \in {CA, Server} :
    /\ \A t, u \in Proc :
         Decides(t, kind) /\ Decides(u, kind) => t = u
    /\ \A t \in Proc : Holds(t, kind) => ~Spares(t, kind, None)
    /\ \A t \in Proc, c \in kind :
         dirty[t][c] = "active" => ~Spares(t, kind, c)

SafeInv == "phantom" \notin hurt => OneActiveIn(row) /\ DecisionsOK

\* A transaction that takes an active certificate away either puts another
\* in its place, before it can commit, or has been recorded.
ReplacesOK ==
  \A t \in Proc, c \in Cert :
    /\ (row[c] = "active" /\ dirty[t][c] = "absent") =>
         "deleted_active" \in hurt
    /\ (row[c] = "active" /\ dirty[t][c] = "inactive") =>
         \/ pc[t] = "activate" /\ KindOf(target[t]) = KindOf(c)
         \/ \E d \in KindOf(c) : dirty[t][d] = "active"

Rest == LocksOK /\ LocalsOK /\ NewIsPrivate /\ SafeInv /\ ReplacesOK
IInv == TypeOK /\ Rest

-----------------------------------------------------------------------------
\* The initial states satisfy the invariant.
LEMMA InitInv == Init => IInv
<1> SUFFICES ASSUME Init PROVE IInv
  OBVIOUS
<1> USE CertificatesAssumption DEF Init, Clean
<1>1. TypeOK
  BY DEF TypeOK, Label, Anomaly
<1>0. /\ \A t \in Proc, c \in Cert : dirty[t][c] = None
      /\ \A t \in Proc : pc[t] = "idle"
      /\ None # "absent" /\ None # "active" /\ None # "inactive"
  BY DEF Row
<1>2. LocksOK /\ LocalsOK /\ NewIsPrivate
  BY ONLY <1>0 DEF LocksOK, LocalsOK, NewIsPrivate
<1>3. SafeInv
  <2>1. OneActiveIn(row)
    OBVIOUS
  <2>2. DecisionsOK
    BY ONLY <1>0 DEF DecisionsOK, Decides, Holds, Cert
  <2> QED BY <2>1, <2>2 DEF SafeInv
<1>4. ReplacesOK
  BY ONLY <1>0 DEF ReplacesOK
<1> QED BY <1>1, <1>2, <1>3, <1>4 DEF IInv, Rest

-----------------------------------------------------------------------------
(* Types.                                                                  *)

\* A rollback keeps the types.
LEMMA RollbackType ==
  ASSUME TypeOK, NEW t \in Proc, Rollback(t), UNCHANGED <<actor, ops, hurt>>,
         faults' \in 0 .. MaxFaults
  PROVE  TypeOK'
BY CertificatesAssumption DEF TypeOK, Rollback, End, Goto, Clean, Label

\* A statement of a transaction keeps the types.
LEMMA StatementType ==
  ASSUME TypeOK, LocalsOK, NEW t \in Proc, Statement(t)
  PROVE  TypeOK'
<1> USE CertificatesAssumption DEF Goto
<1>1. CASE StartDeactivate(t)
  BY <1>1 DEF TypeOK, StartDeactivate, Label, KindOf, Cert
<1>2. CASE Deactivate(t)
  <2>1. dirty' \in [Proc -> [Cert -> Row \cup {None}]]
    BY <1>2 DEF TypeOK, Deactivate, Row
  <2>2. hurt' \in SUBSET Anomaly
    BY <1>2 DEF TypeOK, Deactivate, Anomaly
  <2> QED BY <1>2, <2>1, <2>2 DEF TypeOK, Deactivate, Label
<1>3. CASE Activate(t)
  <2>1. CASE Rollback(t)
    BY <1>3, <2>1, RollbackType DEF Activate, TypeOK
  <2>2. CASE ~Rollback(t)
    <3>1. dirty' = [dirty EXCEPT ![t][target[t]] = "active"]
      BY <1>3, <2>2 DEF Activate
    <3>2. dirty' \in [Proc -> [Cert -> Row \cup {None}]]
      BY <3>1 DEF TypeOK, Row
    <3>3. pc' \in [Proc -> Label]
      BY <1>3, <2>2 DEF TypeOK, Activate, NextLabel, Label
    <3> QED BY <1>3, <2>2, <3>2, <3>3 DEF TypeOK, Activate
  <2> QED BY <2>1, <2>2
<1>4. CASE Delete(t)
  <2>1. dirty' \in [Proc -> [Cert -> Row \cup {None}]]
    BY <1>4 DEF TypeOK, Delete, Row
  <2>2. hurt' \in SUBSET Anomaly
    BY <1>4 DEF TypeOK, Delete, Anomaly
  <2> QED BY <1>4, <2>1, <2>2 DEF TypeOK, Delete, Label
<1>5. CASE Commit(t)
  <2>1. row' \in [Cert -> Row]
    BY <1>5 DEF TypeOK, Commit, View
  <2> QED BY <1>5, <2>1 DEF TypeOK, Commit, End, Clean, Label
<1> QED BY <1>1, <1>2, <1>3, <1>4, <1>5 DEF Statement

\* Every step keeps the types.
LEMMA TypeStep ==
  ASSUME TypeOK, LocalsOK, [Next]_vars PROVE TypeOK'
<1> USE CertificatesAssumption DEF Goto
<1>1. ASSUME NEW t \in Admin, NEW c \in Cert,
             Insert(t, c) \/ BeginActivate(t, c) \/ BeginDelete(t, c)
      PROVE  TypeOK'
  <2>0. t \in Proc /\ (Request /\ ops \in 0 .. MaxOps => ops' \in 0 .. MaxOps)
    BY DEF Proc, Request
  <2> HIDE DEF Request
  <2>1. CASE Insert(t, c)
    BY <2>0, <2>1 DEF TypeOK, Insert, Label, Row
  <2>2. CASE BeginActivate(t, c)
    BY <2>0, <2>2 DEF TypeOK, BeginActivate, Label
  <2>3. CASE BeginDelete(t, c)
    BY <2>0, <2>3 DEF TypeOK, BeginDelete, Label
  <2> QED BY <1>1, <2>1, <2>2, <2>3
<1>2. ASSUME NEW t \in Proc, Statement(t) PROVE TypeOK'
  BY <1>2, StatementType
<1>3. ASSUME NEW t \in Proc, Abort(t) PROVE TypeOK'
  <2>1. faults' \in 0 .. MaxFaults
    BY <1>3 DEF TypeOK, Abort
  <2> QED BY <1>3, <2>1, RollbackType DEF Abort
<1>4. CASE Wake
  BY <1>4 DEF TypeOK, Wake, Candidates, Label
<1>5. ASSUME NEW c \in Server, Renew(c) PROVE TypeOK'
  <2>1. CASE Rollback(Renewer)
    BY <1>5, <2>1, RollbackType DEF Renew, TypeOK, Proc
  <2>2. CASE todo' = todo \ {c} /\ UNCHANGED <<dirty, target, twin>>
    BY <1>5, <2>2 DEF TypeOK, Renew, Label, NextLabel, Proc, Rollback, End
  <2>3. CASE /\ todo' = todo \ {c} /\ Goto(Renewer, "found")
             /\ UNCHANGED <<row, seen, actor, expiring, ops, faults, hurt>>
             /\ \E n \in FreshServer :
                  /\ dirty' = [dirty EXCEPT ![Renewer][n] = "inactive"]
                  /\ target' = [target EXCEPT ![Renewer] = n]
                  /\ twin' = [twin EXCEPT ![n] = c]
    BY <2>3 DEF TypeOK, FreshServer, Row, Label, Cert, Proc
  <2> QED BY <1>5, <2>1, <2>2, <2>3 DEF Renew
<1>6. CASE Restart
  BY <1>6 DEF TypeOK, Restart, Clean, Label
<1>7. CASE NewDay
  BY <1>7 DEF TypeOK, NewDay, Clean
<1>10. CASE ChangeActor
  <2>1. ops' \in 0 .. MaxOps /\ actor' \in BOOLEAN
    BY <1>10 DEF TypeOK, ChangeActor, Request
  <2> QED BY <1>10, <2>1 DEF TypeOK, ChangeActor
<1>8. ASSUME NEW c \in Server, Age(c) PROVE TypeOK'
  BY <1>8 DEF TypeOK, Age
<1>9. CASE UNCHANGED vars
  BY <1>9 DEF TypeOK, vars
<1> QED
  BY <1>1, <1>2, <1>3, <1>4, <1>5, <1>6, <1>7, <1>8, <1>9, <1>10 DEF Next, Loop

-----------------------------------------------------------------------------
(* Everything else, one lemma per shape of step.                            *)

\* Some transactions end without committing, the others do not move.
Keeps(u) == /\ dirty'[u] = dirty[u] /\ pc'[u] = pc[u]
            /\ target'[u] = target[u] /\ seen'[u] = seen[u]
Ends(u)  == dirty'[u] = Clean /\ pc'[u] = "idle" /\ target'[u] = None

\* Transactions that only go on or end keep the rest of the invariant.
LEMMA EndsSafe ==
  ASSUME IInv, UNCHANGED <<row, hurt>>, \A u \in Proc : Keeps(u) \/ Ends(u)
  PROVE  Rest'
<1> USE CertificatesAssumption
<1>0. /\ None # "absent" /\ None # "active" /\ None # "inactive"
      /\ \A u \in Proc : Ends(u) => \A c \in Cert : dirty'[u][c] = None
  BY DEF Row, Ends, Clean
<1>1. LocksOK'
  BY <1>0 DEF IInv, Rest, LocksOK, Keeps, Ends
<1>2. LocalsOK'
  BY <1>0 DEF IInv, Rest, LocalsOK, Keeps, Ends, KindOf
<1>3. NewIsPrivate'
  BY <1>0 DEF IInv, Rest, NewIsPrivate, Keeps, Ends
<1>4. SafeInv'
  <2>1. ASSUME NEW kind \in {CA, Server}, NEW u \in Proc, Decides(u, kind)'
        PROVE  /\ Decides(u, kind) /\ Keeps(u)
               /\ Holds(u, kind)' => Holds(u, kind)
    BY <2>1, <1>0 DEF Decides, Holds, Keeps, Ends, Cert, KindOf
  <2>2. ASSUME NEW kind \in {CA, Server}, NEW u \in Proc, NEW c,
               Keeps(u), ~Spares(u, kind, c)
        PROVE  ~Spares(u, kind, c)'
    BY <2>2 DEF Spares, Keeps
  <2> QED
    BY <2>1, <2>2 DEF IInv, Rest, SafeInv, DecisionsOK, Decides, OneActiveIn, Keeps
<1>5. ReplacesOK'
  BY <1>0 DEF IInv, Rest, ReplacesOK, Keeps, Ends, KindOf
<1> QED BY <1>1, <1>2, <1>3, <1>4, <1>5 DEF Rest

\* Transaction t moves on without writing.
LEMMA MoveSafe ==
  ASSUME IInv, UNCHANGED <<row, dirty, hurt>>, NEW t \in Proc,
         \A u \in Proc \ {t} : Keeps(u),
         pc[t] # "activate", pc'[t] \notin {"activate", "wait", "idle"},
         pc'[t] = "delete" => pc[t] = "idle",
         pc[t] = "commit" => pc'[t] = "commit",
         pc'[t] \in {"found", "delete"} => target'[t] \in Cert,
         target'[t] = target[t] \/ row[target'[t]] # "absent"
  PROVE  Rest'
<1> USE CertificatesAssumption
<1>1. LocksOK'
  BY DEF IInv, Rest, LocksOK, Keeps
<1>2. LocalsOK'
  BY DEF IInv, Rest, LocalsOK, Keeps, KindOf
<1>3. NewIsPrivate'
  BY DEF IInv, Rest, NewIsPrivate, Keeps
<1>4. SafeInv'
  BY DEF IInv, Rest, SafeInv, DecisionsOK, Decides, Holds, Spares, Keeps,
         OneActiveIn, KindOf
<1>5. ReplacesOK'
  BY DEF IInv, Rest, ReplacesOK, Keeps, KindOf
<1> QED BY <1>1, <1>2, <1>3, <1>4, <1>5 DEF Rest

\* StartDeactivate(t): the statement of t will visit what t has written.
LEMMA StartSafe ==
  ASSUME IInv, NEW t \in Proc, StartDeactivate(t)
  PROVE  Rest'
<1> USE CertificatesAssumption DEF StartDeactivate, Goto
<1>0. /\ UNCHANGED <<row, dirty, hurt, target>> /\ pc'[t] = "wait"
      /\ pc[t] = "found" /\ target[t] \in Cert /\ KindOf(target[t]) \subseteq Cert
      /\ \A u \in Proc \ {t} : Keeps(u)
      /\ \A c \in Cert : dirty[t][c] # "absent"
      /\ seen'[t] = {c \in KindOf(target[t]) : View(t, c) # "absent"}
  BY DEF IInv, Rest, TypeOK, LocksOK, LocalsOK, Keeps, KindOf, Cert
<1>1. LocksOK'
  BY <1>0 DEF IInv, Rest, LocksOK, Keeps
<1>2. LocalsOK'
  <2>1. ASSUME NEW c \in KindOf(target[t]), dirty[t][c] # None
        PROVE  c \in seen'[t]
    BY <1>0, <2>1 DEF View
  <2>2. ASSUME target[t] \notin seen'[t] PROVE row[target[t]] = "absent"
    BY <1>0, <2>2 DEF View, KindOf, Cert
  <2> QED BY <1>0, <2>1, <2>2 DEF IInv, Rest, LocalsOK, Keeps, KindOf
<1>3. NewIsPrivate'
  BY <1>0 DEF IInv, Rest, NewIsPrivate, Keeps
<1>4. SafeInv'
  BY <1>0 DEF IInv, Rest, SafeInv, DecisionsOK, Decides, Holds, Spares, Keeps,
              OneActiveIn, KindOf
<1>5. ReplacesOK'
  BY <1>0 DEF IInv, Rest, ReplacesOK, Keeps, KindOf
<1> QED BY <1>1, <1>2, <1>3, <1>4, <1>5 DEF Rest

\* Transaction t inserts an identity nobody knows.
LEMMA InsertSafe ==
  ASSUME IInv, UNCHANGED <<row, hurt>>, NEW t \in Proc, NEW n \in Cert,
         Fresh(n), \A u \in Proc \ {t} : Keeps(u),
         dirty' = [dirty EXCEPT ![t][n] = "inactive"],
         pc[t] \in {"idle", "renew"}, pc'[t] \in {"found", "commit"},
         target'[t] \in {target[t], n}, pc'[t] = "found" => target'[t] = n
  PROVE  Rest'
<1> USE CertificatesAssumption
<1>0. /\ None # "absent" /\ None # "active" /\ None # "inactive"
      /\ dirty'[t][n] = "inactive" /\ row[n] = "absent"
      /\ \A u \in Proc : dirty[u][n] = None /\ target[u] # n
      /\ \A u \in Proc, c \in Cert :
           (u # t \/ c # n) => dirty'[u][c] = dirty[u][c]
  BY DEF Row, Fresh, IInv, TypeOK
<1>1. LocksOK'
  BY <1>0 DEF IInv, Rest, LocksOK, Keeps
<1>2. LocalsOK'
  BY <1>0 DEF IInv, Rest, LocalsOK, Keeps, KindOf, Cert
<1>3. NewIsPrivate'
  BY <1>0 DEF IInv, Rest, NewIsPrivate, Keeps
<1>4. SafeInv'
  <2>1. ASSUME NEW kind \in {CA, Server}, NEW u \in Proc
        PROVE  /\ Decides(u, kind)' => Decides(u, kind)
               /\ Holds(u, kind)' => Holds(u, kind)
    BY <1>0 DEF Decides, Holds, Keeps, Cert, KindOf
  <2>2. ASSUME NEW kind \in {CA, Server}, NEW u \in Proc, NEW c,
               ~Spares(u, kind, c)
        PROVE  ~Spares(u, kind, c)'
    BY <1>0, <2>2 DEF Spares, Cert
  <2>3. ASSUME NEW kind \in {CA, Server}, NEW u \in Proc, NEW c \in kind,
               dirty'[u][c] = "active"
        PROVE  dirty[u][c] = "active"
    BY <1>0, <2>3 DEF Cert
  <2> QED
    BY <2>1, <2>2, <2>3 DEF IInv, Rest, SafeInv, DecisionsOK, OneActiveIn
<1>5. ReplacesOK'
  BY <1>0 DEF IInv, Rest, ReplacesOK, Keeps, KindOf, Cert
<1> QED BY <1>1, <1>2, <1>3, <1>4, <1>5 DEF Rest

\* Deactivate(t): t gets every row it visits, or has overlooked one.
LEMMA DeactivateSafe ==
  ASSUME IInv, NEW t \in Proc, Deactivate(t)
  PROVE  Rest'
<1> USE CertificatesAssumption
<1> DEFINE kind == KindOf(target[t])
<1>0. /\ None # "absent" /\ None # "active" /\ None # "inactive"
      /\ UNCHANGED <<row, target, seen>>
      /\ pc[t] = "wait" /\ pc'[t] = "activate"
      /\ target[t] \in Cert /\ target[t] \in kind /\ kind \in {CA, Server}
      /\ kind \subseteq Cert
      /\ \A u \in Proc \ {t} : Keeps(u)
      /\ \A c \in seen[t], u \in Proc \ {t} : dirty[u][c] = None
  BY DEF IInv, Rest, TypeOK, LocalsOK, Deactivate, Goto, Keeps, LockedByOther,
         KindOf, Cert, Row
<1>1. \A c \in Cert :
        dirty'[t][c] = IF c \in seen[t] /\ View(t, c) # "absent"
                       THEN "inactive" ELSE dirty[t][c]
  BY DEF Deactivate, IInv, TypeOK
<1>2. \A c \in Cert : dirty[t][c] # "absent"
  BY <1>0 DEF IInv, Rest, LocksOK
<1>3. LocksOK'
  BY <1>0, <1>1, <1>2 DEF IInv, Rest, LocksOK, Keeps, LockedByOther
<1>4. LocalsOK'
  <2>1. ASSUME dirty'[t][target[t]] = None PROVE row[target[t]] = "absent"
    BY <2>1, <1>0, <1>1 DEF IInv, Rest, LocalsOK, View
  <2> QED BY <2>1, <1>0 DEF IInv, Rest, LocalsOK, Keeps, KindOf
<1>5. NewIsPrivate'
  <2>1. ASSUME NEW c \in Cert, row[c] = "absent", dirty'[t][c] # None
        PROVE  dirty[t][c] # None
    BY <2>1, <1>0, <1>1 DEF View
  <2> QED BY <2>1, <1>0 DEF IInv, Rest, NewIsPrivate, Keeps
<1>6. SafeInv'
  <2> SUFFICES ASSUME "phantom" \notin hurt'
               PROVE  OneActiveIn(row)' /\ DecisionsOK'
    BY DEF SafeInv
  <2>1. "phantom" \notin hurt /\ Overlooked(t) = {}
    BY DEF Deactivate
  <2>2. OneActiveIn(row) /\ DecisionsOK
    BY <2>1 DEF IInv, Rest, SafeInv
  <2>3. ASSUME NEW u \in Proc \ {t}, Decides(u, kind) PROVE FALSE
    <3>1. PICK c \in kind :
            \/ dirty[u][c] = "active"
            \/ pc[u] = "activate" /\ target[u] = c /\ dirty[u][c] # None
      <4>1. ASSUME Holds(u, kind) PROVE target[u] \in kind
        BY <4>1 DEF Holds, KindOf, IInv, Rest, LocalsOK, Cert
      <4> QED BY <2>3, <4>1 DEF Decides, Holds
    <3>2. c \notin seen[t]
      BY <3>1, <1>0
    <3> QED BY <3>1, <3>2, <2>1 DEF Overlooked
  <2>4. ASSUME NEW c \in kind PROVE dirty'[t][c] # "active"
    BY <2>4, <1>0, <1>1 DEF IInv, Rest, LocalsOK, View
  <2>5. ASSUME NEW c \in kind, row[c] = "active" PROVE dirty'[t][c] # None
    <3>1. c \in seen[t]
      BY <2>5, <2>1 DEF Overlooked
    <3> QED BY <3>1, <2>5, <1>0, <1>1, <1>2 DEF View
  <2>6. ASSUME NEW k \in {CA, Server}, k # kind, NEW c \in k
        PROVE  /\ dirty'[t][c] = "active" => dirty[t][c] = "active"
               /\ dirty[t][c] # None => dirty'[t][c] # None
    BY <2>6, <1>0, <1>1 DEF Cert
  <2>7. ASSUME NEW k \in {CA, Server}, k # kind PROVE ~Holds(t, k)'
    BY <2>7, <1>0 DEF Holds
  <2>8. ASSUME NEW k \in {CA, Server}, NEW u \in Proc, NEW v \in Proc,
               Decides(u, k)', Decides(v, k)'
        PROVE  u = v
    <3>1. ASSUME NEW w \in Proc \ {t}, Decides(w, k)' PROVE Decides(w, k)
      BY <3>1, <1>0 DEF Decides, Holds, Keeps
    <3>2. CASE k = kind
      BY <2>3, <2>8, <3>1, <3>2
    <3>3. CASE k # kind
      <4>1. Decides(t, k)' => Decides(t, k)
        BY <3>3, <2>6, <2>7 DEF Decides
      <4> QED BY <4>1, <3>1, <2>8, <2>2 DEF DecisionsOK
    <3> QED BY <3>2, <3>3
  <2>9. ASSUME NEW k \in {CA, Server}, NEW u \in Proc, Holds(u, k)'
        PROVE  ~Spares(u, k, None)'
    <3>1. CASE u = t
      BY <3>1, <2>9, <2>7, <2>4, <2>5, <1>0 DEF Spares
    <3>2. CASE u # t
      BY <3>2, <2>9, <2>2, <1>0 DEF Spares, Holds, Keeps, DecisionsOK
    <3> QED BY <3>1, <3>2
  <2>10. ASSUME NEW k \in {CA, Server}, NEW u \in Proc, NEW c \in k,
                dirty'[u][c] = "active"
         PROVE  ~Spares(u, k, c)'
    <3>1. CASE u # t
      BY <3>1, <2>10, <2>2, <1>0 DEF Spares, Keeps, DecisionsOK
    <3>2. CASE u = t /\ k # kind
      <4>1. dirty[t][c] = "active" /\ ~Spares(t, k, c)
        BY <3>2, <2>10, <2>6, <2>2 DEF DecisionsOK
      <4> QED BY <4>1, <3>2, <2>6, <1>0 DEF Spares
    <3>3. CASE u = t /\ k = kind
      BY <3>3, <2>10, <2>4
    <3> QED BY <3>1, <3>2, <3>3
  <2> QED BY <2>2, <2>8, <2>9, <2>10, <1>0 DEF DecisionsOK, OneActiveIn
<1>7. ReplacesOK'
  <2> SUFFICES ASSUME NEW u \in Proc, NEW c \in Cert
               PROVE  /\ (row[c] = "active" /\ dirty'[u][c] = "absent") =>
                           "deleted_active" \in hurt'
                      /\ (row[c] = "active" /\ dirty'[u][c] = "inactive") =>
                           \/ /\ pc'[u] = "activate"
                              /\ KindOf(target[u]) = KindOf(c)
                           \/ \E d \in KindOf(c) : dirty'[u][d] = "active"
    BY <1>0 DEF ReplacesOK, KindOf
  <2>1. CASE u # t
    BY <2>1, <1>0 DEF IInv, Rest, ReplacesOK, Keeps, Deactivate
  <2>2. CASE u = t /\ c \in kind
    BY <2>2, <1>0, <1>1, <1>2 DEF KindOf, Cert
  <2>3. CASE u = t /\ c \notin kind
    <3>1. KindOf(c) \in {CA, Server} /\ KindOf(c) # kind
      BY <2>3, <1>0 DEF KindOf, Cert
    <3>2. seen[t] \cap KindOf(c) = {}
      BY <3>1, <1>0 DEF IInv, Rest, LocalsOK
    <3>3. \A d \in KindOf(c) : dirty'[t][d] = dirty[t][d]
      BY <3>1, <3>2, <1>1 DEF Cert
    <3>4. c \in KindOf(c) /\ pc[t] # "activate"
      BY <1>0 DEF KindOf, Cert
    <3>5. hurt \subseteq hurt'
      BY DEF Deactivate
    <3>6. ReplacesOK /\ KindOf(c) \subseteq Cert
      BY <3>1 DEF IInv, Rest, Cert
    <3> QED BY ONLY <2>3, <3>3, <3>4, <3>5, <3>6 DEF ReplacesOK
  <2> QED BY <2>1, <2>2, <2>3
<1> QED BY <1>3, <1>4, <1>5, <1>6, <1>7 DEF Rest

\* Activate(t) on a target that still exists.
LEMMA ActivateSafe ==
  ASSUME IInv, NEW t \in Proc, Activate(t), ~Rollback(t)
  PROVE  Rest'
<1> USE CertificatesAssumption
<1> DEFINE A == target[t]
           kind == KindOf(A)
<1>0. /\ None # "absent" /\ None # "active" /\ None # "inactive"
      /\ UNCHANGED <<row, target, seen, hurt>>
      /\ pc[t] = "activate" /\ pc'[t] \in {"renew", "commit"}
      /\ A \in Cert /\ A \in kind /\ kind \in {CA, Server}
      /\ None \notin kind
      /\ \A u \in Proc \ {t} : Keeps(u)
      /\ dirty'[t][A] = "active" /\ dirty[t][A] # None
      /\ \A c \in Cert \ {A} : dirty'[t][c] = dirty[t][c]
      /\ \A c \in Cert : dirty[t][c] # "absent"
  BY DEF IInv, Rest, TypeOK, LocalsOK, LocksOK, Activate, Goto, Keeps, KindOf,
         Cert, Row, View, NextLabel
<1>1. LocksOK'
  BY <1>0 DEF IInv, Rest, LocksOK, Keeps
<1>2. LocalsOK'
  BY <1>0 DEF IInv, Rest, LocalsOK, Keeps, KindOf
<1>3. NewIsPrivate'
  BY <1>0 DEF IInv, Rest, NewIsPrivate, Keeps
<1>4. SafeInv'
  <2> SUFFICES ASSUME "phantom" \notin hurt
               PROVE  OneActiveIn(row)' /\ DecisionsOK'
    BY <1>0 DEF SafeInv
  <2>1. OneActiveIn(row) /\ DecisionsOK
    BY DEF IInv, Rest, SafeInv
  <2>2. Holds(t, kind) /\ ~Spares(t, kind, None)
    BY <2>1, <1>0 DEF Holds, DecisionsOK
  <2>3. ASSUME NEW k \in {CA, Server}, NEW u \in Proc
        PROVE  /\ Decides(u, k)' => Decides(u, k)
               /\ Holds(u, k)' => u # t /\ Holds(u, k)
    BY <1>0, <2>2 DEF Decides, Holds, Keeps, Cert, KindOf
  <2>4. ASSUME NEW k \in {CA, Server}, NEW u \in Proc \ {t}, NEW c,
               ~Spares(u, k, c)
        PROVE  ~Spares(u, k, c)'
    BY <2>4, <1>0 DEF Spares, Keeps
  <2>5. ASSUME NEW k \in {CA, Server}, NEW c \in k, dirty'[t][c] = "active"
        PROVE  ~Spares(t, k, c)'
    <3>1. CASE k = kind
      BY <3>1, <2>5, <2>2, <1>0 DEF Spares, Cert
    <3>2. CASE k # kind
      BY <3>2, <2>5, <2>1, <1>0 DEF Spares, Cert, DecisionsOK
    <3> QED BY <3>1, <3>2
  <2> QED
    BY <2>1, <2>3, <2>4, <2>5, <1>0 DEF DecisionsOK, OneActiveIn, Keeps
<1>5. ReplacesOK'
  BY <1>0 DEF IInv, Rest, ReplacesOK, Keeps, KindOf, Cert
<1> QED BY <1>1, <1>2, <1>3, <1>4, <1>5 DEF Rest

\* Delete(t) of a row that may have become active.
LEMMA DeleteSafe ==
  ASSUME IInv, NEW t \in Proc, Delete(t)
  PROVE  Rest'
<1> USE CertificatesAssumption
<1> DEFINE A == target[t]
<1>0. /\ None # "absent" /\ None # "active" /\ None # "inactive"
      /\ UNCHANGED <<row, target, seen>> /\ hurt \subseteq hurt'
      /\ pc[t] = "delete" /\ pc'[t] = "commit" /\ A \in Cert
      /\ \A u \in Proc \ {t} : Keeps(u) /\ dirty[u][A] = None
      /\ \A c \in Cert \ {A} : dirty'[t][c] = None
      /\ \A c \in Cert : dirty[t][c] = None
      /\ dirty'[t][A] = IF row[A] = "absent" THEN None ELSE "absent"
      /\ row[A] = "active" => "deleted_active" \in hurt'
      /\ "phantom" \in hurt => "phantom" \in hurt'
  BY DEF IInv, Rest, TypeOK, LocalsOK, Delete, Goto, Keeps, LockedByOther, Row
<1>1. LocksOK'
  BY <1>0 DEF IInv, Rest, LocksOK, Keeps
<1>2. LocalsOK'
  BY <1>0 DEF IInv, Rest, LocalsOK, Keeps, KindOf
<1>3. NewIsPrivate'
  BY <1>0 DEF IInv, Rest, NewIsPrivate, Keeps
<1>4. SafeInv'
  <2>1. ASSUME NEW kind \in {CA, Server}, NEW u \in Proc, Decides(u, kind)'
        PROVE  u # t /\ Decides(u, kind) /\ (Holds(u, kind)' => Holds(u, kind))
    BY <2>1, <1>0 DEF Decides, Holds, Keeps, Cert
  <2>2. ASSUME NEW kind \in {CA, Server}, NEW u \in Proc \ {t}, NEW c,
               ~Spares(u, kind, c)
        PROVE  ~Spares(u, kind, c)'
    BY <2>2, <1>0 DEF Spares, Keeps
  <2> QED
    BY <2>1, <2>2, <1>0
       DEF IInv, Rest, SafeInv, DecisionsOK, Decides, OneActiveIn, Keeps
<1>5. ReplacesOK'
  BY <1>0 DEF IInv, Rest, ReplacesOK, Keeps, KindOf, Cert
<1> QED BY <1>1, <1>2, <1>3, <1>4, <1>5 DEF Rest

\* Commit(t): what t decided becomes the table.
LEMMA CommitSafe ==
  ASSUME IInv, NEW t \in Proc, Commit(t)
  PROVE  Rest'
<1> USE CertificatesAssumption
<1>0. /\ None # "absent" /\ None # "active" /\ None # "inactive"
      /\ UNCHANGED hurt /\ Ends(t) /\ \A u \in Proc \ {t} : Keeps(u)
      /\ \A c \in Cert : row'[c] = IF dirty[t][c] = None THEN row[c]
                                   ELSE dirty[t][c]
      /\ \A c \in Cert : dirty'[t][c] = None
  BY DEF IInv, TypeOK, Commit, View, End, Ends, Goto, Keeps, Row, Clean
<1>1. LocksOK'
  BY <1>0 DEF IInv, Rest, LocksOK, Keeps, Ends
<1>2. LocalsOK'
  <2>1. ASSUME NEW u \in Proc \ {t}, target[u] \in Cert,
               row[target[u]] = "absent"
        PROVE  row'[target[u]] = "absent"
    BY <2>1, <1>0 DEF IInv, Rest, NewIsPrivate
  <2> QED BY <2>1, <1>0 DEF IInv, Rest, LocalsOK, Keeps, Ends, KindOf
<1>3. NewIsPrivate'
  BY <1>0 DEF IInv, Rest, NewIsPrivate, LocksOK, Keeps, Ends
<1>4. SafeInv'
  <2> SUFFICES ASSUME "phantom" \notin hurt
               PROVE  OneActiveIn(row') /\ DecisionsOK'
    BY <1>0 DEF SafeInv, OneActiveIn
  <2>1. OneActiveIn(row) /\ DecisionsOK
    BY DEF IInv, Rest, SafeInv
  <2>2. OneActiveIn(row')
    <3>1. ASSUME NEW c \in Cert, NEW d \in Cert, c # d, KindOf(c) = KindOf(d),
                 dirty[t][c] = "active", row'[d] = "active"
          PROVE  FALSE
      <4>1. /\ KindOf(c) \in {CA, Server} /\ c \in KindOf(c)
            /\ d \in KindOf(c) \ {c}
        BY <3>1 DEF KindOf, Cert
      <4>2. Spares(t, KindOf(c), c)
        BY <3>1, <4>1, <1>0 DEF Spares
      <4> QED BY <4>1, <4>2, <3>1, <2>1 DEF DecisionsOK
    <3> QED BY <3>1, <2>1, <1>0 DEF OneActiveIn
  <2>3. ASSUME NEW k \in {CA, Server}, NEW u \in Proc, Decides(u, k)'
        PROVE  /\ u # t /\ Decides(u, k) /\ ~Decides(t, k)
               /\ Holds(u, k)' => Holds(u, k)
    <3>1. u # t /\ Decides(u, k) /\ (Holds(u, k)' => Holds(u, k))
      BY <2>3, <1>0 DEF Decides, Holds, Keeps, Ends, Cert
    <3> QED BY <3>1, <2>1 DEF DecisionsOK
  <2>4. ASSUME NEW k \in {CA, Server}, NEW u \in Proc \ {t}, NEW c,
               ~Decides(t, k), ~Spares(u, k, c)
        PROVE  ~Spares(u, k, c)'
    BY <2>4, <1>0 DEF Spares, Decides, Keeps, Cert
  <2>5. DecisionsOK'
    BY <2>1, <2>3, <2>4, <1>0 DEF DecisionsOK, Decides, Keeps
  <2> QED BY <2>2, <2>5
<1>5. ReplacesOK'
  BY <1>0 DEF IInv, Rest, ReplacesOK, LocksOK, Keeps, KindOf, Cert
<1> QED BY <1>1, <1>2, <1>3, <1>4, <1>5 DEF Rest

-----------------------------------------------------------------------------
\* Every step keeps the rest of the invariant.
LEMMA RestStep == ASSUME IInv, [Next]_vars PROVE Rest'
<1> USE CertificatesAssumption DEF Goto
<1>1. ASSUME NEW t \in Admin, NEW c \in Cert, Insert(t, c) PROVE Rest'
  <2>1. t \in Proc /\ pc'[t] = "commit" /\ \A u \in Proc \ {t} : Keeps(u)
    BY <1>1 DEF Insert, Keeps, Proc, IInv, TypeOK
  <2> QED BY <1>1, <2>1, InsertSafe DEF Insert
<1>2. ASSUME NEW t \in Admin, NEW c \in Cert,
             BeginActivate(t, c) \/ BeginDelete(t, c)
      PROVE  Rest'
  <2>1. /\ t \in Proc /\ pc[t] = "idle" /\ pc'[t] \in {"found", "delete"}
        /\ target'[t] = c /\ row[c] # "absent"
        /\ UNCHANGED <<row, dirty, hurt>>
        /\ \A u \in Proc \ {t} : Keeps(u)
    BY <1>2 DEF BeginActivate, BeginDelete, Keeps, Proc, IInv, TypeOK
  <2> QED BY <2>1, MoveSafe
<1>3. ASSUME NEW t \in Proc, Rollback(t), UNCHANGED hurt PROVE Rest'
  <2>1. UNCHANGED row /\ Ends(t) /\ \A u \in Proc \ {t} : Keeps(u)
    BY <1>3 DEF Rollback, End, Ends, Keeps, IInv, TypeOK
  <2> QED BY <1>3, <2>1, EndsSafe
<1>4. ASSUME NEW t \in Proc, Statement(t) PROVE Rest'
  <2>1. CASE Activate(t)
    BY <2>1, <1>3, ActivateSafe DEF Activate
  <2> QED
    BY <1>4, <2>1, StartSafe, DeactivateSafe, DeleteSafe, CommitSafe
       DEF Statement
<1>5. ASSUME NEW t \in Proc, Abort(t) PROVE Rest'
  BY <1>5, <1>3 DEF Abort
<1>6. CASE Wake
  <2>1. /\ Renewer \in Proc /\ pc[Renewer] = "idle" /\ pc'[Renewer] = "renew"
        /\ UNCHANGED <<row, dirty, target, hurt>>
        /\ \A u \in Proc \ {Renewer} : Keeps(u)
    BY <1>6 DEF Wake, Keeps, Proc, IInv, TypeOK
  <2> QED BY <2>1, MoveSafe
<1>7. ASSUME NEW c \in Server, Renew(c) PROVE Rest'
  <2>1. Renewer \in Proc /\ pc[Renewer] = "renew" /\ UNCHANGED hurt
    BY <1>7 DEF Renew, Proc
  <2>2. CASE Goto(Renewer, NextLabel(Renewer, todo'))
             /\ UNCHANGED <<row, dirty, target, seen>>
    <3>1. /\ pc'[Renewer] \in {"renew", "commit"}
          /\ \A u \in Proc \ {Renewer} : Keeps(u)
      BY <2>2, <2>1 DEF NextLabel, Keeps, IInv, TypeOK
    <3> QED BY <2>1, <2>2, <3>1, MoveSafe
  <2>3. CASE Goto(Renewer, "found") /\ UNCHANGED <<row, seen>>
             /\ \E n \in FreshServer :
                  /\ dirty' = [dirty EXCEPT ![Renewer][n] = "inactive"]
                  /\ target' = [target EXCEPT ![Renewer] = n]
    <3>1. PICK n \in FreshServer :
            /\ dirty' = [dirty EXCEPT ![Renewer][n] = "inactive"]
            /\ target' = [target EXCEPT ![Renewer] = n]
      BY <2>3
    <3>2. /\ n \in Cert /\ Fresh(n) /\ pc'[Renewer] = "found"
          /\ target'[Renewer] = n
          /\ \A u \in Proc \ {Renewer} : Keeps(u)
      BY <2>1, <2>3, <3>1 DEF FreshServer, Cert, Keeps, IInv, TypeOK
    <3> QED BY <2>1, <2>3, <3>1, <3>2, InsertSafe
  <2> QED BY <1>7, <1>3, <2>1, <2>2, <2>3 DEF Renew
<1>8. CASE Restart
  <2>1. \A u \in Proc : Ends(u)
    BY <1>8 DEF Restart, Ends
  <2> QED BY <1>8, <2>1, EndsSafe DEF Restart
<1>9. CASE NewDay \/ ChangeActor \/ (\E c \in Server : Age(c)) \/ UNCHANGED vars
  <2>1. UNCHANGED <<row, hurt>> /\ \A u \in Proc : Keeps(u)
    BY <1>9 DEF NewDay, ChangeActor, Age, vars, Keeps
  <2> QED BY <2>1, EndsSafe
<1> QED
  BY <1>1, <1>2, <1>4, <1>5, <1>6, <1>7, <1>8, <1>9 DEF Next, Loop

\* The invariant behind the theorems.
LEMMA InvInvariant == Spec => []IInv
<1>1. ASSUME IInv, [Next]_vars PROVE IInv'
  BY <1>1, TypeStep, RestStep DEF IInv, Rest
<1> QED BY InitInv, <1>1, PTL DEF Spec

\* Every variable keeps its type: in particular the renewal loop never takes
\* an imported certificate for a candidate.
THEOREM TypeCorrect == Spec => []TypeOK
<1>1. IInv => TypeOK
  BY DEF IInv
<1> QED BY <1>1, InvInvariant, PTL

\* However many requests activate, delete and insert certificates while the
\* renewal loop runs, no two certificates of one kind are active, unless an
\* activation has overlooked a row committed after its UPDATE started.
THEOREM OneActiveCorrect == Spec => []OneActive
<1>1. IInv => OneActive
  BY DEF IInv, Rest, SafeInv, OneActive
<1> QED BY <1>1, InvInvariant, PTL

\* No commit, rollback or restart leaves a kind without the active
\* certificate it had, unless the active certificate has been deleted.
THEOREM ActiveSurvivesCorrect == Spec => ActiveSurvives
<1>1. ASSUME IInv, [Next]_vars, NEW kind \in {CA, Server}, HasActive(kind)
      PROVE  HasActive(kind)' \/ "deleted_active" \in hurt
  <2>1. CASE UNCHANGED row
    BY <1>1, <2>1 DEF HasActive
  <2>2. ASSUME NEW t \in Proc, Commit(t)
        PROVE  HasActive(kind)' \/ "deleted_active" \in hurt
    <3>1. PICK c \in kind : row[c] = "active"
      BY <1>1 DEF HasActive
    <3>2. c \in Cert /\ KindOf(c) = kind /\ kind \subseteq Cert
      BY CertificatesAssumption DEF Cert, KindOf
    <3>3. /\ pc[t] = "commit" /\ "active" # None
          /\ \A d \in Cert : row'[d] = IF dirty[t][d] = None THEN row[d]
                                       ELSE dirty[t][d]
      BY <2>2, CertificatesAssumption DEF Commit, View, Row
    <3>4. dirty[t][c] \in {None, "absent", "inactive", "active"}
      BY <1>1, <3>2 DEF IInv, TypeOK, Row
    <3> QED
      BY <1>1, <3>1, <3>2, <3>3, <3>4
         DEF HasActive, IInv, Rest, ReplacesOK
  <2>3. (\E t \in Proc : Commit(t)) \/ UNCHANGED row
    BY <1>1
       DEF Next, Loop, Statement, vars, Insert, BeginActivate, BeginDelete,
           StartDeactivate, Deactivate, Activate, Delete, Abort, Rollback,
           Restart, NewDay, ChangeActor, Age, Wake, Renew
  <2> QED BY <2>1, <2>2, <2>3
<1>2. IInv /\ [Next]_vars =>
        [\A kind \in {CA, Server} :
           HasActive(kind) => HasActive(kind)' \/ "deleted_active" \in hurt]_vars
  BY <1>1
<1> QED BY <1>2, InvInvariant, PTL DEF Spec, ActiveSurvives
=============================================================================
