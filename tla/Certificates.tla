--------------------------- MODULE Certificates ---------------------------
(***************************************************************************)
(* The certificate store of the gateway (features/certificates): one row   *)
(* per CA or server certificate, of which the active one of each kind is   *)
(* what radiusd is given.  Admin requests and the renewal loop each run in *)
(* one PostgreSQL transaction (get_db, get_db_context), READ COMMITTED:    *)
(*                                                                         *)
(*  - a statement sees the rows committed when it starts and its own       *)
(*    transaction's writes;                                                *)
(*  - UPDATE and DELETE lock the rows they write until the transaction     *)
(*    ends, wait for rows locked by others, then look at the row again;    *)
(*  - a row committed after the statement started stays unseen.            *)
(*                                                                         *)
(* The gateway is one uvicorn process: requests and the renewal loop       *)
(* interleave at every await, hence between any two statements.            *)
(***************************************************************************)
EXTENDS Naturals

CONSTANTS
  CA,         \* identities of CA certificates (cert_type = 'ca')
  Server,     \* identities of server certificates (cert_type = 'server')
  Imported,   \* server certificates uploaded with import_cert
  Keyless,    \* CA certificates imported without their private key
  Overlong,   \* certificates whose name is too long for a renewed one's file
  Admin,      \* concurrent administrator requests
  Renewer,    \* the _cert_renewal_loop task
  None,       \* no certificate; a row the transaction has not written
  Initial,    \* committed tables to start from
  MaxOps,     \* bound on the administrators' requests
  MaxFaults   \* bound on the statements that fail

Cert == CA \cup Server
Proc == Admin \cup {Renewer}
Row  == {"absent", "inactive", "active"}

KindOf(c) == IF c \in CA THEN CA ELSE Server

\* At most one active certificate of each kind in table r.
OneActiveIn(r) ==
  \A c, d \in Cert : r[c] = "active" /\ r[d] = "active"
                       /\ KindOf(c) = KindOf(d) => c = d

ASSUME CertificatesAssumption ==
  /\ Initial \subseteq {r \in [Cert -> Row] : OneActiveIn(r)}
  /\ CA \cap Server = {} /\ Imported \subseteq Server /\ None \notin Cert
  /\ Keyless \subseteq CA /\ Overlong \subseteq Server
  /\ Renewer \notin Admin /\ None \notin Row
  /\ MaxOps \in Nat /\ MaxFaults \in Nat

VARIABLES
  row,       \* row[c]: committed certificates row c
  dirty,     \* dirty[t][c]: what t's transaction wrote there, not committed
  pc,        \* pc[t]: next statement of t
  target,    \* target[t]: certificate t activates or deletes
  seen,      \* seen[t]: rows the UPDATE that t is executing will visit
  todo,      \* candidates the renewal pass has still to renew
  actor,     \* tenant "default" has the user "admin", who renews
  expiring,  \* rows whose not_after is within the renewal threshold
  twin,      \* twin[n]: n is named "<twin[n]>-renewed-<today>"
  ops, faults,
  hurt       \* anomalies that have happened

vars == <<row, dirty, pc, target, seen, todo, actor, expiring, twin, ops,
          faults, hurt>>

Label   == {"idle", "found", "wait", "activate", "delete", "renew", "commit"}
Anomaly == {"phantom", "deleted_active"}

\* What a statement of t reads, and who keeps it waiting.
View(t, c)         == IF dirty[t][c] = None THEN row[c] ELSE dirty[t][c]
LockedByOther(t, c) == \E u \in Proc \ {t} : dirty[u][c] # None

Clean == [c \in Cert |-> None]

Init ==
  /\ row \in Initial
  /\ dirty = [t \in Proc |-> Clean] /\ pc = [t \in Proc |-> "idle"]
  /\ target = [t \in Proc |-> None] /\ seen = [t \in Proc |-> {}]
  /\ todo = {} /\ actor \in BOOLEAN /\ expiring = {} /\ twin = Clean
  /\ ops = 0 /\ faults = 0 /\ hurt = {}

Goto(t, label) == pc' = [pc EXCEPT ![t] = label]
Request == ops < MaxOps /\ ops' = ops + 1

\* The transaction of t is over: its locks and locals are gone, and so are
\* the dates and names of the rows that no longer exist.
End(t) ==
  /\ dirty' = [dirty EXCEPT ![t] = Clean]
  /\ LET gone == {c \in Cert : dirty[t][c] # None /\ row'[c] = "absent"}
     IN  /\ expiring' = expiring \ gone
         /\ twin' = [c \in Cert |-> IF c \in gone THEN None ELSE twin[c]]
  /\ Goto(t, "idle")
  /\ target' = [target EXCEPT ![t] = None]
  /\ seen' = [seen EXCEPT ![t] = {}]

\* A UUID never used before: no row, and no request that still carries it.
Fresh(c) == /\ row[c] = "absent"
            /\ \A t \in Proc : dirty[t][c] = None /\ target[t] # c

-----------------------------------------------------------------------------
(* Transactions.                                                           *)

Rollback(t) ==
  /\ UNCHANGED row
  /\ End(t)
  /\ todo' = IF t = Renewer THEN {} ELSE todo

Commit(t) ==
  /\ pc[t] = "commit"
  /\ row' = [c \in Cert |-> View(t, c)]
  /\ End(t)
  /\ UNCHANGED <<todo, actor, ops, faults, hurt>>

\* A statement or the publish raises.  A request rolls back.  The renewal
\* loop catches the error of one certificate and goes on, but the failed
\* statement has aborted its transaction: the rest of the pass fails too and
\* the final COMMIT undoes what the pass had renewed.
Abort(t) ==
  /\ pc[t] # "idle"
  /\ faults < MaxFaults /\ faults' = faults + 1
  /\ Rollback(t)
  /\ UNCHANGED <<actor, ops, hurt>>

\* The gateway is restarted: PostgreSQL rolls every transaction back.
Restart ==
  /\ faults < MaxFaults /\ faults' = faults + 1
  /\ dirty' = [t \in Proc |-> Clean] /\ pc' = [t \in Proc |-> "idle"]
  /\ target' = [t \in Proc |-> None] /\ seen' = [t \in Proc |-> {}]
  /\ todo' = {}
  /\ expiring' = {c \in expiring : row[c] # "absent"}
  /\ twin' = [c \in Cert |-> IF row[c] = "absent" THEN None ELSE twin[c]]
  /\ UNCHANGED <<row, actor, ops, hurt>>

-----------------------------------------------------------------------------
(* Administrators' requests.                                               *)

\* generate_server signs with an active CA (of several, any): one that was
\* imported without its key makes it raise.
Signs(t) == \E ca \in CA \ Keyless : View(t, ca) = "active"

\* INSERT, is_active = false.
Insert(t, c) ==
  /\ pc[t] = "idle" /\ Request /\ Fresh(c)
  /\ c \in Server \ Imported => Signs(t)
  /\ dirty' = [dirty EXCEPT ![t][c] = "inactive"]
  /\ Goto(t, "commit")
  /\ UNCHANGED <<row, target, seen, todo, actor, expiring, twin, faults, hurt>>

\* activate_cert: lookup_cert_summary finds the certificate and its kind.
BeginActivate(t, c) ==
  /\ pc[t] = "idle" /\ Request /\ row[c] # "absent"
  /\ target' = [target EXCEPT ![t] = c]
  /\ Goto(t, "found")
  /\ UNCHANGED <<row, dirty, seen, todo, actor, expiring, twin, faults, hurt>>

\* deactivate_certs_of_type starts: it will visit the rows of that kind that
\* exist now ...
StartDeactivate(t) ==
  /\ pc[t] = "found"
  /\ seen' = [seen EXCEPT ![t] =
                {c \in KindOf(target[t]) : View(t, c) # "absent"}]
  /\ Goto(t, "wait")
  /\ UNCHANGED <<row, dirty, target, todo, actor, expiring, twin, ops, faults, hurt>>

\* Rows of the kind the UPDATE of t cannot see although they are active, or
\* about to be in a transaction that is past its own deactivation.
Overlooked(t) ==
  {c \in KindOf(target[t]) \ seen[t] :
     \/ row[c] = "active"
     \/ \E u \in Proc \ {t} :
          \/ dirty[u][c] = "active"
          \/ pc[u] = "activate" /\ target[u] = c /\ dirty[u][c] # None}

\* Mutant of Deactivate: UPDATE ... WHERE cert_type = ... AND is_active.
NarrowDeactivate(t) ==
  /\ pc[t] = "wait" /\ \A c \in seen[t] : ~LockedByOther(t, c)
  /\ dirty' = [dirty EXCEPT ![t] =
                 [c \in Cert |-> IF c \in seen[t] /\ View(t, c) = "active"
                                 THEN "inactive" ELSE dirty[t][c]]]
  /\ hurt' = hurt \cup (IF Overlooked(t) = {} THEN {} ELSE {"phantom"})
  /\ Goto(t, "activate")
  /\ UNCHANGED <<row, target, seen, todo, actor, expiring, twin, ops, faults>>

\* ... and clears is_active in those that still do, active or not, once
\* nobody else holds one of them.
Deactivate(t) ==
  /\ pc[t] = "wait" /\ \A c \in seen[t] : ~LockedByOther(t, c)
  /\ dirty' = [dirty EXCEPT ![t] =
                 [c \in Cert |-> IF c \in seen[t] /\ View(t, c) # "absent"
                                 THEN "inactive" ELSE dirty[t][c]]]
  /\ hurt' = hurt \cup (IF Overlooked(t) = {} THEN {} ELSE {"phantom"})
  /\ Goto(t, "activate")
  /\ UNCHANGED <<row, target, seen, todo, actor, expiring, twin, ops, faults>>

\* Where a transaction goes on after an activation.
NextLabel(t, left) == IF t = Renewer /\ left # {} THEN "renew" ELSE "commit"

\* Mutant of Activate: the missing row is reported, the request commits.
LenientActivate(t) ==
  /\ pc[t] = "activate" /\ ~LockedByOther(t, target[t])
  /\ dirty' = [dirty EXCEPT ![t][target[t]] =
                 IF View(t, target[t]) = "absent" THEN @ ELSE "active"]
  /\ Goto(t, NextLabel(t, todo))
  /\ UNCHANGED <<row, target, seen, todo, actor, expiring, twin, ops, faults, hurt>>

\* set_cert_active; the row may have been deleted meanwhile: NotFoundError,
\* and the deactivation is rolled back.
Activate(t) ==
  /\ pc[t] = "activate" /\ ~LockedByOther(t, target[t])
  /\ \/ /\ View(t, target[t]) # "absent"
        /\ dirty' = [dirty EXCEPT ![t][target[t]] = "active"]
        /\ Goto(t, NextLabel(t, todo))
        /\ UNCHANGED <<row, target, seen, todo, expiring, twin>>
     \/ View(t, target[t]) = "absent" /\ Rollback(t)
  /\ UNCHANGED <<actor, ops, faults, hurt>>

\* delete_cert refuses a certificate that lookup_cert_summary finds active.
BeginDelete(t, c) ==
  /\ pc[t] = "idle" /\ Request /\ row[c] = "inactive"
  /\ target' = [target EXCEPT ![t] = c]
  /\ Goto(t, "delete")
  /\ UNCHANGED <<row, dirty, seen, todo, actor, expiring, twin, faults, hurt>>

\* DELETE ... WHERE id = :id, whatever the row has become.
Delete(t) ==
  /\ pc[t] = "delete" /\ ~LockedByOther(t, target[t])
  /\ dirty' = [dirty EXCEPT ![t][target[t]] =
                 IF row[target[t]] = "absent" THEN None ELSE "absent"]
  /\ hurt' = hurt \cup (IF row[target[t]] = "active"
                        THEN {"deleted_active"} ELSE {})
  /\ Goto(t, "commit")
  /\ UNCHANGED <<row, target, seen, todo, actor, expiring, twin, ops, faults>>

-----------------------------------------------------------------------------
(* The renewal loop.                                                       *)

\* Time passes: a certificate comes within the renewal threshold (one that is
\* not in use may as well do so when it is activated) ...
Age(c) ==
  /\ c \notin expiring /\ row[c] = "active"
  /\ expiring' = expiring \cup {c}
  /\ UNCHANGED <<row, dirty, pc, target, seen, todo, actor, twin, ops, faults,
                 hurt>>

\* Mutant of NewDay: the renewed name carries no date.
UndatedNames == UNCHANGED vars

\* ... and the date in the names of new renewals changes.
NewDay ==
  /\ twin' = Clean
  /\ UNCHANGED <<row, dirty, pc, target, seen, todo, actor, expiring, ops, faults,
                 hurt>>

\* Mutant of Candidates: AND imported = false is missing.
AnyCandidates == {c \in Server : row[c] = "active" /\ c \in expiring}

\* list_renewable_server_certs_within
Candidates == {c \in Server \ Imported : row[c] = "active" /\ c \in expiring}

\* run_auto_renewal_once: nothing is looked for without the user to ascribe
\* it to.
Wake ==
  /\ pc[Renewer] = "idle" /\ actor /\ Candidates # {}
  /\ todo' = Candidates
  /\ Goto(Renewer, "renew")
  /\ UNCHANGED <<row, dirty, target, seen, actor, expiring, twin, ops, faults, hurt>>

\* The user "admin" is deleted or created again; a row that names it, and is
\* not committed, makes the deletion wait.
ChangeActor ==
  /\ Request /\ dirty[Renewer] = Clean
  /\ actor' = ~actor
  /\ UNCHANGED <<row, dirty, pc, target, seen, todo, expiring, twin, faults, hurt>>

ActiveCAs == {ca \in CA : View(Renewer, ca) = "active"}
FreshServer == {n \in Server \ Imported : Fresh(n)}
NameTaken(c) == \E n \in Server : twin[n] = c /\ View(Renewer, n) # "absent"

\* generate_server for one candidate.  Without a CA to sign, or when the file
\* of the new name cannot be written, it raises before any statement fails; a
\* taken name violates UNIQUE, and the missing user the row's foreign key,
\* which aborts the transaction; otherwise the new row is inserted and
\* activate_cert finds it.
Renew(c) ==
  /\ pc[Renewer] = "renew" /\ c \in todo
  /\ \/ /\ \/ ActiveCAs = {} \/ ActiveCAs \cap Keyless # {}
           \/ c \in Overlong \/ FreshServer = {}
        /\ todo' = todo \ {c}
        /\ Goto(Renewer, NextLabel(Renewer, todo'))
        /\ UNCHANGED <<row, dirty, target, seen, expiring, twin>>
     \/ /\ Signs(Renewer) /\ c \notin Overlong
        /\ NameTaken(c) \/ ~actor
        /\ Rollback(Renewer)
     \/ /\ Signs(Renewer) /\ c \notin Overlong
        /\ ~NameTaken(c) /\ actor
        /\ \E n \in FreshServer :
             /\ dirty' = [dirty EXCEPT ![Renewer][n] = "inactive"]
             /\ target' = [target EXCEPT ![Renewer] = n]
             /\ twin' = [twin EXCEPT ![n] = c]
        /\ todo' = todo \ {c}
        /\ Goto(Renewer, "found")
        /\ UNCHANGED <<row, seen, expiring>>
  /\ UNCHANGED <<actor, ops, faults, hurt>>

-----------------------------------------------------------------------------
\* Statements that take a transaction towards its end.
Statement(t) == \/ StartDeactivate(t) \/ Deactivate(t) \/ Activate(t)
                \/ Delete(t) \/ Commit(t)

Loop == Wake \/ \E c \in Server : Renew(c)

Next ==
  \/ \E t \in Admin, c \in Cert :
       Insert(t, c) \/ BeginActivate(t, c) \/ BeginDelete(t, c)
  \/ \E t \in Proc : Statement(t) \/ Abort(t)
  \/ Loop \/ Restart \/ NewDay \/ ChangeActor
  \/ \E c \in Server : Age(c)

Spec == Init /\ [][Next]_vars

\* The event loop runs what can run, the renewal loop wakes up every six
\* hours and days pass; nobody has to make a request.
FairSpec == /\ Spec
            /\ WF_vars(\E t \in Proc : Statement(t))
            /\ WF_vars(Loop) /\ WF_vars(NewDay)

-----------------------------------------------------------------------------
(* Properties.                                                             *)

TypeOK ==
  /\ row \in [Cert -> Row]
  /\ dirty \in [Proc -> [Cert -> Row \cup {None}]]
  /\ pc \in [Proc -> Label] /\ target \in [Proc -> Cert \cup {None}]
  /\ seen \in [Proc -> SUBSET Cert]
  /\ todo \in SUBSET (Server \ Imported) /\ actor \in BOOLEAN
  /\ expiring \in SUBSET Server
  /\ twin \in [Cert -> Server \cup {None}]
  /\ ops \in 0 .. MaxOps /\ faults \in 0 .. MaxFaults
  /\ hurt \in SUBSET Anomaly

\* Activation replaces: never two active certificates of one kind, whatever
\* requests, deletions and renewals run into each other, unless an activation
\* has overlooked a certificate inserted behind its back.
OneActive == "phantom" \notin hurt => OneActiveIn(row)

HasActive(kind) == \E c \in kind : row[c] = "active"

\* A kind that has an active certificate keeps one at every commit: radiusd
\* is never left without a certificate by an activation that fails half way,
\* a renewal that aborts or a restart, only by deleting the active one.
ActiveSurvives ==
  [][\A kind \in {CA, Server} :
       HasActive(kind) => HasActive(kind)' \/ "deleted_active" \in hurt]_vars

\* A generated server certificate about to expire is replaced, also after an
\* administrator went back to it on the day it was renewed, and after errors.
\* What the code needs for that: the user "admin", an active CA with its key,
\* a name that is not too long (and, a bound of the model, an unused identity).
CanSign == HasActive(CA) /\ \A ca \in Keyless : row[ca] # "active"

RenewalHappens ==
  \A c \in Server \ Imported :
    (c \in Candidates /\ c \notin Overlong) ~>
      (c \notin Candidates \/ ~actor \/ ~CanSign \/ FreshServer = {})
=============================================================================
