------------------------------- MODULE Access -------------------------------
(***************************************************************************)
(* How radiusd decides one client's VLAN and logs the attempt: the Python  *)
(* hooks of rlm_orw.py (authorize, post_auth), run by radiusd's threads    *)
(* over ONE module-global psycopg2 connection, _db_conn.  psycopg2 gives   *)
(* up the interpreter lock while it talks to PostgreSQL, so threads        *)
(* interleave between the statements of _get_db() and at every query.      *)
(*                                                                         *)
(* A call of a thread is one decision: a MAB request (authorize, then the  *)
(* log entry of post_auth) or one post_auth of an authenticated user.  It  *)
(* is a chain of accesses to the database, each of them _get_db() and one  *)
(* query; every failure is caught and answered as if nothing was found.    *)
(*                                                                         *)
(* The tables are seen through one client: its mab_devices row and the     *)
(* VLAN group_vlan_mappings yields for its user's groups.                  *)
(***************************************************************************)
EXTENDS Naturals

CONSTANTS
  Thread,    \* radiusd's worker threads
  Conn,      \* connection objects; one more than threads is enough
  Pin,       \* VLANs an administrator assigns to the client's device
  Group,     \* VLANs an administrator assigns to its user's groups
  None,      \* no VLAN, no connection, no log entry
  NoRow,     \* the client has no enabled, unexpired mab_devices row
  MaxEdits,  \* bound on the edits of the tables
  MaxFaults  \* bound on the outages of PostgreSQL

\* What a request is: MAB or an authenticated user, with a Calling-Station-Id
\* that is a MAC, one that PostgreSQL cannot cast to macaddr, or none.
MabKind == {"mab", "odd_mab"}
Kind    == MabKind \cup {"user", "odd_user", "nomac_user"}
Odd     == {"odd_mab", "odd_user"}
Vlan    == Pin \cup Group
Row     == Pin \cup {None, NoRow}

ASSUME AccessAssumption ==
  /\ None \notin Vlan /\ NoRow \notin Vlan /\ None # NoRow
  /\ None \notin Conn /\ Conn # {}
  /\ MaxEdits \in Nat /\ MaxFaults \in Nat

VARIABLES
  device,   \* the client's mab_devices row: its assigned VLAN, or NoRow
  mapping,  \* VLAN of the best group_vlan_mappings row, or None
  up,       \* PostgreSQL accepts connections
  global,   \* _db_conn
  state,    \* state[k] of connection object k
  pc,       \* pc[t]: statement thread t is at
  job,      \* job[t]: access t is making
  ref,      \* ref[t]: connection t got from _get_db()
  kind,     \* kind[t]: the request of t's call
  accept,   \* accept[t]: it is accepted
  reply,    \* reply[t]: VLAN to send with the Access-Accept
  failed,   \* failed[t]: an access of the call failed
  pins,     \* pins[t]: values device had during the call
  maps,     \* maps[t]: values mapping had during the call
  edits, faults,
  raced     \* some thread used a connection before its autocommit was set

tables   == <<device, mapping, edits>>
database == <<up, global, state>>
call     == <<kind, accept, reply, failed, pins, maps>>
vars == <<device, mapping, up, global, state, pc, job, ref, kind, accept,
          reply, failed, pins, maps, edits, faults, raced>>

\* "raw": connected, autocommit not yet set; "open": in a transaction nobody
\* will commit; "aborted": that transaction has failed; "dead": the server
\* side is gone and psycopg2 has not noticed; "closed": it has.
ConnState == {"raw", "auto", "open", "aborted", "dead", "closed"}
Label     == {"idle", "get", "connect", "autocommit", "query"}
Job       == {"whitelist", "override", "servers", "mapping", "log"}

\* instantiate() has connected, unless radiusd starts during an outage.
Init ==
  /\ device \in Row /\ mapping \in Group \cup {None}
  /\ faults \in 0 .. MaxFaults /\ faults <= 1
  /\ up \in BOOLEAN /\ (up <=> faults = 0)
  /\ global \in IF up THEN Conn ELSE {None}
  /\ state = [k \in Conn |-> IF k = global THEN "auto" ELSE "closed"]
  /\ pc = [t \in Thread |-> "idle"] /\ job = [t \in Thread |-> "log"]
  /\ ref = [t \in Thread |-> None] /\ kind = [t \in Thread |-> "user"]
  /\ accept = [t \in Thread |-> FALSE] /\ reply = [t \in Thread |-> None]
  /\ failed = [t \in Thread |-> FALSE]
  /\ pins = [t \in Thread |-> {}] /\ maps = [t \in Thread |-> {}]
  /\ edits = 0 /\ raced = FALSE

Goto(t, label) == pc' = [pc EXCEPT ![t] = label]

\* The call goes on with access j.
Access(t, j) ==
  /\ job' = [job EXCEPT ![t] = j]
  /\ Goto(t, "get")
  /\ ref' = [ref EXCEPT ![t] = None]

-----------------------------------------------------------------------------
(* _get_db().                                                              *)

\* Mutant of GetDb: only "is None" is tested, not ".closed".
StaleGetDb(t) ==
  /\ pc[t] = "get"
  /\ \/ /\ global = None
        /\ Goto(t, "connect")
        /\ UNCHANGED ref
     \/ /\ global # None
        /\ ref' = [ref EXCEPT ![t] = global]
        /\ Goto(t, "query")
  /\ UNCHANGED <<tables, database, job, call, faults, raced>>

\* Without a usable connection the thread makes one; another thread may be
\* doing the same.
GetDb(t) ==
  /\ pc[t] = "get"
  /\ \/ /\ \/ global = None
           \/ global # None /\ state[global] = "closed"
        /\ Goto(t, "connect")
        /\ UNCHANGED ref
     \/ /\ global # None /\ state[global] # "closed"
        /\ ref' = [ref EXCEPT ![t] = global]
        /\ Goto(t, "query")
  /\ UNCHANGED <<tables, database, job, call, faults, raced>>

Unused == {k \in Conn : k # global /\ \A t \in Thread : ref[t] # k}

\* _db_conn = psycopg2.connect(DB_URL): from here on every thread sees it.
\* Connections nobody refers to any more have been collected.
Connect(t) ==
  /\ pc[t] = "connect" /\ up
  /\ \E k \in Unused :
       /\ state' = [c \in Conn |-> IF c = k THEN "raw"
                                  ELSE IF c \in Unused THEN "closed" ELSE state[c]]
       /\ global' = k
  /\ Goto(t, "autocommit")
  /\ UNCHANGED <<tables, up, job, ref, call, faults, raced>>

\* _db_conn.autocommit = True, on whatever _db_conn is now, then return it.
SetAutocommit(t) ==
  /\ pc[t] = "autocommit"
  /\ global # None /\ state[global] \in {"raw", "auto", "dead"}
  /\ state' = [state EXCEPT ![global] = IF @ = "raw" THEN "auto" ELSE @]
  /\ ref' = [ref EXCEPT ![t] = global]
  /\ Goto(t, "query")
  /\ UNCHANGED <<tables, up, global, job, call, faults, raced>>

\* Where a call goes on when the access fails or finds nothing.
Otherwise(j) == IF j = "override" THEN "servers" ELSE "log"

\* The call is over; what it decided dies with it.
Finish(t) ==
  /\ Goto(t, "idle")
  /\ ref' = [ref EXCEPT ![t] = None]
  /\ kind' = [kind EXCEPT ![t] = "user"]
  /\ accept' = [accept EXCEPT ![t] = FALSE]
  /\ reply' = [reply EXCEPT ![t] = None]
  /\ failed' = [failed EXCEPT ![t] = FALSE]
  /\ pins' = [pins EXCEPT ![t] = {}] /\ maps' = [maps EXCEPT ![t] = {}]
  /\ UNCHANGED job

\* The hook's except clause: nothing was found, nothing was logged.
Fail(t) ==
  \/ job[t] = "log" /\ Finish(t)
  \/ /\ job[t] # "log"
     /\ failed' = [failed EXCEPT ![t] = TRUE]
     /\ Access(t, Otherwise(job[t]))
     /\ UNCHANGED <<kind, accept, reply, pins, maps>>

\* _get_db() returns None: PostgreSQL refuses the connection, or autocommit
\* is set on a connection that another thread has closed or begun to use.
NoDb(t) ==
  /\ \/ pc[t] = "connect" /\ ~up
     \/ pc[t] = "autocommit" /\ state[global] \in {"open", "aborted", "closed"}
  /\ Fail(t)
  /\ UNCHANGED <<tables, database, faults, raced>>

-----------------------------------------------------------------------------
(* Queries.                                                                *)

\* The query reaches PostgreSQL: not on a connection whose server side is
\* gone or whose transaction has failed.
Usable(t) == state[ref[t]] \in {"raw", "auto", "open"}

\* The connection after a query: without autocommit the first one opens a
\* transaction, which stays open; an error there aborts it.
AfterQuery(s, ok) ==
  IF s = "auto" THEN s ELSE IF ok THEN "open" ELSE "aborted"

Ask(t, ok) ==
  /\ pc[t] = "query" /\ Usable(t)
  /\ state' = [state EXCEPT ![ref[t]] = AfterQuery(@, ok)]
  /\ raced' = (raced \/ state[ref[t]] = "raw")
  /\ UNCHANGED <<tables, up, global, faults>>

Cast(t) == kind[t] \notin Odd

\* Mutant of Whitelist: whoever looks like a MAB client is admitted.
OpenWhitelist(t) ==
  /\ job[t] = "whitelist" /\ Cast(t) /\ Ask(t, TRUE)
  /\ accept' = [accept EXCEPT ![t] = TRUE]
  /\ reply' = [reply EXCEPT ![t] = device]
  /\ Access(t, "log")
  /\ UNCHANGED <<kind, failed, pins, maps>>

\* _lookup_mab_device in authorize: a row admits the client, in its VLAN.
Whitelist(t) ==
  /\ job[t] = "whitelist" /\ Cast(t) /\ Ask(t, TRUE)
  /\ accept' = [accept EXCEPT ![t] = device # NoRow]
  /\ reply' = [reply EXCEPT ![t] = IF device = NoRow THEN None ELSE device]
  /\ Access(t, "log")
  /\ UNCHANGED <<kind, failed, pins, maps>>

\* Mutant of Override: the group's VLAN wins over the device's.
GroupFirst(t) ==
  /\ job[t] = "override" /\ Cast(t) /\ Ask(t, TRUE)
  /\ \/ /\ device \in Pin /\ mapping = None
        /\ reply' = [reply EXCEPT ![t] = device]
        /\ Access(t, "log")
     \/ /\ device \notin Pin \/ mapping # None
        /\ Access(t, "servers")
        /\ UNCHANGED reply
  /\ UNCHANGED <<kind, accept, failed, pins, maps>>

\* _lookup_mab_device in post_auth: a row with a VLAN decides.
Override(t) ==
  /\ job[t] = "override" /\ Cast(t) /\ Ask(t, TRUE)
  /\ \/ /\ device \in Pin
        /\ reply' = [reply EXCEPT ![t] = device]
        /\ Access(t, "log")
     \/ /\ device \notin Pin
        /\ Access(t, "servers")
        /\ UNCHANGED reply
  /\ UNCHANGED <<kind, accept, failed, pins, maps>>

\* The Calling-Station-Id is no macaddr: the query fails, no row is found.
BadCast(t) ==
  /\ job[t] \in {"whitelist", "override"} /\ ~Cast(t) /\ Ask(t, FALSE)
  /\ Access(t, Otherwise(job[t]))
  /\ UNCHANGED call

\* _get_user_ldap_groups: the LDAP server of the highest priority answers
\* with groups, or there is none, it fails, or the user is in no group.
Groups(t) ==
  /\ job[t] = "servers" /\ Ask(t, TRUE)
  /\ \/ Access(t, "mapping")
     \/ Access(t, "log")
  /\ UNCHANGED call

\* _lookup_vlan_for_groups
GroupVlan(t) ==
  /\ job[t] = "mapping" /\ Ask(t, TRUE)
  /\ reply' = [reply EXCEPT ![t] = mapping]
  /\ Access(t, "log")
  /\ UNCHANGED <<kind, accept, failed, pins, maps>>

\* _log_auth_to_db: without autocommit the row is never committed; ~ok: the
\* INSERT is refused for its data (a Calling-Station-Id over 50 characters, a
\* NUL in an attribute), and the attempt is lost.
LogAuth(t, ok) ==
  /\ job[t] = "log" /\ Ask(t, ok)
  /\ Finish(t)

\* OperationalError or InterfaceError mark the connection closed; an aborted
\* transaction refuses the query and stays.
QueryFails(t) ==
  /\ pc[t] = "query" /\ ~Usable(t)
  /\ state' = [state EXCEPT ![ref[t]] = IF @ = "dead" THEN "closed" ELSE @]
  /\ Fail(t)
  /\ UNCHANGED <<tables, up, global, faults, raced>>

-----------------------------------------------------------------------------
(* Requests, administrators, failures.                                     *)

\* The first access of a call.  post_auth of a rejected user, or of a MAB
\* request, only logs.
First(k, ok) ==
  IF k \in MabKind THEN "whitelist"
  ELSE IF ~ok THEN "log"
  ELSE IF k = "nomac_user" THEN "servers" ELSE "override"

\* A request arrives; ok: rlm_ldap and eap have accepted the user (the MAC
\* that a MAB client sends for a name is no user of theirs).
Begin(t, k, ok) ==
  /\ pc[t] = "idle"
  /\ k \in MabKind => ~ok
  /\ Access(t, First(k, ok))
  /\ kind' = [kind EXCEPT ![t] = k] /\ accept' = [accept EXCEPT ![t] = ok]
  /\ pins' = [pins EXCEPT ![t] = {device}]
  /\ maps' = [maps EXCEPT ![t] = {mapping}]
  /\ UNCHANGED <<tables, database, reply, failed, faults, raced>>

\* An administrator edits a table (or a device's expiry date passes) while
\* some calls are under way.
Witness(h, v) ==
  [t \in Thread |-> IF pc[t] = "idle" THEN h[t] ELSE h[t] \cup {v}]

EditDevice(v) ==
  /\ edits < MaxEdits /\ edits' = edits + 1
  /\ v # device /\ device' = v
  /\ pins' = Witness(pins, v)
  /\ UNCHANGED <<mapping, database, pc, job, ref, kind, accept, reply, failed,
                 maps, faults, raced>>

EditMapping(v) ==
  /\ edits < MaxEdits /\ edits' = edits + 1
  /\ v # mapping /\ mapping' = v
  /\ maps' = Witness(maps, v)
  /\ UNCHANGED <<device, database, pc, job, ref, kind, accept, reply, failed,
                 pins, faults, raced>>

\* PostgreSQL stops: every session ends, and with it an open transaction.
DbStops ==
  /\ up /\ faults < MaxFaults /\ faults' = faults + 1
  /\ up' = FALSE
  /\ state' = [k \in Conn |-> IF state[k] = "closed" THEN "closed" ELSE "dead"]
  /\ UNCHANGED <<tables, global, pc, job, ref, call, raced>>

DbStarts ==
  /\ ~up /\ up' = TRUE
  /\ UNCHANGED <<tables, global, state, pc, job, ref, call, faults, raced>>

-----------------------------------------------------------------------------
\* A thread's call goes on.
Step(t) ==
  \/ GetDb(t) \/ Connect(t) \/ SetAutocommit(t) \/ NoDb(t) \/ QueryFails(t)
  \/ Whitelist(t) \/ Override(t) \/ BadCast(t) \/ Groups(t) \/ GroupVlan(t)
  \/ \E ok \in BOOLEAN : LogAuth(t, ok)

Next ==
  \/ \E t \in Thread : Step(t)
  \/ \E t \in Thread, k \in Kind, ok \in BOOLEAN : Begin(t, k, ok)
  \/ \E v \in Row : EditDevice(v)
  \/ \E v \in Group \cup {None} : EditMapping(v)
  \/ DbStops \/ DbStarts

Spec == Init /\ [][Next]_vars

\* radiusd's threads run and PostgreSQL is started again; requests and edits
\* may stop.
FairSpec == /\ Spec
            /\ \A t \in Thread : WF_vars(Step(t))
            /\ WF_vars(DbStarts)

-----------------------------------------------------------------------------
(* Properties.                                                             *)

TypeOK ==
  /\ device \in Row /\ mapping \in Group \cup {None} /\ up \in BOOLEAN
  /\ global \in Conn \cup {None} /\ state \in [Conn -> ConnState]
  /\ pc \in [Thread -> Label] /\ job \in [Thread -> Job]
  /\ ref \in [Thread -> Conn \cup {None}]
  /\ kind \in [Thread -> Kind] /\ accept \in [Thread -> BOOLEAN]
  /\ reply \in [Thread -> Vlan \cup {None}]
  /\ failed \in [Thread -> BOOLEAN]
  /\ pins \in [Thread -> SUBSET Row]
  /\ maps \in [Thread -> SUBSET (Group \cup {None})]
  /\ edits \in 0 .. MaxEdits /\ faults \in 0 .. MaxFaults /\ raced \in BOOLEAN

\* The reply has been decided and is about to be logged and sent.
Decided(t) == pc[t] # "idle" /\ job[t] = "log" /\ accept[t]

\* The VLANs that the documented precedence allows, for a call during which
\* the tables held the values pins[t] and maps[t]: a device's VLAN wins over
\* the groups'; a MAB client needs a row.
Prescribed(t) ==
  IF kind[t] \in MabKind THEN pins[t] \ {NoRow}
  ELSE IF kind[t] = "user" /\ pins[t] \subseteq Pin THEN pins[t]
  ELSE maps[t] \cup {None} \cup (IF kind[t] = "user" THEN pins[t] \cap Pin
                                                    ELSE {})

\* Who is accepted gets a VLAN the tables prescribed at some moment of the
\* call, however the threads meet on the connection and whatever fails; only
\* a failed lookup may cost a user the VLAN (it is then the group's, or none),
\* and it never lets in a device that has no row.
Precedence ==
  \A t \in Thread : Decided(t) =>
    \/ reply[t] \in Prescribed(t)
    \/ kind[t] \notin MabKind /\ failed[t] /\ reply[t] \in maps[t] \cup {None}

\* The attempt ends without an INSERT that PostgreSQL commits or refuses.
Unlogged(t) ==
  /\ pc[t] # "idle" /\ pc'[t] = "idle"
  /\ pc[t] = "query" => state[ref[t]] # "auto"

LookupFails(t) == failed'[t] /\ ~failed[t]

\* Once PostgreSQL stays up, the shared connection is repaired: from some
\* point on no lookup fails and every attempt is logged, but for the rows that
\* are refused for their data.
Recovers == <>[][raced \/ \A t \in Thread : ~(LookupFails(t) \/ Unlogged(t))]_vars
=============================================================================
