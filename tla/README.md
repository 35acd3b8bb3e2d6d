# OpenRadiusWeb in TLA+

OpenRadiusWeb is a network access control system around FreeRADIUS: a FastAPI
gateway with a React front end, PostgreSQL, Redis, NATS JetStream, a FreeRADIUS
container with a Python module, and services for CoA, policies, discovery,
inventory, events and switch management. This directory models the parts in
which several actors share state, checks them with TLC on small instances and
proves the main invariants with TLAPS for every value of the constants.

Line numbers refer to the repository. `PROJECT.json` maps each definition to
the lines it translates and each hazard to the properties that would catch it.

## Inventory

| Component | State | Operations | Talks to | What is hard |
|---|---|---|---|---|
| FreeRADIUS configuration (`services/auth/freeradius_config_manager.py`, `_watcher.py`, `_entrypoint.sh`) | generated files and certificates in a shared volume, rows of `freeradius_config` (last applied hash), the configuration radiusd has loaded | apply: hash, compare, write, record; SIGHUP; link and exec | database, NATS stream `orw.config.freeradius.apply`, docker | two appliers without a lock, publish before commit, acknowledge before apply, crash between record and reload |
| Certificates (gateway) | `certificates` rows, one active per kind | create, import, activate, delete, renew | configuration apply | READ COMMITTED races, renewal loop against administrators |
| RADIUS access decision (`rlm_orw.py`) | one global psycopg2 connection | authorize, post_auth, log | `mab_devices`, `group_vlan_mappings`, `ldap_servers`, LDAP | radiusd's threads on one connection, outages, autocommit |
| MAB devices, group VLAN mappings, VLANs | their rows | create, update, delete, import | the access decision | edits between two lookups of a call |
| LDAP servers, realms, NAS clients | their rows | create, update, delete, test | configuration apply | reference checks; silent edits of NAS clients |
| Login and users | Redis counters and lockouts, `users` | login, create, update, delete, reset | Redis | INCR and EXPIRE are two commands; check-then-act |
| Message bus (`shared/orw_common/nats_client.py`) | stream, durable consumers | publish, subscribe, ack, nak | all services | at least once, nak without a limit, replay when a consumer is recreated |
| Change of authorization (`coa_manager.py`, `coa_service.py`, gateway `coa`) | packet identifiers, `radius_sessions`, log | disconnect, reauthenticate, change VLAN, ACL, bulk | NAS over UDP, NATS | an address of the wrong type, a log statement that fails, redelivery without a limit |
| Policy engine (`policy_engine`, gateway `policies`) | `policies`, `policy_evaluations` | evaluate, simulate, edit, templates | NATS | a failing INSERT before the actions; two copies of the evaluator |
| Secrets and rotation (`secrets.py`, four scripts) | encrypted columns, the key a process derived | encrypt, decrypt, migrate, rotate | all readers of secrets | rotation against concurrent writes, cut off and run again |
| Network devices, switch management | `network_devices`, `switch_ports` | set VLAN, poll, create, edit | NATS, SNMP, SSH | publish before commit; switch and row changed one after the other; replayed commands |
| Discovery, inventory | `devices`, MACs seen | sniff, scan, merge, edit | NATS | reports repeated and late, deletion in between, publish after commit |
| Event service, AD collector, Wazuh | `events`, poll cursor | store, poll | NATS, HTTP | never reached: see "Not modelled" |
| Backups | files, `backup_runs` | dump, rotate, restore | shell | one process at a time |
| Audit, settings, dashboards, health | rows | queries, single updates | - | nothing concurrent |

What would make each correct:

- **configuration**: a version recorded is a version written; radiusd serves
  what was recorded; committed changes arrive in the end; no reload without a
  change.
- **certificates**: never two active of a kind; an active one is only ever
  replaced; an expiring one is renewed while there is a user to renew it, a CA
  that can sign and a name that fits.
- **access**: the VLAN follows the precedence device, group, none; no MAB client
  without a row; after an outage attempts are logged again.
- **login**: no more wrong guesses than the threshold and the logins under way;
  no counter without a time to live; accounts unique, and somebody left.
- **bus**: a message that can be answered is answered, whatever is refused
  around it.
- **CoA, switches**: what is audited was ordered, the order given last is the
  one that stays, a port and its row agree or somebody was told.
- **inventory, policy engine**: nothing known of a device is lost, a changed
  device is evaluated, and an evaluation on record is that of the device.
- **evaluator, packets**: both copies decide alike; a NAS reads what was built.
- **secrets**: a secret saved is the one decrypted later, during a rotation too.

## Modules

| Module | Models |
|---|---|
| `ConfigSync` | the two appliers, the gateway's transactions, the stream, files, hashes, SIGHUP, failures |
| `ConfigService` | the abstract promise: radiusd runs on committed texts only (`Safety`), and in the end on the last ones (`Delivers`) |
| `ConfigSyncRefinement` | the refinement mapping from `ConfigSync` to `ConfigService` |
| `Certificates` | the certificate store: requests and renewal loop as READ COMMITTED transactions |
| `Access` | radiusd's threads in `authorize` and `post_auth` on the shared connection |
| `Bus` | the message bus as `nats_client.py` uses it; `Commands` and `Pipeline` are built on it |
| `Commands` | orders: gateway, `coa_service`, `switch_mgmt`, the NAS, the switches and the sessions |
| `Pipeline` | discovery, inventory, policy engine, and the gateway's edits of devices and policies |
| `Evaluator` | the conditions of a policy as the engine decides them |
| `Simulator` | the second copy of the evaluator, the simulation and the templates |
| `RadiusPacket` | the packets of a change of authorization: building, encoding, decoding |
| `Generator` | the generated configuration: which file declares and names what, which certificate files are written |
| `MabDevices` | the CSV files of the MAB whitelist: export, parsing, bulk import |
| `PureFunctions` | one state per input of these five, and what is true of every input |
| `Login` | logins with their Redis counters, tokens, accounts |
| `Secrets` | encrypted columns, their writers and readers, the migrations and the rotation |
| `MC...` | instances for TLC |
| `ConfigSync_proofs`, `Certificates_proofs`, `Decisions_proofs` (of `Access` and `PureFunctions`), `Commands_proofs`, `Pipeline_proofs`, `Login_proofs`, `Secrets_proofs` | the theorems about each component, and their proofs |
| `Bus_proofs` | lemmas on the bus, on which `Commands_proofs` and `Pipeline_proofs` rest |

A definition whose comment begins "Mutant of X" or "A mistake" is a plausible
wrong version of the code in the definition that follows it. No specification
uses it: it is there to show that a property can fail.

### ConfigSync

One action is the code between two points where another process, or a failure,
can be noticed. An item is a generated file, or the certificate directory as a
whole, which `apply_configs` (manager 815-941) hashes and skips as one. The
texts are abstracted to versions: `db[i]` counts committed edits and
`Content[i][v]` says which versions have equal texts, so an edit may restore an
old text and so an old hash. `HashCerts`, `CheckCerts`, `Open`, `Close`, `Save`,
`Generate` and `NextFile` are the steps of a pass, run alike by the watcher and
by the entrypoint. `Start`, `Deliver`, `Reconcile`, `Resubscribe` and `Hup` are
the watcher's loop, `Exec` the end of the entrypoint. `Edit`/`Commit`/`Rollback`
are gateway transactions that publish before they commit, `SilentEdit` those
that publish nothing. `WriteFails`, `SaveLost`, `SaveRaises`, `HashUnreadable`, `DbDown`,
`HupFails` and `Crash` are the failures, with the code's own except clauses:
`SaveRaises` is the file that is written whole and whose state is then saved a
second time, with status "error", because the first save or the chmod raised.

`hurt` is a history variable. It records what the next pass may not put right:
`write_error`, `reload_lost`, `unlinked`, `cert_race` (the certificates changed
between the read that is hashed and the read that is written), `overlap` (the
other applier wrote the file before this one recorded its hash), `unsaved` (a
file was touched and its hash was not recorded), `clash` (the appliers held
different versions of an item at once) and `recut` (a rewrite of what is recorded
already was cut off). `Harm` is all of them but the last two; `Converges`,
`ServedMatchesRecord` and the liveness of the refinement hold while there is none,
and `SurvivesWriteError` shows that one of them does harm for good.

`RecordedIsWritten` is not excused by `Harm`. It says that a record of the
*current* version means current bytes, the only thing on which a pass relies when
it leaves an item alone, and it must survive torn files, lost and repeated saves,
certificates that change between their two reads, and an applier that overtakes
the other, as long as the two hold the same version. A record may fall behind the
disk: the item is then written again. Its exceptions are the failed write that is
recorded, `clash` and `recut`. Its mutant records the hash of what the database
holds at the time of the save.

### Certificates

One row per certificate; `dirty[t]` is the uncommitted write set of transaction
t and stands for its row locks as well. A statement sees committed rows and its
own transaction's; `deactivate_certs_of_type` takes its snapshot in
`StartDeactivate` and waits for locks in `Deactivate`, as an UPDATE does under
READ COMMITTED. The renewal pass is one transaction over all candidates, and a
failed statement aborts it as a whole although the loop catches the exception.
It acts as the user "admin" of the tenant "default": without one (`actor`, which
`ChangeActor` deletes and creates again) nothing is renewed. It signs with any
active CA, and raises if that was imported without its key (`Keyless`); a renewed
name is seventeen characters longer than the old one and may be too long for a
file (`Overlong`). An error before the first statement leaves the other candidates
alone.

### Access

A call of a thread is a chain of accesses (`whitelist`, or `override`,
`servers`, `mapping`, and always `log`), each of them `_get_db()` and one query.
`GetDb`, `Connect` and `SetAutocommit` are the three statements of `_get_db()`
between which psycopg2 or the interpreter may let another thread run.
`state[k]` is what a connection object is worth: autocommit set or not, in a
transaction, aborted, dead without psycopg2 knowing, closed. An exception is
caught and answered as if nothing was found (`Fail`). `pins` and `maps` record
what the tables contained during a call, so that the property can ask for a
VLAN that was right at some moment of it. The INSERT of an attempt may be refused
for its data as well as lost with its connection.

### Bus

One stream and, for every durable name, a consumer that is given the messages of
its subject in order, one callback at a time (nats-py awaits it). `Take` gives
the next new message or the first refused one; `Ack`, `Nak` and `Expire` (the
callback outlives `ack_wait`) end a delivery; `Subscribe` is `subscribe()`, which
deletes the consumer first, so that a start is given the stream from its
beginning. What the server does is external: only its promises are used.

### Commands

The gateway publishes the messages of a call one by one and commits last
(`PublishOrder`, `AuditAndCommit`, `CallFails`). `CoaLookup`, `SkipUnknown`,
`FailToBuild`, `SendRaises`, `SendToNobody`, `Log` and `CoaDone` are
`handle_coa_action`. No packet ever leaves: `nas_ip` is an INET column, asyncpg
returns an address object, and `create_datagram_endpoint` wants text
(`SendRaises`). A session without a `nas_ip` (`Addressless`) makes the host None;
that attempt fails, ends in `Log`, and there the details, the text of a Python
dict, are refused as JSON. Either way the message is refused and given again while
the session lasts; `EverySettled` says that it holds up no other. An action without
its parameter (a `vlan_id` of None, an empty ACL name) is known to nobody and
skipped; an ACL name over 253 bytes cannot be packed.

`SetVlanBegin` to `ReportFailure` are `handle_set_vlan`: switch first, row next,
event last. `radius_sessions` is filled by nothing in the repository, so its rows
come and go freely. The sessions still to be served by an order are places in
`opened`, the order in which they began (`Turn`). History: `setter` says which
order changed a port last, `refused` and `failed` which orders were refused or
reported.

### Pipeline

`ScanBegin`, `ScanPublish`, `ScanDone` are the active scanner; a publish that
fails raises in an ARP scan, is swallowed in an SNMP walk, and does either in an
nmap scan. `Merge` is the transaction of the inventory, `Announce` the publish
after it. `EvaluateBegin`, `ReadPolicies`, `Record`, `EvaluateDone` are one
transaction of the engine under READ COMMITTED; rows it refers to are locked
against deletion. A row whose actions are not empty is refused, as its jsonb
parameter is no JSON, and so no action is ever executed; a pattern that is no
regular expression (`regular`) raises `re.error`, which `_compare` does not catch,
once the field has a value; a report with a value longer than its column
(`Overlong`) is refused as well. `accepts` is chosen at
the start: whether the driver takes `:details::jsonb`, which a test of the
repository (`test_no_inline_inet_cast.py`) says it never does; both are checked.

`edits` is the clock behind `policies.updated_at` and
`policy_evaluations.evaluated_at`, which are NOW(), the time their transaction
began. A transaction of the gateway that writes a policy is therefore two steps:
`Open`, its first statement, and the commit (`CreatePolicy`, `ApplyTemplate`,
`UpdatePolicy`), a publish and an audit row later. A policy has `at`, the
`updated_at` its row shows, and `since`, a ghost, when that change was committed.
`EvaluationCurrent` speaks of evaluations that are not older than `at` and excepts
those begun before `since`: they are dated after the change and have read the
policy as it was before. Older ones do lie too: a policy that is disabled, and
enabled again with the same conditions, has been passed over by what was evaluated
in between, and its old row says what it found in the device before.
Any scan may outlast the `ack_wait` of its message (`ScanOutlasts`).
`scan.done` counts the hosts of the scan in hand that were published.

### Evaluator, Simulator, RadiusPacket

Values keep their Python types (None, bool, number, text, list), since
truthiness, `==` and `str()` tell them apart; texts are sequences of tokens, with
`Fold`, `Numeral` and `Blank` for `lower()`, `float()` and `strip()`. The two
copies of the evaluator are translated separately. `float()` reads "nan" and
"inf" as well: `Nan` are the texts it reads as nan, which no ordering holds of, and
an infinity is a number beyond the others. Byte strings are sequences of bytes;
a tunnel attribute is packed into five of them and cut to four, as the code does.

### Generator, MabDevices

`ConfigSync` treats a generated text as a version; `Generator` says what is in
it. A file is the set of names it declares (modules, servers, pools, realms,
clients) and the set it uses; `broken` are the templates that fail to render,
which the code turns into a missing file and a flag for the sites. The
`virtual_server` of a client is text of its row that goes into the file as it is,
a use of a name nothing checks. Tables are
sequences in the loaders' ORDER BY, since the first certificate of a kind is
asked for its DH parameters and an unreadable key ends the writing.
`SafeName` is the naming rule the code repeats in four places. A CSV file in
`MabDevices` is a header and lines of texts; `NormalMac`, `Instant` and
`Numeral` say which texts the validators read, and as what, and several texts
may stand for one MAC or one instant. `BulkInsert` is the INSERT of one line
with its ON CONFLICT DO NOTHING and the count it leads to, `BulkImport` the
loop over the lines; an item longer than its column (`Width`) rolls the whole
import back (`Refused`).

### Login

A login is a coroutine: one action per Redis command and per statement, since
every await lets another login run. `due` maps each key that will expire to the
attempts under way when it was set (`busy`), which it outlives, and to the keys set
before it for the same time (`before`), which expire first.
`Spelling` is a name as typed, which keys the counters, `Fold` what the CITEXT
column compares. `spent` counts the failures between two lifts of a lock. A token
carries the id and role it was made with, as `get_current_user` reads no row.

### Secrets

`cell` is the stored value of a column's row: absent, NULL, a plaintext, or a
ciphertext under a key. A script is begin, `Select` (the whole column),
`RotateRow` or `MigrateRow` row by row into a draft, and a commit for the column
(`RotateColumn`) or for the table (`MigrateColumn`); it may be cut off at any
step (`ToolFails`), and be run again, with other options, or backwards. `truth`
records what was meant to be stored; the empty string is a text that is encrypted
like any other, while only NULL passes through, and the scripts take a stored empty
plaintext for no value (`Blank`). `raced` are the cells the gateway wrote between
a script's SELECT and its UPDATE.

## Runs

| Run | Question | Bounds |
|---|---|---|
| `ConfigSync` | does a record mean bytes, does radiusd serve what is recorded, does a change reach it although messages are early, acknowledged early, lost with a crash and given again, does it implement `ConfigService`, does it fall silent? | certificates and one file, one edit each, one message, one failure of any kind; where a failure did harm, what follows is explored only while no message has been published (`HarmOrMessages`) |
| `ConfigSync_write_error` | violated: a failed write is forgotten | the same without a message |
| `Certificates` | one active per kind, none lost, is an expiring one replaced? | a CA, one without its key, two tables to start from; one server certificate, an imported one, two identities for new ones, of which one has a name that grows too long; two requests at once and the loop, one failure, days that pass, the user "admin" coming and going |
| `Access_safety` | is the decided VLAN one the tables prescribed? | two threads, three connections, one pinned and one group VLAN, one edit, one outage; symmetry on threads and connections |
| `Access_recovers` | is the connection repaired after an outage? | no VLANs, no edits (they do not touch the connection), one outage; a row may be refused |
| `PureFunctions` | do the copies agree, is the simulation true, do requests survive the wire, is a datagram ever misread, do generated files name only what exists, can an export be imported, what does a file do to a table? | 53462 inputs: every operator on values of all types, nan and the infinities among the texts, the templates on several devices, requests of every kind at the identifiers 0, 254 and 255 with attributes up to and over the longest, short byte strings and answers with whole, cut and repeated Error-Causes; tables with two certificates of a kind, two LDAP servers, two realms, rows disabled and secrets unreadable, clients with a virtual server, and failing templates; whitelists of up to two devices and files of three lines, wrong, blank, short, long and repeated, too long for a column, with a column twice |
| `PureFunctions_tunnel` | violated: a change of VLAN says Tunnel-Type VLAN | same |
| `Commands` | is anything audited and not sent, changed and not recorded, ordered last and undone, or never answered though it could be? | eight plans of one or two calls with up to two faults and one start; two sessions of one MAC, two ports, two messages |
| `Pipeline` | does every report reach the inventory, every change an evaluation, is what is on record current, and is every message answered that can be, beside those that never can? | thirteen plans of one to four requests with at most one fault and one start, among them the reports, patterns and policies that are refused for ever; two devices, two policies |
| `Login` | how many guesses, which counters stay, who is left? | six plans of up to five logins and actions, two under way at once, limits of two, at most one fault |
| `Secrets` | is a secret ever lost, can exit code 0 be relied on? | eight cells in two initial states, with NULLs, empty strings, plaintexts and ciphertexts, two runs of scripts, one write of the gateway, one script cut off |
| `Secrets_ssh_password` | violated: a column keeps the old key | same |

Why the bounds are enough. Two appliers are all there are. One file besides the
certificates exercises both kinds of item, and an edit of each the watcher that
is behind, level with and ahead of the entrypoint. One failure is enough to put
any failure at any step; two do not meet each other since each ends its pass.
`HarmOrMessages` cuts nothing from `Converges`, whose promise ends where `Harm`
begins (`hurt` only grows). What it keeps from `ServiceSpec` and
`RecordedIsWritten` is the harmful failure beside a message, which does no more
than wake the watcher a pass early; the safety of both is proved for messages,
edits and failures of any number. Two administrators and the loop give every
order of three transactions on a kind; four server certificates leave room for
the one in use, a reserve, and two insertions. Two threads can each hold a
connection while a third object is being created; a third thread would only
repeat the second. The proofs cover the other sizes.

A plan is a set of requests of which each may be made once, at any moment. The
plans of `Commands`, `Pipeline` and `Login` put together what can meet: requests
about the same session, port, device, policy or account, with a fault and a
restart where these can matter. Calls about different ones share only the
consumers' order, which every plan with two messages exercises. A limit of two
instead of 5 or 20 attempts keeps both "below" and "at" the limit; with two
logins under way `GuessesBounded` is tight. `Secrets` needs two runs (a rotation
again, back, or after a migration) and two keys; one write per behaviour
suffices for a race with either run.

No run claims more than its fairness. `ConfigSync`: the watcher's and the
entrypoint's processes run (`restart: always` in docker-compose.yml, an event
loop that always returns to `next_msg` with a timeout); edits and failures owe
nothing. `Certificates`: the event loop runs the statements of open
transactions, the renewal loop wakes up, and the date changes; nobody must make
a request. `Access`: radiusd's threads run, and PostgreSQL is started again;
requests may stop. `Commands` and `Pipeline`: callbacks run on (weak fairness);
a consumer is given its new messages and, in turn, its refused ones (strong
fairness for each message, as the server neither starves new messages for
refused ones nor the reverse). Without that, a message refused for ever could
hide all others; with it, `EverySettled` shows that it does not. `Login` and
`Secrets` check safety only and assume no fairness.

`CHECK_DEADLOCK` is off where a behaviour ends when its plan is used up
(`Commands`, `Pipeline`, `Login`) or its input is decided (`PureFunctions`);
elsewhere the system may not stop.

### Disagreements between code and text

Three runs each check one sentence of a docstring or comment, given with its
finding in `PROJECT.json`, and find it violated:

1. a file whose write failed is recorded as applied and never written again
   (manager 925);
2. `network_devices.ssh_password_encrypted` is not in the rotation's list of
   columns: after a rotation the switch management cannot read it
   (rotate_secret_master.py 49);
3. "Tunnel-Type = VLAN (13)" and "tag(1) + value(3) = 4 bytes": the cut drops the
   last byte, so a NAS reads 0 for 13 and for 6 (coa_manager.py 164).

Others were met while modelling. The models follow the code; where a property
has an exception for one of them, it is named.

- Configuration. A SIGHUP that failed, or that a crash cut off, is not repeated
  (watcher 173; cause `reload_lost`). Links are made once, so a file created
  later is not loaded (entrypoint 38; `unlinked`). A certificate edited between
  the hash and the write and later reverted leaves the abandoned one on disk
  (`cert_race`). When the save or the chmod raises after a whole write, the hash is
  recorded after all, with status "error", and no SIGHUP follows (manager 923).
- Generator. `eap` is generated without certificates too, although the comment
  says "only generate if active CA + server cert exist" (manager 215): radiusd is
  then told of files that are not there. A realm of type `reject` names a pool
  "reject" that nothing declares (manager 532), and `eap.j2` a server
  `check-eap-tls` that nothing in the repository declares; a client's
  `virtual_server` is any text (manager 609). `ReferencesResolve`
  excepts the three. Names that differ only in case, blanks, "-" and "." share a
  safe name, so two LDAP servers or proxy realms may declare one module or pool
  twice; tenants share names anyway, as the loaders read all of them. One secret
  that cannot be decrypted stops the generation of every file.
- Whitelist. The export is called "round-trip safe" (mab_devices/service.py 347,
  routes.py 138), but `enabled` is not in it: a disabled device that is deleted
  and imported again is enabled. "Errors do NOT abort parsing" (service.py 262),
  but a line with more cells than the header raises outside the `try` and no
  device is imported (`Overlong`).
- Certificates. An activation does not see a certificate the renewal loop
  inserts meanwhile: two are active (repository.py 262; `phantom`). A
  certificate activated after `delete_cert` has checked it is deleted
  (repository.py 288; `deleted_active`). Without a user "admin" in the tenant
  "default" nothing is ever renewed (auto_renewal.py 85), nor while an active CA
  has no key, nor under a name that has grown too long; the reasons are in the
  log only.
- Access. `_db_conn` is visible before its autocommit is set: a thread that uses
  it in between makes all later log rows part of a transaction nobody commits
  (rlm_orw.py 135; `raced`). A failed device lookup is answered like a missing
  row, so a user gets the group's VLAN (the second disjunct of `Precedence`). An
  attempt whose row PostgreSQL refuses is not logged.
- CoA. An order for a session that is active is never carried out, although "ACK
  tracking lives in" coa_service (gateway/features/coa/service.py 5): the address
  is no text (coa_manager.py 614), and the row that logs the attempt would be
  refused (769); the message is given again for as long as the session lasts.
  Neither sending nor `_log_coa` ever succeeding, the second session of a user
  is never reached although the docstring says "all sessions", and no row is ever
  marked terminated. `bounce_port` is accepted, answered "submitted" and known to
  nobody; so is a change of VLAN without a VLAN. An order that finds no session
  leaves no trace. The answer's identifier and authenticator are not compared with
  the request's.
- Policies. The engine applies every policy, not "first matching policy wins"
  (evaluator.py 14), and records an outcome only if it has no actions; nothing
  is ever executed. `updated_at` is when the transaction began, so an evaluation
  dated later may have used the policy as it was (`since`). A pattern that is no
  regular expression raises, and every evaluation it takes part in is refused for
  ever (evaluator.py 255). Template conditions on `auth.method`, `user.group` and
  `auth.802_1x`, and the documented `properties.<category>.<key>`, name no
  column, so they never match; `default_deny` applies to every device.
  `handle_policy_vlan_assign` reads `vlan_id`, the engine would publish
  `target_vlan`. A simulation's context lacks `risk_score` and the properties.
- Switches. `create_network_device` publishes the poll before the commit: a poll
  that comes first uses the community "public" and updates no row. A switch
  without a vendor makes the order raise and be redelivered for ever. After a
  restart the orders of the whole stream are carried out again.
- Inventory. A restart can bring a deleted device back, as its reports are given
  again. The passive monitor reports nothing: `get_event_loop()` raises in the
  sniffer's thread and the exception is logged at debug level. An edit through
  the gateway leads to no evaluation. A report with a value longer than its column
  (`os_version` holds 100 characters) is refused for ever.
- Login. Counters are per spelling of a name while the column ignores case. Two
  administrators can delete each other. `change_own_password` verifies and
  writes in two steps, so that it may overwrite a reset made in between.
- Secrets. "if mid-table fails we still commit the rows" (rotate 242) holds for
  rows that cannot be decrypted; a statement that fails undoes its column. A
  script beside a running gateway overwrites what was saved between its SELECT
  and its UPDATE (`raced`). A plaintext that happens to look like a ciphertext
  is skipped by the migrations (`LookAlike`). An update of a realm to type proxy
  can leave it without a secret.

## Theorems

| Theorem | For every | Inductive invariant |
|---|---|---|
| `ConfigSync_proofs!TypeCorrect` | set of files, texts, number of edits and failures | `TypeInv`: types, which locals are set at which program point, and that an open edit leaves room for its commit |
| `ConfigSync_proofs!RecordedCorrect` | same | `FreshInv` (with `TypeInv` and `NotAhead`), item by item: appliers that hold a version hold the same, none older than the record; what is being written is no older than the hash it will be recorded under; and what is on disk when nobody has it truncated is new enough for every hash recorded or about to be |
| `ConfigSync_proofs!ServedCorrect` | same | `SafeInv` (with `TypeInv`): while there is no `Harm` the record equals the disk, which `Exec` reads, and no file is missing that radiusd has loaded |
| `Certificates_proofs!TypeCorrect` | set of certificates and requests | types |
| `Certificates_proofs!OneActiveCorrect` | same | `DecisionsOK`: at most one transaction decides for a kind, and it leaves no other row active |
| `Certificates_proofs!ActiveSurvivesCorrect` | same | `ReplacesOK`: who takes an active certificate away puts another in its place before it can commit |
| `Decisions_proofs!TypeCorrect` | set of threads, connections and VLANs | types |
| `Decisions_proofs!PrecedenceCorrect` | same | `Local`: the reply of a call past its lookups is justified by what the tables contained during it; before that there is none |
| `Decisions_proofs!CopiesAlwaysAgree`, `ComparisonsHangTogether`, `SimulationIsTrue` | values of every type, operators, policies, contexts, texts and numerals | `Supplied` (the input is one of those handed over, and stays); so for the next two rows |
| `Decisions_proofs!RequestsRoundTrip`, `NothingIsMisread` | requests and digests; byte strings | same |
| `Decisions_proofs!ReferencesAreResolved`, `CsvFilesRoundTrip` | tables and failing templates; whitelists; files with lines of any kind | same |
| `ConfigSync_proofs!ServiceSafe` | same set of files, texts and numbers | `NotAhead`: no file, no value read or being written and nothing radiusd has loaded is a version the database has not committed |
| `Commands_proofs!TypeCorrect`, `AuditTrue`, `DriftHeard`, `LastWins` | consumers, ports, sessions, orders per call, faults and starts | `IInv`: what a call published is on the bus (`CallInv`); a callback is in hand while its consumer waits (`CoaInv`); by port, the row and the switch are as the last one to set them left them, a drift between the two has an unsettled or reported order to blame, and orders that were not refused were made in their order (`PortInv`) |
| `Pipeline_proofs!TypeCorrect`, `ArpComplete`, `ChangesAnnounced`, `KnownStays`, `EvaluationsCurrent` | devices, columns, policies, hosts per scan, requests, faults and starts | `IInv`: types; the hosts counted by `scan.done` have been reported; rows have distinct ids and what the inventory committed but not announced is still in its hands (`DeviceInv`); what an evaluation has in hand, and what is on record, is what a policy says no change of which was committed since it began, its rows locked (`EngineInv`); whatever makes an evaluation stale has left an unsettled message (`CurrentInv`) |
| `Login_proofs!TypeCorrect`, `LockoutBounds`, `CountersMortal`, `LastAccountKept` | accounts, spellings, addresses, attempts, limits and faults | `IInv`: types, with the keys in `due`; names are unique; `LockoutInv`: until the lock is set, a failure beyond the threshold has its login about to set it or ended by a fault, and once it is set no login joins those that had looked at it before; `NoImmortalCounter` itself. `LastAccountKept` has a small argument of its own |
| `Secrets_proofs!TypeCorrect`, `SecretsKept`, `ExitCodeSound` | columns, rows, keys, texts and runs | `IInv`: a stored value holds the secret meant (`NothingLost`); the row a script has in hand is the stored one, and its draft means the same, unless the gateway wrote since (`RowInHand`, `RowInDraft`); the rows it treated already are as its exit code will promise (`Promised`) |

The invariants of the runs are not inductive. `OneActive` speaks of committed
rows only and says nothing of the transaction that is about to commit;
`ActiveSurvives` needs to know what a transaction that took the active
certificate away still has to do; `ServedMatchesRecord` says nothing of the
disk, which `Exec` reads; `RecordedIsWritten` says nothing of what the appliers
hold and are about to record; `Precedence` says nothing of a call that has not
decided. The strengthenings supply just that. In `ConfigSync_proofs` the steps
that leave files, hashes and radiusd alone share one lemma (`QuietStep`); in
`Decisions_proofs` only the thread that moves can change what `Local` says of it.
In `Commands` and `Pipeline` a property about a change and its message needs to
know where the message is. `Bus_proofs` says, once for both, what each operation of
the bus does to that: a publish adds one message and moves none; a consumer holds
only messages of its own, none before its turn; of all steps only the answer of a
callback settles a message, the one in hand (`SettlesAck`), while a delivery, a
refusal, the end of the wait and a restart settle none. `KnownStays` states the action property `KnownKept`, which
the same invariant implies.

The proofs assume only the named assumptions on the constants, which TLC
evaluates on every run, and which say what the code fixes: the consumers
registered at start are those the handlers name; a call publishes at least one
order; the marks for "no row", "no MAC", "no key" and "service down" are no values
of what they stand beside; a fault or a start is counted in Nat; the threshold of the
lockout is above one (it is 5); every table starts with rows the code could have
written.

### The pure functions

The theorems on `PureFunctions` have no invariant to find, as an input does not
change; they are about the operators. What the values may be is assumed as the
callers guarantee it: conditions and columns are JSON values, whose lists hold
values in turn (`Nested` stands for what is deeper, at which nothing looks);
`lower()` of lower case changes nothing, and `float()` reads no blank (it may read
nan); a row of the whitelist fits its columns;
the words of an attribute and the datagrams are bytes, and an MD5 digest is
sixteen of them; the names of the CSV columns are lower case; `mac_address` is a
key of a finite table, whose addresses, VLANs and dates are such as the
validators produce.

- `CopiesAlwaysAgree` goes operator by operator: `SimNormalize` is `Normalize`
  (a text that was stripped and lowered is not changed by lowering again, which
  is `StripLower`), and equality, hashing, ordering and text search follow.
  `SimulationIsTrue` rests on it and on `SameResolve`: the copies find a field
  at the same place.
- `ParsedSection` reads an encoded list of attributes back, by descent on how
  many are left; `Encoded` puts the header before it. `ParsedPrefix` is the
  converse: whatever bytes arrive, what is parsed encodes to a prefix of them.
- `ReferencesAreResolved` takes each kind of name in turn: who writes it
  (`Written`) and who declares it (`Resolved`). The exceptions are those of the
  property; a certificate's file is missing only for the reason `Unwritten` gives
  for that very file: no certificate of the kind, no key that can be read, DH
  parameters of a CA or of a row without PEM data, which `eap` names and
  `write_cert_files` does not write, or an unreadable key that ends the writing.
- An import is followed line by line (`Imported`). `ImportAdds` and
  `ImportKeeps` give that it only adds (`ImportAlwaysAdds`); `ItemBack` reads a
  written line back into its device, and since the addresses differ nothing is
  skipped (`ImportAll`); hence `CsvFilesRoundTrip`. An import that is rolled back adds
  nothing, and again nothing the second time.

Lists and byte strings are as long as they like, so these proofs need induction,
while the library's induction theorems take an operator as a parameter, which
no prover here can instantiate. `Least` and `Greatest` (a set of naturals has a
least element, a bounded one a greatest) replace them: `Ascend`, `Descend` and
`Climb` argue by the least or greatest counterexample, over sets. The recursive
functions of the model are unfolded with them (`Flattened`, `Parsing`,
`Imported`).

### Checked by TLC only

All liveness (`Converges`, `NoReloadStorm`, `RenewalHappens`, `Recovers`,
`EverySettled`), since it rests on fairness. Of the refinement `ServiceSpec` the
safety is a theorem (`ServiceSafe`) and what is left is `Delivers`, that radiusd
ends up with the last texts. Every safety invariant and action property of the
passing runs is a theorem.

## Not modelled

- ConfigSync, Generator: the settings in the generated files that name nothing
  (the names are all there, those of free text included); whether server.pem and
  server.key match; the copies in trusted-cas/; deletion of files (the code has
  none); real time (a stream of messages may postpone the reconciliation).
- Certificates: cryptography, routes, the number of days a certificate is valid.
- Access: NOW() standing still inside an open transaction, the second post_auth
  of a tunnelled EAP session, a restart of radiusd, the attributes of the log
  row (`_detect_failure_reason` receives an empty reply), accounting (it only
  logs).
- Commands: connecting to the broker and creating streams; the SNMP and SSH
  dialogues; `bounce_port` and the policy engine's hand-over, which are never
  reached.
- Pipeline: packet capture, the parsers of scan outputs and vendor lookups (a
  report is a set of facts), `device_properties`, the fingerprinter (never
  started), `execute_action` and the engine's own templates (never reached).
- MAB devices: listings, and the gateway's own lookup for RADIUS (`rlm_orw.py`
  queries the table itself); the quoting of CSV cells; three and more header
  cells that read alike but are not equal.
- Login: preferences, listings, e-mail addresses, the cryptography of tokens.
- Secrets: AES and the key derivation; the lint script.
- Event service: nothing publishes `orw.event.*` or the policy actions it
  subscribes to, and `ADEventCollector` is never started, so it has no reachable
  state worth a model.
- Backups: one shell script at a time around `pg_dump`.
- Audit, dashboards, settings, VLANs, health: queries and updates of one row
  that interact with nothing. Front end, monitoring, deployment: no state of the
  system.

## Plan

Done: the modules, runs and theorems above. What would come next is pairing of
server.pem and server.key across a crash, validity in days, and references
between realms, LDAP servers and mappings.
