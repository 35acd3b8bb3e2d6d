------------------------------- MODULE Secrets -------------------------------
(* The encrypted columns: orw_common/secrets.py, the repositories of the      *)
(* gateway that write them, the three migrations from plaintext and the       *)
(* rotation of the master key.  A script reads a whole column and then        *)
(* updates it row by row in one transaction, while the gateway may run.       *)
EXTENDS Naturals, Sequences, FiniteSets

CONSTANTS
  Cell,       \* <<column, id of the row>>
  Key,        \* ORW_SECRET_MASTER with its salt
  Text,       \* secrets
  LookAlike,  \* those of them that would be read as base64 of a first byte 0x01
  Empty,      \* the empty string, a secret too
  Plain,      \* the "key" of a value that is stored as it is
  Absent,     \* no row
  Null,       \* NULL
  Raises, Down, NoJob, NoReport,
  Initial,    \* rows at first
  MaxWrites, MaxRuns, MaxFaults  \* bounds: writes of the gateway, runs of a
                                 \* script, scripts that are cut off

ASSUME BoundsAssumption == MaxWrites \in Nat /\ MaxRuns \in Nat /\ MaxFaults \in Nat
\* A row that is missing, NULL or an exception is no secret and no stored text.
ASSUME ValuesAssumption ==
  /\ Absent # Null /\ Raises # Null /\ Raises # Absent
  /\ {Absent, Null, Raises} \cap Text = {}
  /\ {Absent, Null, Raises} \cap [key : Key \cup {Plain}, text : Text] = {}
ASSUME EmptyAssumption == Empty \in Text \ LookAlike
ASSUME KeysAssumption == Plain \notin Key /\ Down \notin Key
ASSUME InitialAssumption == Initial \subseteq [Cell -> {Absent, Null} \cup [key : Key \cup {Plain}, text : Text]]

VARIABLES
  cell,    \* the stored value
  held,    \* the key the running services derived when they started, or Down
  job,     \* the script under way
  writes, runs, faults,
  truth,   \* history: the secret last accepted for a cell
  raced,   \* history: cells the gateway wrote between a script's SELECT and UPDATE
  report   \* history: what the last script ended with, until a row is written

counters == <<writes, runs, faults>>
vars == <<cell, held, job, counters, truth, raced, report>>

Cipher(k, s) == [key |-> k, text |-> s]
Values == {Absent, Null} \cup [key : Key \cup {Plain}, text : Text]

\* What the scripts take for no value: NULL, and a stored empty string.
Blank(v) == v = Null \/ v = Cipher(Plain, Empty)

\* _Vault.encrypt: only NULL is passed through.
encrypt(k, s) == IF s = Null THEN Null ELSE Cipher(k, s)

\* A mistake: on a tag that does not verify the input is returned as it is.
decryptLenient(k, v) == IF v = Null THEN Null ELSE IF v.key = k THEN v.text ELSE v

\* _Vault.decrypt: plaintext but the empty one, and another key's ciphertext, raise.
decrypt(k, v) == IF v = Null THEN Null ELSE IF v.key = k \/ Blank(v) THEN v.text ELSE Raises

is_encrypted(v) == v # Null /\ (v.key # Plain \/ v.text \in LookAlike)

ENCRYPTED_COLUMNS == <<"bind_password", "secret", "key_pem", "proxy_secret", "snmp_community", "coa_secret">>
Listed(columns) == {c \in Cell : \E k \in DOMAIN columns : columns[k] = c[1]}

Init ==
  /\ cell \in Initial
  /\ held \in Key
  /\ \A c \in Cell : cell[c] \notin {Absent, Null} => cell[c].key \in {held, Plain}
  /\ job = NoJob /\ writes = 0 /\ runs = 0 /\ faults = 0
  /\ truth = [c \in Cell |-> IF cell[c] \in {Absent, Null} THEN cell[c] ELSE cell[c].text]
  /\ raced = {} /\ report = NoReport

-----------------------------------------------------------------------------
\* The services that hold the key (gateway, freeradius, its watcher,
\* switch_mgmt, coa_service) derive it once, from what .env.production then has.
StopServices  == /\ held # Down /\ held' = Down
                 /\ UNCHANGED <<cell, job, counters, truth, raced, report>>
StartServices == /\ held = Down /\ held' \in Key
                 /\ UNCHANGED <<cell, job, counters, truth, raced, report>>

-----------------------------------------------------------------------------
\* The gateway's writes.  A row a script has updated is locked until it commits.
Locked(c) == job # NoJob /\ c \in DOMAIN job.draft
Pending   == IF job = NoJob THEN {} ELSE DOMAIN job.rows

\* The cells in the domain of "stored" become what it says, and meant "accepted".
Put(stored, accepted) ==
  /\ held # Down /\ writes < MaxWrites /\ writes' = writes + 1
  /\ \A c \in DOMAIN stored : c \in Cell /\ ~Locked(c)
  /\ cell'   = [c \in Cell |-> IF c \in DOMAIN stored THEN stored[c] ELSE cell[c]]
  /\ truth'  = [c \in Cell |-> IF c \in DOMAIN stored THEN accepted[c] ELSE truth[c]]
  /\ raced'  = (raced \ DOMAIN stored) \cup (DOMAIN stored \cap Pending)
  /\ report' = NoReport
  /\ job'    = IF job = NoJob THEN NoJob ELSE [job EXCEPT !.clean = FALSE]
  /\ UNCHANGED <<held, runs, faults>>

Encrypted(texts) == Put([c \in DOMAIN texts |-> encrypt(held, texts[c])], texts)
One(column, i, s) == [c \in {<<column, i>>} |-> s]

New(column, i)    == <<column, i>> \in Cell /\ cell[<<column, i>>] = Absent
Stored(column, i) == <<column, i>> \in Cell /\ cell[<<column, i>>] # Absent

insert_ldap_server(i, s) == New("bind_password", i) /\ s \notin {Null, Empty} /\ Encrypted(One("bind_password", i, s))
update_ldap_server(i, s) == Stored("bind_password", i) /\ s # Null /\ Encrypted(One("bind_password", i, s))
insert_nas_client(i, s)  == New("secret", i) /\ s \notin {Null, Empty} /\ Encrypted(One("secret", i, s))
update_nas_client(i, s)  == Stored("secret", i) /\ s \notin {Null, Empty} /\ Encrypted(One("secret", i, s))
insert_cert(i, s)        == New("key_pem", i) /\ Encrypted(One("key_pem", i, s))

\* A proxy has a secret; other realms may have none.
proxy_complete(secret) == secret \notin {Null, Empty}
create_realm(i, s, proxy) == New("proxy_secret", i) /\ (proxy => proxy_complete(s)) /\ Encrypted(One("proxy_secret", i, s))
\* lookup_proxy_state decrypts what is stored: when it cannot, the update fails.
lookup_proxy_state(i) == decrypt(held, cell[<<"proxy_secret", i>>])
update_realm(i, s, proxy) ==
  /\ Stored("proxy_secret", i)
  /\ proxy => LET existing == lookup_proxy_state(i) IN existing # Raises /\ (proxy_complete(s) \/ proxy_complete(existing))
  /\ Encrypted(One("proxy_secret", i, s))

\* Three cells of one row, of which the API leaves coa_secret NULL.
insert_network_device(i, community, password) ==
  LET columns == {"snmp_community", "ssh_password", "coa_secret"}
      row == [c \in {<<col, i>> : col \in columns} |->
                CASE c[1] = "snmp_community" -> community [] c[1] = "ssh_password" -> password
                  [] c[1] = "coa_secret" -> Null] IN
  (\A col \in columns : New(col, i)) /\ Encrypted(row)

\* The deletions: of the row with all its cells.
Tables == {{"bind_password"}, {"secret"}, {"key_pem"}, {"proxy_secret"}, {"snmp_community", "coa_secret", "ssh_password"}}
delete_row(table, i) ==
  /\ \A column \in table : Stored(column, i)
  /\ LET gone == [c \in {<<column, i>> : column \in table} |-> Absent] IN Put(gone, gone)

-----------------------------------------------------------------------------
\* The scripts.
Begin(script, columns, from, to, skip, dry) ==
  /\ job = NoJob /\ runs < MaxRuns /\ runs' = runs + 1
  /\ job' = [script |-> script, from |-> from, to |-> to, skip |-> skip, dry |-> dry,
             columns |-> columns, all |-> columns, read |-> FALSE, rows |-> <<>>, draft |-> <<>>,
             failed |-> FALSE, clean |-> TRUE]
  /\ report' = NoReport
  /\ UNCHANGED <<cell, held, writes, faults, truth, raced>>

\* rotate_secret_master.main: with both vaults, in either direction.
RotateBegin == \E from, to \in Key, skip, dry \in BOOLEAN :
  from # to /\ (dry => ~skip) /\ Begin("rotate", ENCRYPTED_COLUMNS, from, to, skip, dry)
\* A migration runs inside a running container and has its key.
Migrate(script, columns) == held # Down /\ \E dry \in BOOLEAN : Begin(script, columns, held, held, FALSE, dry)
MigrateLdapPasswords     == Migrate("migrate_ldap", <<"bind_password">>)
MigrateNasSecrets        == Migrate("migrate_nas", <<"secret">>)
MigrateRemainingSecrets  == Migrate("migrate_remaining", <<"key_pem", "proxy_secret", "snmp_community", "coa_secret">>)

Rotating  == job # NoJob /\ job.script = "rotate"
Migrating == job # NoJob /\ job.script # "rotate"
OnlyJob == UNCHANGED <<held, counters, truth>>

\* The SELECT of a column.
Select ==
  /\ job # NoJob /\ job.columns # <<>> /\ ~job.read
  /\ LET found == {c \in Cell : c[1] = Head(job.columns) /\ cell[c] # Absent} IN
     job' = [job EXCEPT !.read = TRUE, !.rows = [c \in found |-> cell[c]]]
  /\ OnlyJob /\ UNCHANGED <<cell, raced, report>>

\* One row is done: updated to v if the row is still there, or skipped.
Without(f, c) == [x \in DOMAIN f \ {c} |-> f[x]]
With(f, c, v) == [x \in DOMAIN f \cup {c} |-> IF x = c THEN v ELSE f[x]]
Updated(c, v)      == job' = [job EXCEPT !.rows = Without(@, c), !.draft = IF cell[c] = Absent THEN @ ELSE With(@, c, v)]
Skipped(c, failed) == job' = [job EXCEPT !.rows = Without(@, c), !.failed = @ \/ failed]

\* A mistake: the row is updated before dry_run is looked at.
RotateRowDry(c) ==
  /\ Rotating /\ c \in DOMAIN job.rows
  /\ LET plaintext == decrypt(job.from, job.rows[c]) IN
     CASE Blank(job.rows[c]) -> Skipped(c, FALSE)
       [] plaintext = Raises -> Skipped(c, ~job.skip)
       [] OTHER              -> Updated(c, encrypt(job.to, plaintext))
  /\ OnlyJob /\ UNCHANGED <<cell, raced, report>>

\* The loop of _rotate_table.
RotateRow(c) ==
  /\ Rotating /\ c \in DOMAIN job.rows
  /\ LET plaintext == decrypt(job.from, job.rows[c]) IN
     CASE Blank(job.rows[c]) -> Skipped(c, FALSE)
       [] plaintext = Raises -> Skipped(c, ~job.skip)
       [] OTHER              -> IF job.dry THEN Skipped(c, FALSE) ELSE Updated(c, encrypt(job.to, plaintext))
  /\ OnlyJob /\ UNCHANGED <<cell, raced, report>>

\* The loop of a migration.
MigrateRow(c) ==
  /\ Migrating /\ c \in DOMAIN job.rows
  /\ LET current == job.rows[c] IN
     IF Blank(current) \/ is_encrypted(current) \/ job.dry THEN Skipped(c, FALSE)
     ELSE Updated(c, encrypt(job.to, current.text))
  /\ OnlyJob /\ UNCHANGED <<cell, raced, report>>

Column == job.read /\ job.rows = <<>>
Next_column(j) == [j EXCEPT !.columns = Tail(@), !.read = FALSE]
Committed == [c \in Cell |-> IF Locked(c) THEN job.draft[c] ELSE cell[c]]

\* A mistake: the rotation's transaction is not committed.
RotateColumnUncommitted ==
  /\ Rotating /\ Column
  /\ job' = Next_column([job EXCEPT !.draft = <<>>])
  /\ OnlyJob /\ UNCHANGED <<cell, raced, report>>

\* The rotation commits column by column,
RotateColumn ==
  /\ Rotating /\ Column
  /\ cell' = Committed /\ job' = Next_column([job EXCEPT !.draft = <<>>])
  /\ OnlyJob /\ UNCHANGED <<raced, report>>

\* a migration once.
MigrateColumn ==
  /\ Migrating /\ Column
  /\ job' = Next_column(job)
  /\ OnlyJob /\ UNCHANGED <<cell, raced, report>>

\* The end of main, with its exit code.
End ==
  /\ job # NoJob /\ job.columns = <<>>
  /\ cell' = Committed /\ job' = NoJob
  /\ report' = IF job.clean /\ ~job.dry
               THEN [script |-> job.script, from |-> job.from, to |-> job.to, skip |-> job.skip,
                     columns |-> job.all, exit |-> IF job.failed THEN 2 ELSE 0]
               ELSE NoReport
  /\ OnlyJob /\ UNCHANGED raced

\* A script is cut off, or a statement fails: the open transaction is undone.
ToolFails ==
  /\ job # NoJob /\ faults < MaxFaults /\ faults' = faults + 1
  /\ job' = NoJob
  /\ UNCHANGED <<cell, held, writes, runs, truth, raced, report>>

-----------------------------------------------------------------------------
Id == {c[2] : c \in Cell}
Optional == Text \cup {Null}
GatewayWrite ==
  \E i \in Id :
    \/ \E s \in Optional :
         \/ insert_ldap_server(i, s) \/ update_ldap_server(i, s)
         \/ insert_nas_client(i, s) \/ update_nas_client(i, s) \/ insert_cert(i, s)
         \/ \E proxy \in BOOLEAN : create_realm(i, s, proxy) \/ update_realm(i, s, proxy)
         \/ \E password \in Optional : insert_network_device(i, s, password)
    \/ \E table \in Tables : delete_row(table, i)

Script == \/ RotateBegin \/ MigrateLdapPasswords \/ MigrateNasSecrets \/ MigrateRemainingSecrets \/ Select
          \/ \E c \in Pending : RotateRow(c) \/ MigrateRow(c)
          \/ RotateColumn \/ MigrateColumn \/ End \/ ToolFails

Next == StopServices \/ StartServices \/ GatewayWrite \/ Script
Spec == Init /\ [][Next]_vars

-----------------------------------------------------------------------------
\* Every variable keeps its type; a dry run has nothing to commit.
TypeOK ==
  /\ \A c \in Cell : cell[c] \in Values
  /\ held \in Key \cup {Down}
  /\ job # NoJob => /\ DOMAIN job.rows \subseteq Cell /\ DOMAIN job.draft \subseteq Cell
                    /\ job.dry => job.draft = <<>>
  /\ writes \in 0 .. MaxWrites /\ runs \in 0 .. MaxRuns /\ faults \in 0 .. MaxFaults
  /\ truth \in [Cell -> Text \cup {Absent, Null}] /\ raced \subseteq Cell

\* Whatever is cut off, run again, run backwards or run beside the services, no
\* secret is lost: each is there in plain, or once encrypted under one of the
\* keys (rotate_secret_master.py:150).  What the gateway wrote between a
\* script's SELECT and its UPDATE of the row is the exception.
NothingLost ==
  \A c \in Cell \ raced : IF cell[c] \in {Absent, Null} THEN truth[c] = cell[c]
                          ELSE cell[c] \in Values /\ cell[c].text = truth[c]

\* Exit code 0 can be relied on when nothing was written meanwhile: after a
\* rotation, a repeated one included, no row of its columns is left under the
\* old key, and without --skip-undecryptable all are under the new one; after a
\* migration no row of its columns is in plain but one that looks encrypted.
CleanExit ==
  report # NoReport /\ report.exit = 0 =>
    IF report.script = "rotate"
    THEN \A c \in Listed(report.columns) : cell[c] # Absent /\ ~Blank(cell[c]) =>
           cell[c].key # report.from /\ (~report.skip => cell[c].key = report.to)
    ELSE \A c \in Listed(report.columns) :
           cell[c] # Absent /\ ~Blank(cell[c]) /\ cell[c].key = Plain => cell[c].text \in LookAlike

\* The rotation "walks every encrypted column" (rotate_secret_master.py:4): after
\* exit code 0 no secret is left under the old key.
EveryColumnRotated ==
  report # NoReport /\ report.exit = 0 /\ report.script = "rotate" =>
    \A c \in Cell : cell[c] \notin {Absent, Null} => cell[c].key # report.from
=============================================================================
