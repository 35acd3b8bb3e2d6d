---------------------------- MODULE Secrets_proofs ----------------------------
(* No secret is lost and exit code 0 is to be relied on, for any columns,    *)
(* keys and rows, and any number of writes, runs and scripts cut off.        *)
EXTENDS Secrets, SequenceTheorems, TLAPS

\* A value stored for a secret, and the secret itself.
Holds(v, s) == IF v \in {Absent, Null} THEN s = v ELSE v \in Values /\ v.text = s
Kept(c) == Holds(cell[c], truth[c])

\* What a script has of a row: as it is stored, unless the gateway wrote since.
RowInHand(c) ==
  /\ c \in Cell /\ job.rows[c] \in Values \ {Absent}
  /\ (c \notin raced \/ job.clean) => job.rows[c] = cell[c]

\* What it will commit: the secret under the key it encrypts with.
RowInDraft(c) ==
  /\ c \in Cell /\ job.draft[c] \in [key : {job.to}, text : Text]
  /\ c \notin raced => job.draft[c].text = truth[c]

ColumnName == {"bind_password", "secret", "key_pem", "proxy_secret", "snmp_community", "coa_secret"}

JobTypeOK ==
  /\ job = [script |-> job.script, from |-> job.from, to |-> job.to, skip |-> job.skip, dry |-> job.dry,
            columns |-> job.columns, all |-> job.all, read |-> job.read, rows |-> job.rows,
            draft |-> job.draft, failed |-> job.failed, clean |-> job.clean]
  /\ job.to \in Key /\ (job.script = "rotate" => job.from # job.to)
  /\ job.columns \in Seq(ColumnName) /\ job.all \in Seq(ColumnName)
  /\ job.clean \in BOOLEAN /\ job.failed \in BOOLEAN
  /\ job.read => job.columns # <<>>
  /\ job.dry => job.draft = <<>>

\* What exit code 0 promises of a value.
Good(r, v) ==
  v # Absent /\ ~Blank(v) => IF r.script = "rotate" THEN v.key # r.from /\ (~r.skip => v.key = r.to)
                             ELSE v.key = Plain => v.text \in LookAlike

\* The rows a script is through with.
Treated(c) ==
  \/ c \in Listed(job.all) \ Listed(job.columns)
  \/ job.read /\ c[1] = Head(job.columns) /\ c \notin DOMAIN job.rows

Promised == job.clean /\ ~job.dry /\ ~job.failed => \A c \in Cell : Treated(c) => Good(job, Committed[c])

JobInv ==
  job # NoJob =>
    /\ JobTypeOK
    /\ \A c \in DOMAIN job.rows : RowInHand(c)
    /\ \A c \in DOMAIN job.draft : RowInDraft(c)
    /\ Promised
    /\ report = NoReport

IInv == TypeOK /\ NothingLost /\ CleanExit /\ JobInv

-----------------------------------------------------------------------------
(* Values.                                                                 *)

\* encrypt stores a secret so that it is held, under the key in use.
LEMMA EncryptHolds ==
  ASSUME NEW k \in Key, NEW s \in Optional
  PROVE  encrypt(k, s) \in Values /\ Holds(encrypt(k, s), s)
BY ValuesAssumption DEF encrypt, Optional, Values, Holds, Cipher

\* A stored value that is no row or NULL is no ciphertext, and the other way.
LEMMA StoredValue ==
  ASSUME NEW v \in Values \ {Absent, Null}
  PROVE  /\ v \in [key : Key \cup {Plain}, text : Text] /\ v.text \in Text
         /\ v.text \notin {Absent, Null, Raises}
BY ValuesAssumption DEF Values

\* The columns left when the first is done.
LEMMA ListedTail ==
  ASSUME NEW columns \in Seq(ColumnName), columns # <<>>
  PROVE  /\ Tail(columns) \in Seq(ColumnName)
         /\ \A c \in Listed(columns) : c \in Listed(Tail(columns)) \/ c[1] = Head(columns)
<1>1. Tail(columns) \in Seq(ColumnName) /\ Len(Tail(columns)) = Len(columns) - 1
  OBVIOUS
<1>2. ASSUME NEW k \in DOMAIN columns, k # 1
      PROVE  k - 1 \in DOMAIN Tail(columns) /\ Tail(columns)[k - 1] = columns[k]
  BY <1>2, <1>1
<1>3. Head(columns) = columns[1]
  OBVIOUS
<1> QED
  BY <1>1, <1>2, <1>3 DEF Listed

-----------------------------------------------------------------------------
(* The initial states.                                                     *)

\* The initial states satisfy the invariant.
LEMMA InvInit == Init => IInv
<1> SUFFICES ASSUME Init PROVE IInv
  OBVIOUS
<1>1. cell \in [Cell -> Values]
  BY InitialAssumption DEF Init, Values
<1>2. ASSUME NEW c \in Cell
      PROVE  Kept(c) /\ truth[c] \in Text \cup {Absent, Null}
  BY <1>1, StoredValue DEF Init, Kept, Holds, Values
<1>3. TypeOK
  BY <1>1, <1>2, BoundsAssumption DEF Init, TypeOK
<1> QED
  BY <1>2, <1>3 DEF Init, IInv, NothingLost, Kept, Holds, CleanExit, JobInv

-----------------------------------------------------------------------------
(* The gateway's writes.                                                   *)

\* Values that hold what was accepted for the same cells.
Meant(stored, accepted) ==
  \A c \in DOMAIN stored : /\ stored[c] \in Values /\ accepted[c] \in Text \cup {Absent, Null}
                           /\ Holds(stored[c], accepted[c])

\* What is encrypted before it is stored is meant.
LEMMA EncryptedMeant ==
  ASSUME held # Down, held \in Key \cup {Down}, NEW texts, \A c \in DOMAIN texts : texts[c] \in Optional, Encrypted(texts)
  PROVE  \E stored : Meant(stored, texts) /\ Put(stored, texts)
<1> DEFINE stored == [c \in DOMAIN texts |-> encrypt(held, texts[c])]
<1>1. Meant(stored, texts)
  BY EncryptHolds DEF Meant, Optional
<1> QED
  BY <1>1 DEF Encrypted

\* A write of one column stores the encryption of the secret it accepts.
LEMMA OneMeant ==
  ASSUME held \in Key \cup {Down}, NEW column, NEW i, NEW s \in Optional, Encrypted(One(column, i, s))
  PROVE  \E stored, accepted : Meant(stored, accepted) /\ Put(stored, accepted)
<1>1. held # Down
  BY DEF Encrypted, Put
<1>2. \A c \in DOMAIN One(column, i, s) : One(column, i, s)[c] \in Optional
  BY DEF One
<1> QED
  BY <1>1, <1>2, EncryptedMeant

\* Every statement of the gateway stores what it accepted.
LEMMA GatewayMeans ==
  ASSUME TypeOK, GatewayWrite
  PROVE  \E stored, accepted : Meant(stored, accepted) /\ Put(stored, accepted)
<1>0. held \in Key \cup {Down}
  BY DEF TypeOK
<1>1. ASSUME NEW i \in Id, NEW s \in Optional,
             \/ insert_ldap_server(i, s) \/ update_ldap_server(i, s) \/ insert_nas_client(i, s)
             \/ update_nas_client(i, s) \/ insert_cert(i, s)
      PROVE  \E stored, accepted : Meant(stored, accepted) /\ Put(stored, accepted)
  BY <1>0, <1>1, OneMeant
     DEF insert_ldap_server, update_ldap_server, insert_nas_client, update_nas_client, insert_cert
<1>2. ASSUME NEW i \in Id, NEW s \in Optional, NEW proxy \in BOOLEAN,
             create_realm(i, s, proxy) \/ update_realm(i, s, proxy)
      PROVE  \E stored, accepted : Meant(stored, accepted) /\ Put(stored, accepted)
  BY <1>0, <1>2, OneMeant DEF create_realm, update_realm
<1>3. ASSUME NEW i \in Id, NEW s \in Optional, NEW password \in Optional, insert_network_device(i, s, password)
      PROVE  \E stored, accepted : Meant(stored, accepted) /\ Put(stored, accepted)
  <2> DEFINE columns == {"snmp_community", "ssh_password", "coa_secret"}
             row == [c \in {<<col, i>> : col \in columns} |->
                       CASE c[1] = "snmp_community" -> s [] c[1] = "ssh_password" -> password
                         [] c[1] = "coa_secret" -> Null]
  <2>1. Encrypted(row)
    BY <1>3 DEF insert_network_device
  <2>2. \A c \in DOMAIN row : row[c] \in Optional
    <3>1. ASSUME NEW col \in columns PROVE row[<<col, i>>] \in Optional
      <4>1. row[<<col, i>>] = CASE col = "snmp_community" -> s [] col = "ssh_password" -> password
                                [] col = "coa_secret" -> Null
        OBVIOUS
      <4> QED
        BY <4>1 DEF Optional
    <3> QED
      BY <3>1
  <2>3. held # Down
    BY <2>1 DEF Encrypted, Put
  <2> HIDE DEF row
  <2> QED
    BY <1>0, <2>1, <2>2, <2>3, EncryptedMeant
<1>4. ASSUME NEW i \in Id, NEW table \in Tables, delete_row(table, i)
      PROVE  \E stored, accepted : Meant(stored, accepted) /\ Put(stored, accepted)
  <2> DEFINE gone == [c \in {<<column, i>> : column \in table} |-> Absent]
  <2>1. Put(gone, gone)
    BY <1>4 DEF delete_row
  <2>2. Meant(gone, gone)
    BY DEF Meant, Holds, Values
  <2> QED
    BY <2>1, <2>2
<1> QED
  BY <1>1, <1>2, <1>3, <1>4 DEF GatewayWrite

\* A write of the gateway keeps the invariant when what is stored means what was accepted.
LEMMA PutStep ==
  ASSUME IInv, NEW stored, NEW accepted, Meant(stored, accepted), Put(stored, accepted)
  PROVE  IInv'
<1> USE DEF IInv
<1>1. ASSUME NEW c \in Cell
      PROVE  /\ cell'[c] \in Values /\ truth'[c] \in Text \cup {Absent, Null}
             /\ c \in DOMAIN stored => cell'[c] = stored[c] /\ truth'[c] = accepted[c]
             /\ c \notin DOMAIN stored => cell'[c] = cell[c] /\ truth'[c] = truth[c]
                                         /\ (c \in raced <=> c \in raced')
             /\ c \in DOMAIN stored /\ c \in Pending => c \in raced'
  BY <1>1 DEF Put, Meant, TypeOK
<1>2. /\ job = NoJob => job' = NoJob
      /\ job # NoJob /\ JobTypeOK =>
            /\ JobTypeOK' /\ job'.clean = FALSE /\ job'.rows = job.rows /\ job'.draft = job.draft
            /\ job'.to = job.to
  BY DEF Put, JobTypeOK
<1>3. TypeOK'
  <2>1. truth' \in [Cell -> Text \cup {Absent, Null}]
    BY <1>1 DEF Put
  <2>2. raced' \subseteq Cell
    BY DEF Put, TypeOK
  <2>3. writes' \in 0 .. MaxWrites /\ UNCHANGED <<held, runs, faults>>
    BY BoundsAssumption DEF Put, TypeOK
  <2>4. job' # NoJob => /\ DOMAIN job'.rows \subseteq Cell /\ DOMAIN job'.draft \subseteq Cell
                        /\ job'.dry => job'.draft = <<>>
    BY <1>2 DEF TypeOK, JobInv, JobTypeOK
  <2> QED
    BY <1>1, <2>1, <2>2, <2>3, <2>4 DEF TypeOK
<1>4. NothingLost'
  <2> SUFFICES ASSUME NEW c \in Cell \ raced' PROVE Kept(c)'
    BY DEF NothingLost, Kept, Holds, Values
  <2>1. CASE c \in DOMAIN stored
    BY <1>1, <2>1 DEF Meant, Kept
  <2>2. CASE c \notin DOMAIN stored
    BY <1>1, <2>2 DEF NothingLost, Kept, Holds, Values
  <2> QED
    BY <2>1, <2>2
<1>5. CleanExit' /\ report' = NoReport
  BY DEF Put, CleanExit
<1>6. JobInv'
  <2> SUFFICES ASSUME job' # NoJob PROVE JobInv'
    BY DEF JobInv
  <2>1. job # NoJob /\ JobTypeOK' /\ job'.clean = FALSE /\ job'.rows = job.rows /\ job'.draft = job.draft /\ job'.to = job.to
    BY <1>2 DEF JobInv
  <2>2. ASSUME NEW c \in DOMAIN job'.rows PROVE RowInHand(c)'
    <3>1. RowInHand(c) /\ c \in Pending
      BY <2>1, <2>2 DEF JobInv, Pending
    <3> QED
      BY <1>1, <2>1, <3>1 DEF RowInHand
  <2>3. ASSUME NEW c \in DOMAIN job'.draft PROVE RowInDraft(c)'
    <3>1. RowInDraft(c) /\ c \notin DOMAIN stored
      BY <2>1, <2>3 DEF JobInv, Put, Locked
    <3> QED
      BY <1>1, <2>1, <3>1 DEF RowInDraft
  <2> QED
    BY <1>5, <2>1, <2>2, <2>3 DEF JobInv, Promised
<1> QED
  BY <1>3, <1>4, <1>5, <1>6

-----------------------------------------------------------------------------
(* The scripts.                                                            *)

\* A script begins with nothing in hand and every column before it.
LEMMA BeginStep ==
  ASSUME IInv, NEW script, NEW columns \in Seq(ColumnName), NEW from, NEW to \in Key, NEW skip, NEW dry,
         script = "rotate" => from # to, Begin(script, columns, from, to, skip, dry)
  PROVE  IInv'
<1> USE DEF IInv
<1>1. /\ job'.script = script /\ job'.from = from /\ job'.to = to /\ job'.rows = <<>> /\ job'.draft = <<>>
      /\ job'.read = FALSE /\ job'.columns = columns /\ job'.all = columns
  BY DEF Begin
<1>2. DOMAIN job'.rows = {} /\ DOMAIN job'.draft = {}
  BY <1>1
<1>3. JobTypeOK'
  BY <1>1 DEF Begin, JobTypeOK
<1>4. TypeOK'
  BY <1>1, <1>2, BoundsAssumption DEF Begin, TypeOK
<1>5. NothingLost' /\ CleanExit' /\ report' = NoReport
  BY DEF Begin, NothingLost, Values, CleanExit
<1>6. Promised'
  BY <1>1 DEF Promised, Treated
<1> QED
  BY <1>2, <1>3, <1>4, <1>5, <1>6 DEF JobInv

\* The columns each script walks.
LEMMA ColumnsOfScripts ==
  /\ ENCRYPTED_COLUMNS \in Seq(ColumnName) /\ <<"bind_password">> \in Seq(ColumnName)
  /\ <<"secret">> \in Seq(ColumnName)
  /\ <<"key_pem", "proxy_secret", "snmp_community", "coa_secret">> \in Seq(ColumnName)
<1>1. \A n \in Nat : [1 .. n -> ColumnName] \subseteq Seq(ColumnName)
  BY SeqDef
<1>2. ENCRYPTED_COLUMNS \in [1 .. 6 -> ColumnName]
  BY DEF ENCRYPTED_COLUMNS, ColumnName
<1>3. <<"key_pem", "proxy_secret", "snmp_community", "coa_secret">> \in [1 .. 4 -> ColumnName]
  BY DEF ColumnName
<1>4. <<"bind_password">> \in [1 .. 1 -> ColumnName] /\ <<"secret">> \in [1 .. 1 -> ColumnName]
  BY DEF ColumnName
<1> QED
  BY <1>1, <1>2, <1>3, <1>4

\* So do the rotation and the three migrations.
LEMMA ScriptBeginsStep ==
  ASSUME IInv, RotateBegin \/ MigrateLdapPasswords \/ MigrateNasSecrets \/ MigrateRemainingSecrets
  PROVE  IInv'
<1>1. CASE RotateBegin
  <2>1. PICK from \in Key, to \in Key, skip \in BOOLEAN, dry \in BOOLEAN :
          from # to /\ Begin("rotate", ENCRYPTED_COLUMNS, from, to, skip, dry)
    BY <1>1 DEF RotateBegin
  <2> QED
    BY <2>1, BeginStep, ColumnsOfScripts
<1>2. ASSUME NEW script, script # "rotate", NEW columns \in Seq(ColumnName), Migrate(script, columns)
      PROVE  IInv'
  <2>1. held \in Key
    BY <1>2 DEF Migrate, IInv, TypeOK
  <2> QED
    BY <1>2, <2>1, BeginStep DEF Migrate
<1>3. CASE MigrateLdapPasswords
  BY <1>2, <1>3, ColumnsOfScripts DEF MigrateLdapPasswords
<1>4. CASE MigrateNasSecrets
  BY <1>2, <1>4, ColumnsOfScripts DEF MigrateNasSecrets
<1>5. CASE MigrateRemainingSecrets
  BY <1>2, <1>5, ColumnsOfScripts DEF MigrateRemainingSecrets
<1> QED
  BY <1>1, <1>3, <1>4, <1>5

\* What a script will commit is what exit code 0 promises.
LEMMA DraftGood ==
  ASSUME JobInv, job # NoJob, NEW c \in DOMAIN job.draft
  PROVE  job.draft[c] \in Values /\ Good(job, job.draft[c])
<1>1. JobTypeOK /\ RowInDraft(c)
  BY DEF JobInv
<1> QED
  BY <1>1, KeysAssumption DEF JobTypeOK, RowInDraft, Good, Values

\* The rows a script takes in hand are those of the column, as they are.
LEMMA SelectStep ==
  ASSUME IInv, Select
  PROVE  IInv'
<1> USE DEF IInv
<1> DEFINE found == {c \in Cell : c[1] = Head(job.columns) /\ cell[c] # Absent}
<1>0. JobTypeOK /\ job # NoJob /\ job.columns # <<>> /\ ~job.read
  BY DEF Select, JobInv
<1>1. /\ UNCHANGED <<cell, held, counters, truth, raced, report>>
      /\ job' = [job EXCEPT !.read = TRUE, !.rows = [c \in found |-> cell[c]]]
  BY DEF Select, OnlyJob
<1> HIDE DEF found
<1>2. /\ job'.read = TRUE /\ job'.rows = [c \in found |-> cell[c]] /\ job'.draft = job.draft
      /\ job'.columns = job.columns /\ job'.all = job.all /\ job'.to = job.to /\ job'.dry = job.dry
      /\ job'.clean = job.clean /\ job'.failed = job.failed /\ job'.script = job.script
      /\ job'.from = job.from /\ job'.skip = job.skip
  BY <1>0, <1>1 DEF JobTypeOK
<1>3. JobTypeOK'
  BY <1>0, <1>1, <1>2 DEF JobTypeOK
<1>4. TypeOK'
  BY <1>0, <1>1, <1>2 DEF TypeOK, counters, found
<1>5. NothingLost' /\ CleanExit'
  BY <1>1 DEF NothingLost, CleanExit, Values, Listed
<1>6. \A c \in DOMAIN job'.rows : RowInHand(c)'
  BY <1>1, <1>2 DEF RowInHand, found, TypeOK
<1>7. \A c \in DOMAIN job'.draft : RowInDraft(c)'
  BY <1>0, <1>1, <1>2 DEF RowInDraft, JobInv
<1>8. ASSUME job' # NoJob, job'.clean /\ ~job'.dry /\ ~job'.failed, NEW c \in Cell, Treated(c)' PROVE Good(job, Committed[c])'
  <2>1. Committed'[c] = Committed[c]
    BY <1>0, <1>1, <1>2, <1>8 DEF Committed, Locked, JobInv
  <2>2. Good(job, Committed[c])
    <3>1. CASE c \in DOMAIN job.draft
      BY <1>0, <3>1, DraftGood DEF Committed, Locked
    <3>2. CASE Treated(c)
      BY <1>0, <1>2, <1>8, <3>2 DEF JobInv, Promised
    <3>3. CASE c[1] = Head(job.columns) /\ c \notin found /\ c \notin DOMAIN job.draft
      BY <3>3 DEF found, Committed, Locked, Good
    <3> QED
      BY <1>0, <1>2, <1>8, <3>1, <3>2, <3>3 DEF Treated, Listed
  <2> QED
    BY <1>2, <2>1, <2>2 DEF Good
<1> QED
  BY <1>0, <1>1, <1>2, <1>3, <1>4, <1>5, <1>6, <1>7, <1>8 DEF JobInv, Promised

\* A step over one row: skipped, with nothing to promise about it unless its
\* value is good already, or drafted under the new key.
RowDone(c) ==
  \/ \E f \in BOOLEAN : Skipped(c, f) /\ (f \/ job.dry \/ Good(job, job.rows[c]))
  \/ /\ ~job.dry /\ job.rows[c] \in [key : Key \cup {Plain}, text : Text]
     /\ Updated(c, Cipher(job.to, job.rows[c].text))

\* What the rotation does to a row is one of the ends of RowDone.
LEMMA RotateRowDone ==
  ASSUME IInv, NEW c, RotateRow(c)
  PROVE  job # NoJob /\ c \in DOMAIN job.rows /\ RowDone(c) /\ OnlyJob /\ UNCHANGED <<cell, raced, report>>
<1> DEFINE v == job.rows[c]
           plaintext == decrypt(job.from, v)
<1>1. job # NoJob /\ job.script = "rotate" /\ c \in DOMAIN job.rows /\ JobTypeOK /\ v \in Values \ {Absent}
  BY DEF RotateRow, Rotating, IInv, JobInv, RowInHand
<1>2. CASE Blank(v)
  <2>1. plaintext # Raises
    BY <1>2, ValuesAssumption, EmptyAssumption DEF decrypt, Blank, Cipher
  <2>2. Skipped(c, FALSE)
    BY <1>2, <2>1 DEF RotateRow
  <2>3. Good(job, v)
    BY <1>2 DEF Good
  <2> QED
    BY <1>1, <2>2, <2>3 DEF RotateRow, RowDone
<1>3. CASE ~Blank(v) /\ v.key # job.from
  <2>1. plaintext = Raises
    BY <1>3 DEF decrypt, Blank
  <2>2. Skipped(c, ~job.skip)
    BY <1>3, <2>1 DEF RotateRow
  <2>3. Good(job, v) \/ ~job.skip
    BY <1>1, <1>3 DEF Good
  <2>4. Skipped(c, TRUE) \/ (Skipped(c, FALSE) /\ Good(job, v))
    BY <2>2, <2>3
  <2> QED
    BY <1>1, <2>4 DEF RotateRow, RowDone
<1>4. CASE ~Blank(v) /\ v.key = job.from
  <2>0. v \in [key : Key \cup {Plain}, text : Text] /\ v.text \notin {Absent, Null, Raises}
    BY <1>1, <1>4, StoredValue DEF Blank
  <2>1. plaintext = v.text
    BY <1>4 DEF decrypt, Blank
  <2>2. IF job.dry THEN Skipped(c, FALSE) ELSE Updated(c, Cipher(job.to, v.text))
    BY <1>4, <2>0, <2>1 DEF RotateRow, encrypt
  <2> QED
    BY <1>1, <2>0, <2>2 DEF RotateRow, RowDone
<1> QED
  BY <1>1, <1>2, <1>3, <1>4

\* So is what a migration does to a row.
LEMMA MigrateRowDone ==
  ASSUME IInv, NEW c, MigrateRow(c)
  PROVE  job # NoJob /\ c \in DOMAIN job.rows /\ RowDone(c) /\ OnlyJob /\ UNCHANGED <<cell, raced, report>>
<1> DEFINE v == job.rows[c]
<1>1. job # NoJob /\ job.script # "rotate" /\ c \in DOMAIN job.rows /\ JobTypeOK /\ v \in Values \ {Absent}
  BY DEF MigrateRow, Migrating, IInv, JobInv, RowInHand
<1>2. CASE Blank(v) \/ is_encrypted(v) \/ job.dry
  <2>1. Skipped(c, FALSE)
    BY <1>2 DEF MigrateRow
  <2>2. job.dry \/ Good(job, v)
    BY <1>1, <1>2 DEF Good, is_encrypted
  <2> QED
    BY <1>1, <2>1, <2>2 DEF MigrateRow, RowDone
<1>3. CASE ~(Blank(v) \/ is_encrypted(v) \/ job.dry)
  <2>1. v \in [key : Key \cup {Plain}, text : Text] /\ v.text # Null
    BY <1>1, <1>3, StoredValue DEF Blank
  <2>2. Updated(c, Cipher(job.to, v.text))
    BY <1>3, <2>1 DEF MigrateRow, encrypt
  <2> QED
    BY <1>1, <1>3, <2>1, <2>2 DEF MigrateRow, RowDone
<1> QED
  BY <1>2, <1>3

\* The fields of the record after a step over one row.
LEMMA RowDoneFields ==
  ASSUME JobTypeOK, NEW c, RowDone(c)
  PROVE  /\ JobTypeOK' /\ UNCHANGED <<job.script, job.from, job.to, job.skip, job.dry, job.columns, job.all, job.read, job.clean>>
         /\ job'.rows = Without(job.rows, c)
         /\ \/ job'.draft = job.draft /\ (job'.failed \/ job.dry \/ Good(job, job.rows[c]))
            \/ /\ ~job.dry /\ job.rows[c] \in [key : Key \cup {Plain}, text : Text]
               /\ job'.draft = IF cell[c] = Absent THEN job.draft
                               ELSE With(job.draft, c, Cipher(job.to, job.rows[c].text))
         /\ job.failed => job'.failed
<1>1. ASSUME NEW f \in BOOLEAN, Skipped(c, f)
      PROVE  /\ JobTypeOK' /\ UNCHANGED <<job.script, job.from, job.to, job.skip, job.dry, job.columns, job.all, job.read, job.clean>>
             /\ job'.rows = Without(job.rows, c) /\ job'.draft = job.draft /\ job'.failed = (job.failed \/ f)
  BY <1>1 DEF Skipped, JobTypeOK
<1>2. ASSUME ~job.dry, Updated(c, Cipher(job.to, job.rows[c].text))
      PROVE  /\ JobTypeOK' /\ UNCHANGED <<job.script, job.from, job.to, job.skip, job.dry, job.columns, job.all, job.read, job.clean>>
             /\ job'.rows = Without(job.rows, c) /\ job'.failed = job.failed
             /\ job'.draft = IF cell[c] = Absent THEN job.draft
                             ELSE With(job.draft, c, Cipher(job.to, job.rows[c].text))
  BY <1>2 DEF Updated, JobTypeOK
<1> QED
  BY <1>1, <1>2 DEF RowDone

\* Each of those ends keeps the invariant.
LEMMA RowStep ==
  ASSUME IInv, job # NoJob, NEW c \in DOMAIN job.rows, RowDone(c), OnlyJob, UNCHANGED <<cell, raced, report>>
  PROVE  IInv'
<1> USE DEF IInv
<1>1. JobTypeOK /\ RowInHand(c) /\ UNCHANGED <<held, counters, truth>>
  BY DEF JobInv, OnlyJob
<1>2. /\ JobTypeOK' /\ UNCHANGED <<job.script, job.from, job.to, job.skip, job.dry, job.columns, job.all, job.read, job.clean>>
      /\ job'.rows = Without(job.rows, c)
      /\ \/ job'.draft = job.draft /\ (job'.failed \/ job.dry \/ Good(job, job.rows[c]))
         \/ /\ ~job.dry /\ job.rows[c] \in [key : Key \cup {Plain}, text : Text]
            /\ job'.draft = IF cell[c] = Absent THEN job.draft
                            ELSE With(job.draft, c, Cipher(job.to, job.rows[c].text))
      /\ job.failed => job'.failed
  BY <1>1, RowDoneFields
<1>3. \A x \in DOMAIN job'.rows : x \in DOMAIN job.rows /\ x # c /\ job'.rows[x] = job.rows[x]
  BY <1>2 DEF Without
<1>4. ASSUME NEW x \in DOMAIN job'.draft
      PROVE  \/ x \in DOMAIN job.draft /\ job'.draft[x] = job.draft[x]
             \/ /\ x = c /\ job.rows[c] \in [key : Key \cup {Plain}, text : Text]
                /\ job'.draft[x] = Cipher(job.to, job.rows[c].text)
  BY <1>2 DEF With
<1>5. DOMAIN job.draft \subseteq DOMAIN job'.draft
  BY <1>2 DEF With
<1>6. TypeOK'
  <2>1. DOMAIN job'.rows \subseteq Cell /\ DOMAIN job'.draft \subseteq Cell
    BY <1>1, <1>3, <1>4 DEF TypeOK, RowInHand
  <2>2. job'.dry => job'.draft = <<>>
    BY <1>2 DEF JobTypeOK
  <2> QED
    BY <1>1, <2>1, <2>2 DEF TypeOK, counters
<1>7. NothingLost' /\ CleanExit'
  BY <1>1 DEF NothingLost, CleanExit, Values, Listed
<1>8. \A x \in DOMAIN job'.rows : RowInHand(x)'
  BY <1>2, <1>3 DEF RowInHand, JobInv
<1>9. ASSUME NEW x \in DOMAIN job'.draft PROVE RowInDraft(x)'
  <2>1. CASE x \in DOMAIN job.draft /\ job'.draft[x] = job.draft[x]
    BY <1>1, <1>2, <2>1 DEF RowInDraft, JobInv
  <2>2. CASE /\ x = c /\ job.rows[c] \in [key : Key \cup {Plain}, text : Text]
             /\ job'.draft[x] = Cipher(job.to, job.rows[c].text)
    <3>1. job.rows[c].text \in Text /\ job.rows[c] \notin {Absent, Null}
      BY <2>2, ValuesAssumption
    <3>2. c \notin raced => truth[c] = job.rows[c].text
      BY <1>1, <3>1 DEF RowInHand, NothingLost
    <3> QED
      BY <1>1, <1>2, <2>2, <3>1, <3>2 DEF RowInDraft, RowInHand, Cipher
  <2> QED
    BY <1>4, <1>9, <2>1, <2>2
<1>10. ASSUME job' # NoJob, job'.clean /\ ~job'.dry /\ ~job'.failed, NEW x \in Cell, Treated(x)' PROVE Good(job, Committed[x])'
  <2>1. Committed'[x] = IF x \in DOMAIN job'.draft THEN job'.draft[x] ELSE cell[x]
    BY <1>10 DEF Committed, Locked
  <2>2. x \notin DOMAIN job'.draft \/ Good(job', job'.draft[x])
    <3> SUFFICES ASSUME x \in DOMAIN job'.draft PROVE Good(job', job'.draft[x])
      OBVIOUS
    <3>1. RowInDraft(x)' /\ JobTypeOK'
      BY <1>2, <1>9
    <3> QED
      BY <3>1, KeysAssumption DEF JobTypeOK, RowInDraft, Good
  <2>3. CASE x \notin DOMAIN job'.draft
    <3>1. CASE x = c
      <4>1. job.rows[c] = cell[c] /\ job.rows[c] # Absent
        BY <1>1, <1>2, <1>10 DEF RowInHand
      <4>2. Good(job, job.rows[c])
        BY <1>2, <1>10, <2>3, <3>1, <4>1 DEF With
      <4> QED
        BY <1>2, <2>1, <2>3, <3>1, <4>1, <4>2 DEF Good
    <3>2. CASE x # c
      <4>1. Treated(x)
        BY <1>2, <1>10, <3>2 DEF Treated, Without, Listed
      <4>2. Committed[x] = cell[x]
        BY <1>5, <2>3 DEF Committed, Locked
      <4> QED
        BY <1>2, <1>10, <2>1, <2>3, <4>1, <4>2 DEF JobInv, Promised, Good
    <3> QED
      BY <3>1, <3>2
  <2> QED
    BY <2>1, <2>2, <2>3
<1> QED
  BY <1>2, <1>6, <1>7, <1>8, <1>9, <1>10 DEF JobInv, Promised

\* What a script commits keeps every secret that was not written meanwhile.
LEMMA CommitKeeps ==
  ASSUME IInv, job # NoJob, NEW c \in Cell
  PROVE  /\ Committed[c] \in Values
         /\ c \notin raced => Holds(Committed[c], truth[c])
<1>1. CASE c \in DOMAIN job.draft
  <2>1. Committed[c] = job.draft[c] /\ RowInDraft(c) /\ JobTypeOK
    BY <1>1 DEF Committed, Locked, IInv, JobInv
  <2>2. Committed[c] \in [key : Key \cup {Plain}, text : Text]
    BY <2>1 DEF RowInDraft, JobTypeOK
  <2> QED
    BY <2>1, <2>2, ValuesAssumption DEF RowInDraft, Holds, Values
<1>2. CASE c \notin DOMAIN job.draft
  BY <1>2 DEF Committed, Locked, IInv, TypeOK, NothingLost, Holds, Values
<1> QED
  BY <1>1, <1>2
\* A column is done: every row of it is.
LEMMA ColumnDone ==
  ASSUME JobTypeOK, Column,
         job'.all = job.all, job'.columns = Tail(job.columns), job'.read = FALSE,
         NEW c \in Cell, Treated(c)'
  PROVE  Treated(c)
<1>1. job.read /\ job.columns # <<>> /\ c \notin DOMAIN job.rows
  BY DEF JobTypeOK, Column
<1>2. c \in Listed(job.all) /\ c \notin Listed(Tail(job.columns))
  BY DEF Treated
<1> QED
  BY <1>1, <1>2, ListedTail DEF Treated, JobTypeOK

\* The rotation commits a column, all of its rows treated.
LEMMA RotateColumnStep ==
  ASSUME IInv, RotateColumn
  PROVE  IInv'
<1> USE DEF IInv
<1>1. /\ job # NoJob /\ JobTypeOK /\ Column
      /\ UNCHANGED <<held, counters, truth, raced, report>> /\ cell' = Committed
  BY DEF RotateColumn, Rotating, OnlyJob, JobInv
<1>2. /\ UNCHANGED <<job.script, job.from, job.to, job.skip, job.dry, job.all, job.rows, job.failed, job.clean>>
      /\ job'.columns = Tail(job.columns) /\ job'.read = FALSE /\ job'.draft = <<>>
      /\ job' = [script |-> job'.script, from |-> job'.from, to |-> job'.to, skip |-> job'.skip, dry |-> job'.dry,
                 columns |-> job'.columns, all |-> job'.all, read |-> job'.read, rows |-> job'.rows,
                 draft |-> job'.draft, failed |-> job'.failed, clean |-> job'.clean]
  BY <1>1 DEF RotateColumn, Next_column, JobTypeOK
<1>3. job.columns # <<>> /\ Tail(job.columns) \in Seq(ColumnName)
  BY <1>1, ListedTail DEF Column, JobTypeOK
<1>4. JobTypeOK'
  BY <1>1, <1>2, <1>3 DEF JobTypeOK
<1>5. DOMAIN job'.rows = {} /\ DOMAIN job'.draft = {}
  BY <1>1, <1>2 DEF Column
<1>6. TypeOK'
  BY <1>1, <1>2, <1>5, CommitKeeps DEF TypeOK, counters
<1>7. NothingLost'
  BY <1>1, CommitKeeps DEF NothingLost, Holds, Values
<1>8. CleanExit'
  BY <1>1 DEF CleanExit, JobInv
<1>9. ASSUME job'.clean /\ ~job'.dry /\ ~job'.failed, NEW c \in Cell, Treated(c)' PROVE Good(job, Committed[c])'
  <2>1. Treated(c)
    BY <1>1, <1>2, <1>9, ColumnDone
  <2>2. Good(job, Committed[c])
    BY <1>1, <1>2, <1>9, <2>1 DEF JobInv, Promised
  <2>3. Committed'[c] = Committed[c]
    BY <1>1, <1>5 DEF Committed, Locked
  <2> QED
    BY <1>2, <2>2, <2>3 DEF Good
<1> QED
  BY <1>1, <1>4, <1>5, <1>6, <1>7, <1>8, <1>9 DEF JobInv, Promised

\* A migration leaves a column for its one commit, all of its rows treated.
LEMMA MigrateColumnStep ==
  ASSUME IInv, MigrateColumn
  PROVE  IInv'
<1> USE DEF IInv
<1>1. /\ job # NoJob /\ JobTypeOK /\ Column
      /\ UNCHANGED <<cell, held, counters, truth, raced, report>>
  BY DEF MigrateColumn, Migrating, OnlyJob, JobInv
<1>2. /\ UNCHANGED <<job.script, job.from, job.to, job.skip, job.dry, job.all, job.rows, job.draft, job.failed, job.clean>>
      /\ job'.columns = Tail(job.columns) /\ job'.read = FALSE
      /\ job' = [script |-> job'.script, from |-> job'.from, to |-> job'.to, skip |-> job'.skip, dry |-> job'.dry,
                 columns |-> job'.columns, all |-> job'.all, read |-> job'.read, rows |-> job'.rows,
                 draft |-> job'.draft, failed |-> job'.failed, clean |-> job'.clean]
  BY <1>1 DEF MigrateColumn, Next_column, JobTypeOK
<1>3. job.columns # <<>> /\ Tail(job.columns) \in Seq(ColumnName)
  BY <1>1, ListedTail DEF Column, JobTypeOK
<1>4. JobTypeOK'
  BY <1>1, <1>2, <1>3 DEF JobTypeOK
<1>5. DOMAIN job'.rows = {}
  BY <1>1, <1>2 DEF Column
<1>6. TypeOK'
  BY <1>1, <1>2 DEF TypeOK, counters
<1>7. NothingLost' /\ CleanExit'
  BY <1>1 DEF NothingLost, CleanExit, Values, Listed
<1>8. \A c \in DOMAIN job'.draft : RowInDraft(c)'
  BY <1>1, <1>2 DEF RowInDraft, JobInv
<1>9. ASSUME job' # NoJob, job'.clean /\ ~job'.dry /\ ~job'.failed, NEW c \in Cell, Treated(c)' PROVE Good(job, Committed[c])'
  <2>1. Treated(c)
    BY <1>1, <1>2, <1>9, ColumnDone
  <2>2. Good(job, Committed[c])
    BY <1>1, <1>2, <1>9, <2>1 DEF JobInv, Promised
  <2>3. Committed'[c] = Committed[c]
    BY <1>1, <1>2, <1>9 DEF Committed, Locked
  <2> QED
    BY <1>2, <2>2, <2>3 DEF Good
<1> QED
  BY <1>1, <1>4, <1>5, <1>6, <1>7, <1>8, <1>9 DEF JobInv, Promised

\* The end of a run, its report and its exit code.
LEMMA EndStep ==
  ASSUME IInv, End
  PROVE  IInv'
<1> USE DEF IInv
<1>1. /\ job # NoJob /\ JobTypeOK /\ job.columns = <<>> /\ job' = NoJob
      /\ UNCHANGED <<held, counters, truth, raced>> /\ cell' = Committed
  BY DEF End, OnlyJob, JobInv
<1>2. TypeOK'
  BY <1>1, CommitKeeps DEF TypeOK, counters
<1>3. NothingLost'
  BY <1>1, CommitKeeps DEF NothingLost, Holds, Values
<1>4. CleanExit'
  <2> SUFFICES ASSUME report' # NoReport, report'.exit = 0 PROVE CleanExit'
    BY DEF CleanExit
  <2>1. /\ job.clean /\ ~job.dry
        /\ report' = [script |-> job.script, from |-> job.from, to |-> job.to, skip |-> job.skip,
                      columns |-> job.all, exit |-> IF job.failed THEN 2 ELSE 0]
    BY DEF End
  <2>2. /\ ~job.failed /\ report'.script = job.script /\ report'.from = job.from /\ report'.to = job.to
        /\ report'.skip = job.skip /\ report'.columns = job.all
    BY <2>1
  <2>3. Listed(job.columns) = {}
    BY <1>1 DEF Listed
  <2>4. \A c \in Listed(job.all) : Good(job, Committed[c])
    BY <1>1, <2>1, <2>2, <2>3 DEF JobInv, Promised, Treated, Listed
  <2>5. Listed(report'.columns) = Listed(job.all)
    BY <2>2
  <2> QED
    BY <1>1, <2>2, <2>4, <2>5 DEF CleanExit, Good
<1> QED
  BY <1>1, <1>2, <1>3, <1>4 DEF JobInv

\* Whatever cuts a script off, nothing of the open transaction is left.
LEMMA ToolFailsStep ==
  ASSUME IInv, ToolFails
  PROVE  IInv'
<1> USE DEF IInv
<1>1. job' = NoJob /\ UNCHANGED <<cell, held, writes, runs, truth, raced, report>> /\ faults' \in 0 .. MaxFaults
  BY BoundsAssumption DEF ToolFails, TypeOK
<1> QED
  BY <1>1 DEF TypeOK, NothingLost, CleanExit, JobInv, Values, Listed

\* Stopping and starting the services touches no row and no script.
LEMMA ServicesStep ==
  ASSUME IInv, StopServices \/ StartServices \/ UNCHANGED vars
  PROVE  IInv'
<1> USE DEF IInv
<1>1. UNCHANGED <<cell, job, counters, truth, raced, report>> /\ held' \in Key \cup {Down}
  BY DEF StopServices, StartServices, vars, TypeOK
<1>2. TypeOK' /\ NothingLost' /\ CleanExit'
  BY <1>1 DEF TypeOK, NothingLost, CleanExit, Values, Listed, counters
<1>3. JobInv'
  BY <1>1 DEF JobInv, JobTypeOK, RowInHand, RowInDraft, Promised, Treated, Good, Committed, Locked, Listed, Values
<1> QED
  BY <1>2, <1>3

-----------------------------------------------------------------------------
(* The theorems.                                                           *)

\* Every step keeps the invariant.
LEMMA InvStep == IInv /\ [Next]_vars => IInv'
<1> SUFFICES ASSUME IInv, [Next]_vars PROVE IInv'
  OBVIOUS
<1>1. CASE StopServices \/ StartServices \/ UNCHANGED vars
  BY <1>1, ServicesStep
<1>2. CASE GatewayWrite
  BY <1>2, GatewayMeans, PutStep DEF IInv
<1>3. CASE RotateBegin \/ MigrateLdapPasswords \/ MigrateNasSecrets \/ MigrateRemainingSecrets
  BY <1>3, ScriptBeginsStep
<1>4. CASE Select
  BY <1>4, SelectStep
<1>5. ASSUME NEW c, RotateRow(c) \/ MigrateRow(c) PROVE IInv'
  BY <1>5, RotateRowDone, MigrateRowDone, RowStep
<1>6. CASE RotateColumn
  BY <1>6, RotateColumnStep
<1>7. CASE MigrateColumn
  BY <1>7, MigrateColumnStep
<1>8. CASE End
  BY <1>8, EndStep
<1>9. CASE ToolFails
  BY <1>9, ToolFailsStep
<1> QED
  BY <1>1, <1>2, <1>3, <1>4, <1>5, <1>6, <1>7, <1>8, <1>9 DEF Next, Script

\* The variables of Secrets keep their types, and a dry run has nothing to commit.
THEOREM TypeCorrect == Spec => []TypeOK
<1>1. IInv => TypeOK
  BY DEF IInv
<1> QED
  BY InvInit, InvStep, <1>1, PTL DEF Spec

\* Whatever is cut off, repeated, turned back or written beside a script, each
\* secret is there, in plain or once encrypted (rotate_secret_master.py:150).
THEOREM SecretsKept == Spec => []NothingLost
<1>1. IInv => NothingLost
  BY DEF IInv
<1> QED
  BY InvInit, InvStep, <1>1, PTL DEF Spec

\* Exit code 0 of a rotation or a migration nothing was written beside means
\* that no row of the columns it walked is left behind.
THEOREM ExitCodeSound == Spec => []CleanExit
<1>1. IInv => CleanExit
  BY DEF IInv
<1> QED
  BY InvInit, InvStep, <1>1, PTL DEF Spec
=============================================================================
