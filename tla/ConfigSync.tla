----------------------------- MODULE ConfigSync -----------------------------
(***************************************************************************)
(* How a configuration change travels from the database to radiusd.        *)
(*                                                                         *)
(*   gateway    edits rows in a transaction, publishes                     *)
(*              orw.config.freeradius.apply inside it, commits afterwards  *)
(*   watcher    freeradius_config_watcher.py: applies on start, on every   *)
(*              message and on every idle timeout, then sends SIGHUP       *)
(*   entrypoint freeradius_entrypoint.sh: applies once, links the files    *)
(*              that exist, then execs radiusd, which loads them           *)
(*                                                                         *)
(* Watcher and entrypoint run the same FreeRADIUSConfigManager.            *)
(* apply_configs() over the same volume and the same freeradius_config     *)
(* rows, with no lock between them.                                        *)
(*                                                                         *)
(* An item is a generated file, or Cert: the whole certificate directory,  *)
(* which apply_configs() treats as one.  What the database would generate  *)
(* for an item is numbered: db[i] is the number of committed edits that    *)
(* touched it, and Content[i][v] the text of its v-th version, so that an  *)
(* edit can restore an earlier text (equal hashes, different versions) and *)
(* a text can be Absent (no such file is generated, e.g. no LDAP server).  *)
(***************************************************************************)
EXTENDS Naturals

CONSTANTS
  Cert,        \* the certificate directory, applied first
  File,        \* the other generated files (mods-available/eap, clients.conf ...)
  MaxVersion,  \* bound on the committed edits of one item
  Text,        \* file texts, up to equality of their SHA-256 hash
  Content,     \* [Item -> [Version -> Text \cup {Absent}]]
  Absent,      \* generate_all_configs() leaves the file out
  None,        \* no row in freeradius_config, no file on disk, nothing read
  Torn,        \* open(path, "w") has truncated the file, write() not done
  MaxLog,      \* bound on the messages published
  MaxFaults    \* bound on the failures injected

Item    == {Cert} \cup File
Version == 0 .. MaxVersion
Applier == {"watcher", "entrypoint"}
OnDisk  == Version \cup {None, Torn}

ASSUME ConfigSyncAssumption ==
  /\ File # {} /\ Cert \notin File /\ None \notin Item
  /\ MaxVersion \in Nat /\ MaxLog \in Nat /\ MaxFaults \in Nat
  /\ Absent \notin Text
  /\ Content \in [Item -> [Version -> Text \cup {Absent}]]
  /\ \A v \in Version : Content[Cert][v] # Absent
  /\ None \notin Version /\ Torn \notin Version /\ None # Torn

VARIABLES
  db,       \* db[i]: committed version of item i in PostgreSQL
  editing,  \* items changed by a gateway transaction that is still open
  log,      \* apply messages retained in the NATS stream
  cursor,   \* how many of them the watcher's consumer has acknowledged
  disk,     \* disk[i]: the file in the volume both containers mount
  stored,   \* stored[i]: freeradius_config.last_applied_hash (as a version)
  running,  \* running[i]: what radiusd loaded last
  linked,   \* files the entrypoint symlinked into radiusd's read path
  pc,       \* pc[p]: where applier p is
  cur,      \* cur[p]: item p is writing
  want,     \* want[p][i]: version p read, hashed and compares / records
  data,     \* data[p]: version whose bytes p is writing
  todo,     \* todo[p]: files p has still to read ("gen") or apply ("next")
  applied,  \* applied[p]: some item of this pass has status "applied"
  faults,   \* failures injected so far
  hurt      \* failures after which the code no longer promises convergence

dbVars    == <<db, editing, log>>
localVars == <<pc, cur, want, data, todo, applied>>
vars == <<db, editing, log, cursor, disk, stored, running, linked,
          pc, cur, want, data, todo, applied, faults, hurt>>

\* Program points.  "off": process down; "idle": watcher in next_msg();
\* "exec": entrypoint about to link and exec; "run": radiusd is running.
Resting == {"off", "idle", "exec", "run"}
InPass  == {"hash", "check", "open", "close", "save", "gen", "next", "hup"}
Cause   == {"write_error", "reload_lost", "overlap", "cert_race", "unsaved",
            "unlinked", "clash", "recut"}

SameText(i, v, w) ==
  v \in Version /\ w \in Version /\ Content[i][v] = Content[i][w]

Init ==
  /\ db = [i \in Item |-> 0] /\ editing = {}
  /\ log = 0 /\ cursor = 0
  /\ disk = [i \in Item |-> None] /\ stored = [i \in Item |-> None]
  /\ running = [i \in Item |-> None] /\ linked = {}
  /\ pc = [p \in Applier |-> "off"] /\ cur = [p \in Applier |-> None]
  /\ want = [p \in Applier |-> [i \in Item |-> None]]
  /\ data = [p \in Applier |-> None]
  /\ todo = [p \in Applier |-> {}]
  /\ applied = [p \in Applier |-> FALSE]
  /\ faults = 0 /\ hurt = {}

Goto(p, label) == pc' = [pc EXCEPT ![p] = label]
Fault == faults < MaxFaults /\ faults' = faults + 1
Hurt(causes) == hurt' = hurt \cup causes

\* What has come between the record, the disk and radiusd.  "clash" and
\* "recut" only say that the next pass may not put it right.
Harm == hurt \ {"clash", "recut"}

-----------------------------------------------------------------------------
(* The gateway.                                                            *)

\* Certificate, LDAP server and realm handlers write their rows and publish
\* the apply message before get_db() commits.
Edit(i) ==
  /\ i \notin editing /\ db[i] < MaxVersion /\ log < MaxLog
  /\ editing' = editing \cup {i}
  /\ log' = log + 1
  /\ UNCHANGED <<db, cursor, disk, stored, running, linked, localVars,
                 faults, hurt>>

\* NAS client and settings handlers publish nothing: only their commit shows.
SilentEdit(i) ==
  /\ i \notin editing /\ db[i] < MaxVersion
  /\ db' = [db EXCEPT ![i] = @ + 1]
  /\ UNCHANGED <<editing, log, cursor, disk, stored, running, linked,
                 localVars, faults, hurt>>

Commit(i) ==
  /\ i \in editing
  /\ editing' = editing \ {i}
  /\ db' = [db EXCEPT ![i] = @ + 1]
  /\ UNCHANGED <<log, cursor, disk, stored, running, linked, localVars,
                 faults, hurt>>

\* The handler raised after the publish: get_db() rolls back.
Rollback(i) ==
  /\ i \in editing
  /\ editing' = editing \ {i}
  /\ UNCHANGED <<db, log, cursor, disk, stored, running, linked, localVars,
                 faults, hurt>>

\* "Apply now" buttons: sync_radius and the freeradius_config apply endpoint.
RequestApply ==
  /\ log < MaxLog
  /\ log' = log + 1
  /\ UNCHANGED <<db, editing, cursor, disk, stored, running, linked, localVars,
                 faults, hurt>>

-----------------------------------------------------------------------------
(* apply_configs(), run by either applier.                                 *)

\* The locals of the pass that ends die with it.
EndPass(p, label) ==
  /\ Goto(p, label)
  /\ cur' = [cur EXCEPT ![p] = None]
  /\ want' = [want EXCEPT ![p] = [i \in Item |-> None]]
  /\ data' = [data EXCEPT ![p] = None]
  /\ todo' = [todo EXCEPT ![p] = {}]
  /\ applied' = [applied EXCEPT ![p] = FALSE]

\* Where an applier goes when its pass is over.
Rest(p) == IF p = "watcher" THEN "idle" ELSE "exec"

\* The appliers hold different versions of item i: whichever writes last wins.
Clash(p, i) ==
  IF \E q \in Applier \ {p} : want[q][i] \notin {None, db[i]}
  THEN {"clash"} ELSE {}

\* Step 1: hash the certificate rows ...
HashCerts(p) ==
  /\ pc[p] = "hash"
  /\ cur' = [cur EXCEPT ![p] = Cert]
  /\ want' = [want EXCEPT ![p][Cert] = db[Cert]]
  /\ Goto(p, "check")
  /\ Hurt(Clash(p, Cert))
  /\ UNCHANGED <<dbVars, cursor, disk, stored, running, linked, data, todo,
                 applied, faults>>

\* What follows an item that is done with: step 2 after the certificates,
\* the next file after a file.
After(i) == IF i = Cert THEN "gen" ELSE "next"
TodoAfter(p, i) == IF i = Cert THEN File ELSE todo[p]

\* The locals that concern only the item left behind die here.
Leave(p, i) ==
  /\ Goto(p, After(i))
  /\ want' = [want EXCEPT ![p][i] = None]
  /\ cur' = [cur EXCEPT ![p] = None]
  /\ data' = [data EXCEPT ![p] = None]
  /\ todo' = [todo EXCEPT ![p] = TodoAfter(p, i)]

\* Mutant of CheckCerts: the hash is taken over bytes that differ from one
\* generation to the next (a timestamp), so it never is the stored one.
RehashedCheckCerts(p) ==
  /\ pc[p] = "check"
  /\ Goto(p, "open")
  /\ UNCHANGED <<dbVars, cursor, disk, stored, running, linked, cur, want,
                 data, todo, applied, faults, hurt>>

\* ... and skip the write when the hash is the stored one.
CheckCerts(p) ==
  /\ pc[p] = "check"
  /\ \/ /\ SameText(Cert, stored[Cert], want[p][Cert])
        /\ Leave(p, Cert)
     \/ /\ ~SameText(Cert, stored[Cert], want[p][Cert])
        /\ Goto(p, "open")
        /\ UNCHANGED <<cur, want, data, todo>>
  /\ UNCHANGED <<dbVars, cursor, disk, stored, running, linked, applied,
                 faults, hurt>>

\* open(path, "w") truncates.  write_cert_files() reads the certificates
\* again, a file is written from the text generated in step 2.
Open(p) ==
  /\ pc[p] = "open"
  /\ data' = [data EXCEPT ![p] = IF cur[p] = Cert THEN db[Cert]
                                                  ELSE want[p][cur[p]]]
  /\ disk' = [disk EXCEPT ![cur[p]] = Torn]
  /\ Goto(p, "close")
  /\ UNCHANGED <<dbVars, cursor, stored, running, linked, cur, want, todo,
                 applied, faults, hurt>>

Close(p) ==
  /\ pc[p] = "close"
  /\ disk' = [disk EXCEPT ![cur[p]] = data[p]]
  /\ Goto(p, "save")
  /\ UNCHANGED <<dbVars, cursor, stored, running, linked, cur, want, data,
                 todo, applied, faults, hurt>>

\* The hash about to be recorded is that of another text when the certificates
\* were edited between the two reads, or when the other applier has written
\* the file meanwhile.
Mismatch(p) ==
  IF disk[cur[p]] = want[p][cur[p]] THEN {}
  ELSE IF disk[cur[p]] = data[p] THEN {"cert_race"} ELSE {"overlap"}

\* Mutant of Save: the hash is computed when it is saved, from the rows as
\* they are by then.
LateHashSave(p) ==
  /\ pc[p] = "save"
  /\ stored' = [stored EXCEPT ![cur[p]] = db[cur[p]]]
  /\ applied' = [applied EXCEPT ![p] = TRUE]
  /\ Hurt(Mismatch(p))
  /\ Leave(p, cur[p])
  /\ UNCHANGED <<dbVars, cursor, disk, running, linked, faults>>

\* The upsert records the hash computed before the write.
Save(p) ==
  /\ pc[p] = "save"
  /\ stored' = [stored EXCEPT ![cur[p]] = want[p][cur[p]]]
  /\ applied' = [applied EXCEPT ![p] = TRUE]
  /\ Hurt(Mismatch(p))
  /\ Leave(p, cur[p])
  /\ UNCHANGED <<dbVars, cursor, disk, running, linked, faults>>

\* Step 2: every loader is a transaction of its own, so files may be rendered
\* from different database states.  Once all are, those that exist remain.
Generate(p, f) ==
  /\ pc[p] = "gen" /\ f \in todo[p]
  /\ want' = [want EXCEPT ![p][f] = db[f]]
  /\ IF todo[p] = {f}
     THEN /\ Goto(p, "next")
          /\ todo' = [todo EXCEPT ![p] =
                        {g \in File : Content[g][want'[p][g]] # Absent}]
     ELSE /\ todo' = [todo EXCEPT ![p] = @ \ {f}]
          /\ UNCHANGED pc
  /\ Hurt(Clash(p, f))
  /\ UNCHANGED <<dbVars, cursor, disk, stored, running, linked, cur, data,
                 applied, faults>>

\* Step 3: one file, skipped when its stored hash is the new one.
NextFile(p, f) ==
  /\ pc[p] = "next" /\ f \in todo[p]
  /\ todo' = [todo EXCEPT ![p] = @ \ {f}]
  /\ \/ /\ SameText(f, stored[f], want[p][f])
        /\ want' = [want EXCEPT ![p][f] = None]
        /\ UNCHANGED <<pc, cur>>
     \/ /\ ~SameText(f, stored[f], want[p][f])
        /\ cur' = [cur EXCEPT ![p] = f]
        /\ Goto(p, "open")
        /\ UNCHANGED want
  /\ UNCHANGED <<dbVars, cursor, disk, stored, running, linked, data,
                 applied, faults, hurt>>

\* Mutant of Finish: the watcher writes the files and never signals.
SilentFinish(p) ==
  /\ pc[p] = "next" /\ todo[p] = {}
  /\ EndPass(p, Rest(p))
  /\ UNCHANGED <<dbVars, cursor, disk, stored, running, linked, faults, hurt>>

\* apply_and_reload() signals radiusd only if something was applied; the
\* entrypoint goes on to exec whatever the outcome.
Finish(p) ==
  /\ pc[p] = "next" /\ todo[p] = {}
  /\ IF p = "watcher" /\ applied[p]
     THEN /\ Goto(p, "hup")
          /\ UNCHANGED <<cur, want, data, todo, applied>>
     ELSE EndPass(p, Rest(p))
  /\ UNCHANGED <<dbVars, cursor, disk, stored, running, linked, faults, hurt>>

-----------------------------------------------------------------------------
(* The watcher's loop and radiusd.                                         *)

\* A new watcher process applies at once, then deletes and recreates its
\* durable consumer, which delivers the retained messages from the first.
\* A restarted freeradius container applies before it starts radiusd.
Start(p) ==
  /\ pc[p] = "off"
  /\ Goto(p, "hash")
  /\ cursor' = IF p = "watcher" THEN 0 ELSE cursor
  /\ UNCHANGED <<dbVars, disk, stored, running, linked, cur, want, data, todo,
                 applied, faults, hurt>>

\* Mutant of Deliver: a pull that returns nothing is taken for a message.
EmptyDeliver ==
  /\ pc["watcher"] = "idle"
  /\ cursor' = cursor + 1
  /\ Goto("watcher", "hash")
  /\ UNCHANGED <<dbVars, disk, stored, running, linked, cur, want, data, todo,
                 applied, faults, hurt>>

\* The message is acknowledged before apply_and_reload() is called.
Deliver ==
  /\ pc["watcher"] = "idle" /\ cursor < log
  /\ cursor' = cursor + 1
  /\ Goto("watcher", "hash")
  /\ UNCHANGED <<dbVars, disk, stored, running, linked, cur, want, data, todo,
                 applied, faults, hurt>>

\* Mutant of Reconcile: the timeout is logged and nothing is applied.
IdleReconcile ==
  /\ pc["watcher"] = "idle" /\ cursor = log
  /\ UNCHANGED vars

\* Another: an exception in a pass is caught outside the loop and ends it.
FragileReconcile ==
  /\ pc["watcher"] = "idle" /\ cursor = log /\ faults = 0
  /\ Goto("watcher", "hash")
  /\ UNCHANGED <<dbVars, cursor, disk, stored, running, linked, cur, want,
                 data, todo, applied, faults, hurt>>

\* next_msg(timeout=RECONCILE_INTERVAL) timed out: no message was waiting.
Reconcile ==
  /\ pc["watcher"] = "idle" /\ cursor = log
  /\ Goto("watcher", "hash")
  /\ UNCHANGED <<dbVars, cursor, disk, stored, running, linked, cur, want,
                 data, todo, applied, faults, hurt>>

\* ConnectionClosedError: reconnect, delete and recreate the consumer.
Resubscribe ==
  /\ pc["watcher"] = "idle" /\ Fault
  /\ cursor' = 0
  /\ UNCHANGED <<dbVars, disk, stored, running, linked, localVars, hurt>>

\* SIGHUP re-reads what was linked when the container started; radiusd may
\* refuse a truncated file and keep what it had.
Hup ==
  /\ pc["watcher"] = "hup"
  /\ \/ /\ pc["entrypoint"] = "run"
        /\ \E torn \in SUBSET {i \in Item : disk[i] = Torn} :
             running' = [i \in Item |->
                           IF i \in linked \cup {Cert} /\ disk[i] # None
                              /\ (disk[i] = Torn => i \in torn)
                           THEN disk[i] ELSE running[i]]
        /\ Hurt(IF \E f \in File \ linked : disk[f] # running[f]
                THEN {"unlinked"} ELSE {})
     \/ \* the shell is still PID 1 and ignores the signal, or the container
        \* is down and the signal fails: radiusd will read the disk later
        /\ pc["entrypoint"] # "run"
        /\ UNCHANGED <<running, hurt>>
  /\ EndPass("watcher", "idle")
  /\ UNCHANGED <<dbVars, cursor, disk, stored, linked, faults>>

\* Link what exists and exec radiusd, which reads it; it may refuse to start
\* on a truncated file, and the container restarts.
Exec ==
  /\ pc["entrypoint"] = "exec"
  /\ linked' = linked \cup {f \in File : disk[f] # None}
  /\ \/ /\ running' = disk
        /\ Goto("entrypoint", "run")
     \/ /\ \E i \in Item : disk[i] = Torn
        /\ Goto("entrypoint", "off")
        /\ UNCHANGED running
  /\ UNCHANGED <<dbVars, cursor, disk, stored, cur, want, data, todo, applied,
                 faults, hurt>>

-----------------------------------------------------------------------------
(* Failures.                                                               *)

\* The watcher stops caring about items already applied in this pass before
\* it has signalled a radiusd that is running.
LostReload(p) ==
  IF p = "watcher" /\ applied[p] /\ pc["entrypoint"] = "run"
  THEN {"reload_lost"} ELSE {}

\* A torn file stays torn if its hash is recorded already (the stored one could
\* not be read), or the other applier is about to record it.
Recut(p) ==
  IF /\ pc[p] = "close"
     /\ \/ stored[cur[p]] = want[p][cur[p]]
        \/ \E q \in Applier : pc[q] = "save" /\ cur[q] = cur[p]
  THEN {"recut"} ELSE {}

\* A file was touched and its hash is not recorded.
Unsaved(p) ==
  (IF pc[p] \in {"close", "save"} THEN {"unsaved"} ELSE {}) \cup Recut(p)

\* docker API and docker CLI both fail: reload_freeradius() returns False,
\* which ends up in the result dictionary and the log only.
HupFails ==
  /\ pc["watcher"] = "hup" /\ Fault
  /\ Hurt(LostReload("watcher"))
  /\ EndPass("watcher", "idle")
  /\ UNCHANGED <<dbVars, cursor, disk, stored, running, linked>>

\* Nothing applied so far in this pass makes the watcher signal radiusd.
Unserved(p) ==
  IF p = "watcher" /\ ~applied[p] /\ pc["entrypoint"] = "run"
  THEN {"reload_lost"} ELSE {}

\* Disk full, permissions, a secret that does not decrypt.  The certificate
\* step records nothing; a file is recorded with status "error" and, by the
\* same upsert, with the new hash as last_applied_hash (unless that fails too).
WriteFails(p) ==
  /\ pc[p] \in {"open", "close"} /\ Fault
  /\ IF cur[p] = Cert
     THEN /\ UNCHANGED stored
          /\ Hurt(Unsaved(p))
     ELSE /\ \/ stored' = [stored EXCEPT ![cur[p]] = want[p][cur[p]]]
             \/ UNCHANGED stored
          /\ Hurt({"write_error"})
  /\ Leave(p, cur[p])
  /\ UNCHANGED <<dbVars, cursor, disk, running, linked, applied>>

\* The upsert fails and _save_config_state() swallows the exception.
SaveLost(p) ==
  /\ pc[p] = "save" /\ Fault
  /\ applied' = [applied EXCEPT ![p] = TRUE]
  /\ Hurt({"unsaved"})
  /\ Leave(p, cur[p])
  /\ UNCHANGED <<dbVars, cursor, disk, stored, running, linked>>

\* A file is written, and then chmod is refused, or there is no connection to
\* save its state by.  The except clause saves it with status "error" and the
\* same hash; when that succeeds the record is right, but the item does not
\* count for the reload.
SaveRaises(p) ==
  /\ pc[p] = "save" /\ cur[p] # Cert /\ Fault
  /\ \/ /\ stored' = [stored EXCEPT ![cur[p]] = want[p][cur[p]]]
        /\ Hurt(Mismatch(p) \cup Unserved(p))
     \/ /\ UNCHANGED stored
        /\ Hurt({"unsaved"})
  /\ Leave(p, cur[p])
  /\ UNCHANGED <<dbVars, cursor, disk, running, linked, applied>>

\* The stored hash cannot be read: None, so the item is written again.
HashUnreadable(p) ==
  /\ Fault
  /\ \/ pc[p] = "check" /\ UNCHANGED <<cur, todo>>
     \/ /\ pc[p] = "next"
        /\ \E f \in todo[p] : /\ cur' = [cur EXCEPT ![p] = f]
                              /\ todo' = [todo EXCEPT ![p] = @ \ {f}]
  /\ Goto(p, "open")
  /\ UNCHANGED <<dbVars, cursor, disk, stored, running, linked, want, data,
                 applied, hurt>>

\* PostgreSQL refuses the connection.  In the certificate step the error is
\* caught there; later it ends the pass, and the results collected so far,
\* which decide about the reload, are dropped with it.
DbDown(p) ==
  /\ Fault
  /\ \/ /\ \/ pc[p] \in {"hash", "check"}
           \/ pc[p] = "save" /\ cur[p] = Cert
        /\ Hurt(Unsaved(p))
        /\ Leave(p, Cert)
        /\ UNCHANGED applied
     \/ /\ \/ pc[p] = "gen"
           \/ pc[p] = "next" /\ todo[p] # {}
           \/ pc[p] = "save" /\ cur[p] # Cert
        /\ Hurt(Unsaved(p) \cup LostReload(p))
        /\ EndPass(p, Rest(p))
  /\ UNCHANGED <<dbVars, cursor, disk, stored, running, linked>>

\* The process dies or its container is stopped, and is started again.
Crash(p) ==
  /\ pc[p] # "off" /\ Fault
  /\ Hurt(Unsaved(p) \cup LostReload(p))
  /\ EndPass(p, "off")
  /\ UNCHANGED <<dbVars, cursor, disk, stored, running, linked>>

-----------------------------------------------------------------------------
PassStep(p) ==
  \/ HashCerts(p) \/ CheckCerts(p) \/ Open(p) \/ Close(p) \/ Save(p)
  \/ \E f \in File : Generate(p, f) \/ NextFile(p, f)
  \/ Finish(p)

WatcherStep    == Start("watcher") \/ Deliver \/ Reconcile \/ Hup
                    \/ PassStep("watcher")
EntrypointStep == Start("entrypoint") \/ Exec \/ PassStep("entrypoint")

Gateway ==
  \/ RequestApply
  \/ \E i \in Item : Edit(i) \/ SilentEdit(i) \/ Commit(i) \/ Rollback(i)

Failure ==
  \/ HupFails \/ Resubscribe
  \/ \E p \in Applier : WriteFails(p) \/ SaveLost(p) \/ SaveRaises(p)
                          \/ HashUnreadable(p) \/ DbDown(p) \/ Crash(p)

Next == WatcherStep \/ EntrypointStep \/ Gateway \/ Failure

Spec == Init /\ [][Next]_vars

\* Both containers have "restart: always" and their processes run; the
\* operators behind the gateway and the failures owe nothing.
FairSpec == Spec /\ WF_vars(WatcherStep) /\ WF_vars(EntrypointStep)

-----------------------------------------------------------------------------
(* Properties.                                                             *)

TypeOK ==
  /\ db \in [Item -> Version] /\ editing \in SUBSET Item
  /\ log \in 0 .. MaxLog /\ cursor \in 0 .. log
  /\ disk \in [Item -> OnDisk]
  /\ stored \in [Item -> Version \cup {None}]
  /\ running \in [Item -> OnDisk] /\ linked \in SUBSET File
  /\ pc \in [Applier -> Resting \cup InPass]
  /\ cur \in [Applier -> Item \cup {None}]
  /\ want \in [Applier -> [Item -> Version \cup {None}]]
  /\ data \in [Applier -> Version \cup {None}]
  /\ todo \in [Applier -> SUBSET File]
  /\ applied \in [Applier -> BOOLEAN]
  /\ faults \in 0 .. MaxFaults /\ hurt \in SUBSET Cause

\* Between truncating item i and recording its hash.
Writing(p, i) == pc[p] \in {"close", "save"} /\ cur[p] = i

\* A record of the current version means current bytes: only then may a pass
\* leave the item alone.  Passes of both appliers interleave, the certificates
\* change between the read that is hashed and the read that is written, a write
\* is cut off and leaves a torn file, a save is lost or made twice.  A record
\* may fall behind the disk by all this, and is then written again; it never
\* runs ahead of it, unless a write failed ("write_error", see below), the
\* appliers held different versions at once ("clash"), or a needless rewrite
\* was cut off ("recut").
RecordedIsWritten ==
  hurt \cap {"write_error", "clash", "recut"} = {} =>
    \A i \in Item : (/\ stored[i] = db[i]
                     /\ \A p \in Applier : ~Writing(p, i)) => disk[i] = db[i]

\* What the gateway reports as applied is what radiusd serves: once the
\* watcher owes no SIGHUP, radiusd has loaded the version last recorded.
ServedMatchesRecord ==
  (Harm = {} /\ pc["entrypoint"] = "run" /\ ~applied["watcher"]) =>
    \A i \in Item : ~Writing("watcher", i) => running[i] = stored[i]

\* Every item the database generates is served in its current text.
InSync ==
  /\ pc["entrypoint"] = "run"
  /\ \A i \in Item : \/ Content[i][db[i]] = Absent
                     \/ SameText(i, running[i], db[i])

\* When edits and failures stop, radiusd ends up serving the database's
\* configuration, although messages are published before the commit, are
\* acknowledged before they are acted on, and some edits publish none.
Converges == <>[](Harm # {} \/ InSync)

\* A reconciliation that finds nothing new sends no SIGHUP: the storm of
\* PR 87 / 90 does not come back, whatever has failed before.
NoReloadStorm == <>[](pc["watcher"] # "hup")

-----------------------------------------------------------------------------
(* What a docstring claims and a failure refutes.                          *)

\* "Look up the last-applied hash ... or None if we've never written this
\* config before" (_get_stored_hash): a hash equal to the generated text's
\* means the text was written.  It was not when the write failed.
SurvivesWriteError == <>[](hurt \subseteq {"write_error"} => InSync)
=============================================================================
