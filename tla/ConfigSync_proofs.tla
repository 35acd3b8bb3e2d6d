-------------------------- MODULE ConfigSync_proofs --------------------------
(***************************************************************************)
(* Invariance of TypeOK, ServedMatchesRecord and RecordedIsWritten, and    *)
(* the safety of ConfigService, for every set of files, every edit history *)
(* and any number of failures.                                             *)
(***************************************************************************)
EXTENDS ConfigSyncRefinement, TLAPS

\* What an applier's locals hold at each program point.
LocalsOK ==
  \A p \in Applier :
    /\ pc[p] \in {"check", "open", "close", "save"} =>
         cur[p] \in Item /\ want[p][cur[p]] \in Version
    /\ pc[p] = "check" => cur[p] = Cert
    /\ pc[p] \in {"close", "save"} => data[p] \in Version
    /\ pc[p] = "gen" => \A f \in File \ todo[p] : want[p][f] \in Version
    /\ pc[p] = "next" => \A f \in todo[p] : want[p][f] \in Version
    /\ (pc[p] \in {"open", "close", "save"} /\ cur[p] # Cert) =>
         cur[p] \notin todo[p] /\ \A f \in todo[p] : want[p][f] \in Version

\* An open transaction leaves room for its commit under the bound.
EditingOK == \A i \in editing : db[i] < MaxVersion

TypeInv == TypeOK /\ LocalsOK /\ EditingOK

\* The types hold initially.
LEMMA InitTypeInv == Init => TypeInv
<1> SUFFICES ASSUME Init PROVE TypeInv
  OBVIOUS
<1> USE ConfigSyncAssumption
<1>1. TypeOK
  BY DEF Init, TypeOK, OnDisk, Version, Resting, InPass, Applier, Item
<1>2. LocalsOK
  BY DEF Init, LocalsOK, Applier
<1>3. EditingOK
  BY DEF Init, EditingOK
<1> QED
  BY <1>1, <1>2, <1>3 DEF TypeInv

-----------------------------------------------------------------------------
\* The gateway touches none of the appliers' variables.
LEMMA GatewayType == ASSUME TypeInv, Gateway PROVE TypeInv'
<1> USE ConfigSyncAssumption DEF TypeInv, dbVars, localVars
<1>1. CASE RequestApply
  <2>1. TypeOK'
    BY <1>1 DEF TypeOK, RequestApply
  <2>2. LocalsOK'
    BY <1>1 DEF LocalsOK, RequestApply
  <2>3. EditingOK'
    BY <1>1 DEF EditingOK, TypeOK, Version, RequestApply
  <2> QED BY <2>1, <2>2, <2>3
<1>2. ASSUME NEW i \in Item, Edit(i) PROVE TypeInv'
  <2>1. TypeOK'
    BY <1>2 DEF TypeOK, Edit
  <2>2. LocalsOK'
    BY <1>2 DEF LocalsOK, Edit
  <2>3. EditingOK'
    BY <1>2 DEF EditingOK, TypeOK, Version, Edit
  <2> QED BY <2>1, <2>2, <2>3
<1>3. ASSUME NEW i \in Item, SilentEdit(i) PROVE TypeInv'
  <2>1. TypeOK'
    BY <1>3 DEF TypeOK, SilentEdit, Version
  <2>2. LocalsOK'
    BY <1>3 DEF LocalsOK, SilentEdit
  <2>3. EditingOK'
    BY <1>3 DEF EditingOK, TypeOK, Version, SilentEdit
  <2> QED BY <2>1, <2>2, <2>3
<1>4. ASSUME NEW i \in Item, Commit(i) PROVE TypeInv'
  <2>1. TypeOK'
    BY <1>4 DEF TypeOK, EditingOK, Commit, Version
  <2>2. LocalsOK'
    BY <1>4 DEF LocalsOK, Commit
  <2>3. EditingOK'
    BY <1>4 DEF EditingOK, TypeOK, Version, Commit
  <2> QED BY <2>1, <2>2, <2>3
<1>5. ASSUME NEW i \in Item, Rollback(i) PROVE TypeInv'
  <2>1. TypeOK'
    BY <1>5 DEF TypeOK, Rollback
  <2>2. LocalsOK'
    BY <1>5 DEF LocalsOK, Rollback
  <2>3. EditingOK'
    BY <1>5 DEF EditingOK, TypeOK, Version, Rollback
  <2> QED BY <2>1, <2>2, <2>3
<1> QED BY <1>1, <1>2, <1>3, <1>4, <1>5 DEF Gateway

-----------------------------------------------------------------------------
(* Appliers: what the two ways to leave an item or a pass do to the types.   *)

\* Leave(p, i) from an item whose locals are in order.
LEMMA LeaveType ==
  ASSUME TypeInv, NEW p \in Applier, NEW i \in Item, Leave(p, i),
         pc[p] \in {"hash", "check", "open", "close", "save"},
         i # Cert => cur[p] = i /\ pc[p] \in {"open", "close", "save"},
         UNCHANGED <<db, editing>>
  PROVE  /\ pc' \in [Applier -> Resting \cup InPass]
         /\ cur' \in [Applier -> Item \cup {None}]
         /\ want' \in [Applier -> [Item -> Version \cup {None}]]
         /\ data' \in [Applier -> Version \cup {None}]
         /\ todo' \in [Applier -> SUBSET File]
         /\ LocalsOK' /\ EditingOK'
<1> USE ConfigSyncAssumption DEF TypeInv, Leave, After, TodoAfter, Goto
<1>1. /\ pc' \in [Applier -> Resting \cup InPass]
      /\ cur' \in [Applier -> Item \cup {None}]
  BY DEF TypeOK, Resting, InPass
<1>2. want' \in [Applier -> [Item -> Version \cup {None}]]
  BY DEF TypeOK
<1>3. /\ data' \in [Applier -> Version \cup {None}]
      /\ todo' \in [Applier -> SUBSET File]
  BY DEF TypeOK
<1>4. LocalsOK'
  BY DEF TypeOK, LocalsOK, Item
<1>5. EditingOK'
  BY DEF EditingOK
<1> QED BY <1>1, <1>2, <1>3, <1>4, <1>5

\* EndPass(p, label) forgets the locals.
LEMMA EndPassType ==
  ASSUME TypeInv, NEW p \in Applier, NEW label \in Resting, EndPass(p, label),
         UNCHANGED <<db, editing>>
  PROVE  /\ pc' \in [Applier -> Resting \cup InPass]
         /\ cur' \in [Applier -> Item \cup {None}]
         /\ want' \in [Applier -> [Item -> Version \cup {None}]]
         /\ data' \in [Applier -> Version \cup {None}]
         /\ todo' \in [Applier -> SUBSET File]
         /\ applied' \in [Applier -> BOOLEAN]
         /\ LocalsOK' /\ EditingOK'
<1> USE DEF TypeInv, EndPass, Goto
<1>1. /\ pc' \in [Applier -> Resting \cup InPass]
      /\ cur' \in [Applier -> Item \cup {None}]
      /\ want' \in [Applier -> [Item -> Version \cup {None}]]
      /\ data' \in [Applier -> Version \cup {None}]
      /\ todo' \in [Applier -> SUBSET File]
      /\ applied' \in [Applier -> BOOLEAN]
  BY DEF TypeOK
<1>2. LocalsOK'
  BY DEF TypeOK, LocalsOK, Resting
<1>3. EditingOK'
  BY DEF EditingOK
<1> QED BY <1>1, <1>2, <1>3

-----------------------------------------------------------------------------
\* The marks are causes.
LEMMA ClashCause ==
  \A p \in Applier, i \in Item : Clash(p, i) \subseteq Cause
  BY DEF Clash, Cause

LEMMA MismatchCause == \A p \in Applier : Mismatch(p) \subseteq Cause
  BY DEF Mismatch, Cause

\* One step of apply_configs().
LEMMA PassStepType ==
  ASSUME TypeInv, NEW p \in Applier, PassStep(p) PROVE TypeInv'
<1> USE ConfigSyncAssumption DEF dbVars, localVars
<1>1. CASE HashCerts(p)
  <2>1. TypeOK'
    BY <1>1, ClashCause DEF TypeInv, TypeOK, HashCerts, Goto, Hurt, Item, InPass
  <2>2. LocalsOK' /\ EditingOK'
    BY <1>1 DEF TypeInv, TypeOK, LocalsOK, EditingOK, HashCerts, Goto, Item
  <2> QED BY <2>1, <2>2 DEF TypeInv
<1>2. CASE CheckCerts(p)
  <2>1. CASE Leave(p, Cert)
    BY <1>2, <2>1, LeaveType DEF TypeInv, TypeOK, CheckCerts, Item
  <2>2. CASE Goto(p, "open") /\ UNCHANGED <<cur, want, data, todo>>
    <3>1. TypeOK'
      BY <1>2, <2>2 DEF TypeInv, TypeOK, CheckCerts, Goto, InPass
    <3>2. LocalsOK' /\ EditingOK'
      BY <1>2, <2>2 DEF TypeInv, TypeOK, LocalsOK, EditingOK, CheckCerts, Goto
    <3> QED BY <3>1, <3>2 DEF TypeInv
  <2> QED BY <1>2, <2>1, <2>2 DEF CheckCerts
<1>3. CASE Open(p)
  <2>1. TypeOK'
    BY <1>3 DEF TypeInv, TypeOK, LocalsOK, Open, Goto, InPass, OnDisk, Item
  <2>2. LocalsOK' /\ EditingOK'
    BY <1>3 DEF TypeInv, TypeOK, LocalsOK, EditingOK, Open, Goto, Item
  <2> QED BY <2>1, <2>2 DEF TypeInv
<1>4. CASE Close(p)
  <2>1. TypeOK'
    BY <1>4 DEF TypeInv, TypeOK, LocalsOK, Close, Goto, InPass, OnDisk
  <2>2. LocalsOK' /\ EditingOK'
    BY <1>4 DEF TypeInv, TypeOK, LocalsOK, EditingOK, Close, Goto
  <2> QED BY <2>1, <2>2 DEF TypeInv
<1>5. CASE Save(p)
  <2>1. cur[p] \in Item /\ want[p][cur[p]] \in Version /\ pc[p] = "save"
    BY <1>5 DEF TypeInv, LocalsOK, Save
  <2>2. /\ stored' \in [Item -> Version \cup {None}]
        /\ applied' \in [Applier -> BOOLEAN]
        /\ hurt' \in SUBSET Cause
    BY <1>5, <2>1, MismatchCause DEF TypeInv, TypeOK, Save, Hurt
  <2> QED BY <1>5, <2>1, <2>2, LeaveType DEF TypeInv, TypeOK, Save
<1>6. ASSUME NEW f \in File, Generate(p, f) PROVE TypeInv'
  <2>1. /\ db[f] \in Version /\ want' = [want EXCEPT ![p][f] = db[f]]
        /\ want' \in [Applier -> [Item -> Version \cup {None}]]
        /\ want'[p][f] = db[f]
    BY <1>6 DEF TypeInv, TypeOK, Generate, Item
  <2>w. want' \in [Applier -> [Item -> Version \cup {None}]]
    BY <2>1
  <2>u. UNCHANGED <<db, editing, log, cursor, disk, stored, running, linked,
                    cur, data, applied, faults>>
    BY <1>6 DEF Generate
  <2>h. hurt' \in SUBSET Cause
    BY <1>6, ClashCause DEF TypeInv, TypeOK, Generate, Hurt, Item
  <2>2. CASE todo[p] = {f}
    <3> DEFINE S == {g \in File : Content[g][want'[p][g]] # Absent}
    <3>a. pc' = [pc EXCEPT ![p] = "next"] /\ todo' = [todo EXCEPT ![p] = S]
      BY <1>6, <2>2 DEF Generate, Goto
    <3>b. S \in SUBSET File
      OBVIOUS
    <3> HIDE DEF S
    <3>0. /\ pc' \in [Applier -> Resting \cup InPass]
          /\ todo' \in [Applier -> SUBSET File]
      BY <3>a, <3>b DEF TypeInv, TypeOK, InPass
    <3>1. TypeOK'
      BY <2>w, <2>u, <2>h, <3>0 DEF TypeInv, TypeOK
    <3>2. \A g \in File : want'[p][g] \in Version
      BY <1>6, <2>1, <2>2 DEF TypeInv, TypeOK, LocalsOK, Generate, Item
    <3>3. LocalsOK' /\ EditingOK'
      BY <1>6, <2>1, <2>2, <3>2
      DEF TypeInv, TypeOK, LocalsOK, EditingOK, Generate, Goto
    <3> QED BY <3>1, <3>3 DEF TypeInv
  <2>3. CASE todo[p] # {f}
    <3>a. pc' = pc /\ todo' = [todo EXCEPT ![p] = @ \ {f}]
      BY <1>6, <2>3 DEF Generate
    <3>0. pc' = pc /\ todo' \in [Applier -> SUBSET File]
      BY <3>a DEF TypeInv, TypeOK
    <3>1. TypeOK'
      BY <2>w, <2>u, <2>h, <3>0 DEF TypeInv, TypeOK
    <3>2. LocalsOK' /\ EditingOK'
      BY <1>6, <2>1, <2>3
      DEF TypeInv, TypeOK, LocalsOK, EditingOK, Generate, Item
    <3> QED BY <3>1, <3>2 DEF TypeInv
  <2> QED BY <2>2, <2>3
<1>7. ASSUME NEW f \in File, NextFile(p, f) PROVE TypeInv'
  <2>0. /\ pc' \in [Applier -> Resting \cup InPass]
        /\ cur' \in [Applier -> Item \cup {None}]
        /\ todo' \in [Applier -> SUBSET File]
    <3>1. CASE UNCHANGED <<pc, cur>> /\ todo' = [todo EXCEPT ![p] = @ \ {f}]
      BY <3>1 DEF TypeInv, TypeOK
    <3>2. CASE /\ cur' = [cur EXCEPT ![p] = f] /\ Goto(p, "open")
               /\ todo' = [todo EXCEPT ![p] = @ \ {f}]
      BY <3>2 DEF TypeInv, TypeOK, Goto, InPass, Item
    <3> QED BY <1>7, <3>1, <3>2 DEF NextFile
  <2>a. want' \in [Applier -> [Item -> Version \cup {None}]]
    <3>1. want' \in {want, [want EXCEPT ![p][f] = None]}
      BY <1>7 DEF NextFile
    <3>2. [want EXCEPT ![p][f] = None] \in [Applier -> [Item -> Version \cup {None}]]
      BY DEF TypeInv, TypeOK, Item
    <3> QED BY <3>1, <3>2 DEF TypeInv, TypeOK
  <2>u. UNCHANGED <<db, editing, log, cursor, disk, stored, running, linked,
                    data, applied, faults, hurt>>
    BY <1>7 DEF NextFile
  <2>1. TypeOK'
    BY <2>0, <2>a, <2>u DEF TypeInv, TypeOK
  <2>2. LocalsOK' /\ EditingOK'
    BY <1>7 DEF TypeInv, TypeOK, LocalsOK, EditingOK, NextFile, Goto, Item
  <2> QED BY <2>1, <2>2 DEF TypeInv
<1>8. CASE Finish(p)
  <2>1. CASE p = "watcher" /\ applied[p]
    <3>1. TypeOK'
      BY <1>8, <2>1 DEF TypeInv, TypeOK, Finish, Goto, InPass
    <3>2. LocalsOK' /\ EditingOK'
      BY <1>8, <2>1 DEF TypeInv, TypeOK, LocalsOK, EditingOK, Finish, Goto
    <3> QED BY <3>1, <3>2 DEF TypeInv
  <2>2. CASE ~(p = "watcher" /\ applied[p])
    <3>1. EndPass(p, Rest(p)) /\ Rest(p) \in Resting
      BY <1>8, <2>2 DEF Finish, Rest, Resting
    <3> QED BY <1>8, <3>1, EndPassType DEF TypeInv, TypeOK, Finish
  <2> QED BY <2>1, <2>2
<1> QED BY <1>1, <1>2, <1>3, <1>4, <1>5, <1>6, <1>7, <1>8 DEF PassStep

\* The watcher's loop and the start of radiusd.
LEMMA LoopType ==
  ASSUME TypeInv,
         Start("watcher") \/ Start("entrypoint") \/ Deliver \/ Reconcile
           \/ Hup \/ Exec
  PROVE  TypeInv'
<1> USE ConfigSyncAssumption DEF dbVars, localVars
<1>1. ASSUME NEW p \in Applier, Start(p) PROVE TypeInv'
  <2>1. TypeOK'
    BY <1>1 DEF TypeInv, TypeOK, Start, Goto, InPass
  <2>2. LocalsOK' /\ EditingOK'
    BY <1>1 DEF TypeInv, TypeOK, LocalsOK, EditingOK, Start, Goto
  <2> QED BY <2>1, <2>2 DEF TypeInv
<1>2. CASE Deliver
  <2>0. cursor' \in 0 .. log'
    BY <1>2 DEF TypeInv, TypeOK, Deliver
  <2>1. TypeOK'
    BY <1>2, <2>0 DEF TypeInv, TypeOK, Deliver, Goto, InPass
  <2>2. LocalsOK' /\ EditingOK'
    BY <1>2 DEF TypeInv, TypeOK, LocalsOK, EditingOK, Deliver, Goto
  <2> QED BY <2>1, <2>2 DEF TypeInv
<1>3. CASE Reconcile
  <2>1. TypeOK'
    BY <1>3 DEF TypeInv, TypeOK, Reconcile, Goto, InPass
  <2>2. LocalsOK' /\ EditingOK'
    BY <1>3 DEF TypeInv, TypeOK, LocalsOK, EditingOK, Reconcile, Goto
  <2> QED BY <2>1, <2>2 DEF TypeInv
<1>4. CASE Hup
  <2>1. running' \in [Item -> OnDisk] /\ hurt' \in SUBSET Cause
    BY <1>4 DEF TypeInv, TypeOK, Hup, Hurt, Cause
  <2>2. "idle" \in Resting /\ "watcher" \in Applier
    BY DEF Resting, Applier
  <2> QED BY <1>4, <2>1, <2>2, EndPassType DEF TypeInv, TypeOK, Hup
<1>5. CASE Exec
  <2>1. TypeOK'
    BY <1>5 DEF TypeInv, TypeOK, Exec, Goto, Resting
  <2>2. LocalsOK' /\ EditingOK'
    BY <1>5 DEF TypeInv, TypeOK, LocalsOK, EditingOK, Exec, Goto
  <2> QED BY <2>1, <2>2 DEF TypeInv
<1> QED BY <1>1, <1>2, <1>3, <1>4, <1>5 DEF Applier

\* The failures.
LEMMA FailureType == ASSUME TypeInv, Failure PROVE TypeInv'
<1> USE ConfigSyncAssumption DEF dbVars, localVars
<1>f. Fault => faults' \in 0 .. MaxFaults
  BY DEF TypeInv, TypeOK, Fault
<1>c. \A q \in Applier : LostReload(q) \subseteq Cause /\ Unsaved(q) \subseteq Cause
  BY DEF LostReload, Unsaved, Recut, Cause
<1>u. \A q \in Applier : Unserved(q) \subseteq Cause
  BY DEF Unserved, Cause
<1>1. CASE HupFails
  <2>1. faults' \in 0 .. MaxFaults /\ hurt' \in SUBSET Cause
    BY <1>1, <1>f, <1>c DEF HupFails, Hurt, TypeInv, TypeOK, Applier
  <2>2. "idle" \in Resting /\ "watcher" \in Applier
    BY DEF Resting, Applier
  <2> QED BY <1>1, <2>1, <2>2, EndPassType DEF TypeInv, TypeOK, HupFails
<1>2. CASE Resubscribe
  <2>1. TypeOK'
    BY <1>2, <1>f DEF TypeInv, TypeOK, Resubscribe
  <2>2. LocalsOK' /\ EditingOK'
    BY <1>2 DEF TypeInv, LocalsOK, EditingOK, Resubscribe
  <2> QED BY <2>1, <2>2 DEF TypeInv
<1>3. ASSUME NEW p \in Applier, WriteFails(p) PROVE TypeInv'
  <2>1. /\ cur[p] \in Item /\ want[p][cur[p]] \in Version
        /\ pc[p] \in {"open", "close"}
    BY <1>3 DEF TypeInv, LocalsOK, WriteFails
  <2>2. faults' \in 0 .. MaxFaults /\ hurt' \in SUBSET Cause
    BY <1>3, <1>f, <1>c DEF WriteFails, Hurt, TypeInv, TypeOK, Cause
  <2>3. stored' \in [Item -> Version \cup {None}]
    BY <1>3, <2>1 DEF WriteFails, TypeInv, TypeOK
  <2> QED BY <1>3, <2>1, <2>2, <2>3, LeaveType DEF TypeInv, TypeOK, WriteFails
<1>4. ASSUME NEW p \in Applier, SaveLost(p) PROVE TypeInv'
  <2>1. cur[p] \in Item /\ pc[p] = "save"
    BY <1>4 DEF TypeInv, LocalsOK, SaveLost
  <2>2. faults' \in 0 .. MaxFaults /\ hurt' \in SUBSET Cause
    BY <1>4, <1>f DEF SaveLost, Hurt, TypeInv, TypeOK, Cause
  <2>3. applied' \in [Applier -> BOOLEAN]
    BY <1>4 DEF SaveLost, TypeInv, TypeOK
  <2> QED BY <1>4, <2>1, <2>2, <2>3, LeaveType DEF TypeInv, TypeOK, SaveLost
<1>5. ASSUME NEW p \in Applier, HashUnreadable(p) PROVE TypeInv'
  <2>a. /\ pc' \in [Applier -> Resting \cup InPass]
        /\ cur' \in [Applier -> Item \cup {None}]
        /\ todo' \in [Applier -> SUBSET File]
    <3>1. pc' \in [Applier -> Resting \cup InPass]
      BY <1>5 DEF TypeInv, TypeOK, HashUnreadable, Goto, InPass
    <3>2. CASE UNCHANGED <<cur, todo>>
      BY <3>1, <3>2 DEF TypeInv, TypeOK
    <3>3. ASSUME NEW f \in todo[p], cur' = [cur EXCEPT ![p] = f],
                 todo' = [todo EXCEPT ![p] = @ \ {f}]
          PROVE  /\ cur' \in [Applier -> Item \cup {None}]
                 /\ todo' \in [Applier -> SUBSET File]
      BY <3>3 DEF TypeInv, TypeOK, Item
    <3> QED BY <1>5, <3>1, <3>2, <3>3 DEF HashUnreadable
  <2>u. UNCHANGED <<db, editing, log, cursor, disk, stored, running, linked,
                    want, data, applied, hurt>>
    BY <1>5 DEF HashUnreadable
  <2>1. TypeOK'
    BY <1>5, <1>f, <2>a, <2>u DEF TypeInv, TypeOK, HashUnreadable
  <2>2. LocalsOK' /\ EditingOK'
    BY <1>5 DEF TypeInv, TypeOK, LocalsOK, EditingOK, HashUnreadable, Goto, Item
  <2> QED BY <2>1, <2>2 DEF TypeInv
<1>6. ASSUME NEW p \in Applier, DbDown(p) PROVE TypeInv'
  <2>1. faults' \in 0 .. MaxFaults /\ hurt' \in SUBSET Cause
    BY <1>6, <1>f, <1>c DEF DbDown, Hurt, TypeInv, TypeOK
  <2>2. UNCHANGED <<dbVars, cursor, disk, stored, running, linked>>
    BY <1>6 DEF DbDown
  <2>3. CASE /\ pc[p] \in {"hash", "check", "save"}
             /\ Leave(p, Cert) /\ UNCHANGED applied
    <3>1. Cert \in Item
      BY DEF Item
    <3> QED BY <2>1, <2>2, <2>3, <3>1, LeaveType DEF TypeInv, TypeOK
  <2>4. CASE EndPass(p, Rest(p))
    <3>1. Rest(p) \in Resting
      BY DEF Rest, Resting
    <3> QED BY <2>1, <2>2, <2>4, <3>1, EndPassType DEF TypeInv, TypeOK
  <2> QED BY <1>6, <2>3, <2>4 DEF DbDown
<1>7. ASSUME NEW p \in Applier, Crash(p) PROVE TypeInv'
  <2>1. faults' \in 0 .. MaxFaults /\ hurt' \in SUBSET Cause
    BY <1>7, <1>f, <1>c DEF Crash, Hurt, TypeInv, TypeOK
  <2>2. "off" \in Resting
    BY DEF Resting
  <2> QED BY <1>7, <2>1, <2>2, EndPassType DEF TypeInv, TypeOK, Crash
<1>8. ASSUME NEW p \in Applier, SaveRaises(p) PROVE TypeInv'
  <2>1. cur[p] \in Item /\ want[p][cur[p]] \in Version /\ pc[p] = "save"
    BY <1>8 DEF TypeInv, LocalsOK, SaveRaises
  <2>2. faults' \in 0 .. MaxFaults /\ hurt' \in SUBSET Cause
    BY <1>8, <1>f, <1>u, MismatchCause DEF SaveRaises, Hurt, TypeInv, TypeOK, Cause
  <2>3. stored' \in [Item -> Version \cup {None}]
    BY <1>8, <2>1 DEF SaveRaises, TypeInv, TypeOK
  <2> QED BY <1>8, <2>1, <2>2, <2>3, LeaveType DEF TypeInv, TypeOK, SaveRaises
<1> QED BY <1>1, <1>2, <1>3, <1>4, <1>5, <1>6, <1>7, <1>8 DEF Failure

\* Every step keeps the types and the locals in order.
LEMMA StepType == TypeInv /\ [Next]_vars => TypeInv'
<1> SUFFICES ASSUME TypeInv, [Next]_vars PROVE TypeInv'
  OBVIOUS
<1>1. CASE WatcherStep
  BY <1>1, LoopType, PassStepType DEF WatcherStep, Applier
<1>2. CASE EntrypointStep
  BY <1>2, LoopType, PassStepType DEF EntrypointStep, Applier
<1>3. CASE Gateway
  BY <1>3, GatewayType
<1>4. CASE Failure
  BY <1>4, FailureType
<1>5. CASE UNCHANGED vars
  BY <1>5 DEF TypeInv, TypeOK, LocalsOK, EditingOK, vars
<1> QED BY <1>1, <1>2, <1>3, <1>4, <1>5 DEF Next

\* Every variable keeps its type, and an applier never uses a local it has
\* not read in the current pass.
THEOREM TypeCorrect == Spec => []TypeOK
<1>1. Init => TypeInv
  BY InitTypeInv
<1>2. TypeInv /\ [Next]_vars => TypeInv'
  BY StepType
<1>3. TypeInv => TypeOK
  BY DEF TypeInv
<1> QED BY <1>1, <1>2, <1>3, PTL DEF Spec

-----------------------------------------------------------------------------
USE DEF Harm

(* The recorded hash, the file and radiusd.                                  *)

\* The hash that decides whether a write is skipped describes the bytes on
\* disk, as long as nothing harmful has happened: Exec loads the disk, and what
\* radiusd then serves has to be what is recorded.
RecordMatchesDisk ==
  Harm = {} =>
    \A i \in Item : (\A p \in Applier : ~Writing(p, i)) => disk[i] = stored[i]

\* radiusd has loaded nothing from a file that was never written.
NothingFromNowhere == \A i \in Item : disk[i] = None => running[i] = None

\* Marks that are no harm change nothing here.
LEMMA ClashHarmless ==
  ASSUME NEW p \in Applier, NEW i \in Item, Hurt(Clash(p, i))
  PROVE  Harm' = Harm /\ hurt \subseteq hurt'
  BY DEF Harm, Hurt, Clash

SafeInv == RecordMatchesDisk /\ ServedMatchesRecord /\ NothingFromNowhere

\* Nothing is recorded, written or served initially.
LEMMA InitSafeInv == Init => SafeInv
  BY DEF Init, SafeInv, RecordMatchesDisk, ServedMatchesRecord,
         NothingFromNowhere

\* A step that leaves the shared copies alone, and during which no applier
\* enters or leaves a write or takes back an owed SIGHUP, is harmless.
Quiet ==
  /\ UNCHANGED <<disk, stored, running>>
  /\ Harm \subseteq Harm'
  /\ \A p \in Applier :
       (Harm' = {} /\ {pc[p], pc'[p]} \cap {"close", "save"} # {}) =>
         pc'[p] \in {"close", "save"} /\ pc[p] \in {"close", "save"}
           /\ cur'[p] = cur[p]
  /\ pc'["entrypoint"] = "run" => pc["entrypoint"] = "run"
  /\ (Harm' = {} /\ pc'["entrypoint"] = "run" /\ applied["watcher"])
       => applied'["watcher"]

\* Quiet steps keep the copies in agreement.
LEMMA QuietStep == ASSUME SafeInv, Quiet PROVE SafeInv'
<1> USE DEF SafeInv
<1>1. \A p \in Applier, i \in Item :
        Harm' = {} => (Writing(p, i)' <=> Writing(p, i))
  BY DEF Quiet, Writing
<1>2. RecordMatchesDisk'
  BY <1>1 DEF RecordMatchesDisk, Quiet
<1>3. ServedMatchesRecord'
  BY <1>1 DEF ServedMatchesRecord, Applier, Quiet
<1>4. NothingFromNowhere'
  BY DEF NothingFromNowhere, Quiet
<1> QED BY <1>2, <1>3, <1>4

\* The usual case: applier p moves between points outside a write.
QuietMove(p, from, to) ==
  /\ pc[p] = from /\ pc' = [pc EXCEPT ![p] = to]
  /\ \A q \in Applier \ {p} : cur'[q] = cur[q]
  /\ UNCHANGED <<disk, stored, running>> /\ Harm \subseteq Harm'
  /\ (Harm' = {} /\ pc'["entrypoint"] = "run" /\ applied["watcher"])
       => applied'["watcher"]

\* A quiet move is a quiet step.
LEMMA QuietMoveStep ==
  ASSUME TypeOK, SafeInv, NEW p \in Applier,
         NEW from \in (Resting \cup InPass) \ {"close", "save"},
         NEW to \in (Resting \cup InPass) \ {"close", "save", "run"},
         QuietMove(p, from, to)
  PROVE  SafeInv'
<1>1. \A q \in Applier : \/ q # p /\ pc'[q] = pc[q] /\ cur'[q] = cur[q]
                         \/ q = p /\ pc[q] = from /\ pc'[q] = to
  BY DEF TypeOK, QuietMove
<1>2. /\ UNCHANGED <<disk, stored, running>> /\ Harm \subseteq Harm'
      /\ (Harm' = {} /\ pc'["entrypoint"] = "run" /\ applied["watcher"])
           => applied'["watcher"]
  BY DEF QuietMove
<1>3. Quiet
  BY <1>1, <1>2 DEF Quiet, Applier
<1> QED BY <1>3, QuietStep

\* A step of apply_configs() keeps the copies in agreement.
LEMMA PassStepSafe ==
  ASSUME TypeInv, SafeInv, NEW p \in Applier, PassStep(p) PROVE SafeInv'
<1> USE DEF TypeInv
<1>1. CASE HashCerts(p)
  <2>1. Quiet
    BY <1>1, ClashHarmless DEF HashCerts, Goto, Quiet, TypeOK, Item
  <2> QED BY <2>1, QuietStep
<1>2. CASE CheckCerts(p)
  <2>1. /\ pc[p] = "check" /\ UNCHANGED <<disk, stored, running, hurt, applied>>
        /\ \A q \in Applier \ {p} : cur'[q] = cur[q]
    BY <1>2 DEF CheckCerts, Leave, TypeOK
  <2>2. pc' = [pc EXCEPT ![p] = "gen"] \/ pc' = [pc EXCEPT ![p] = "open"]
    BY <1>2 DEF CheckCerts, Leave, After, Goto
  <2>3. QuietMove(p, "check", "gen") \/ QuietMove(p, "check", "open")
    BY <2>1, <2>2 DEF QuietMove
  <2> QED BY <2>3, QuietMoveStep DEF Resting, InPass
<1>3. CASE Open(p)
  <2>1. /\ Writing(p, cur[p])' /\ cur' = cur
        /\ \A q \in Applier, i \in Item \ {cur[p]} : Writing(q, i)' <=> Writing(q, i)
        /\ \A i \in Item \ {cur[p]} : disk'[i] = disk[i]
        /\ disk'[cur[p]] # None
        /\ UNCHANGED <<stored, running, hurt, applied>>
        /\ pc'["entrypoint"] = "run" => pc["entrypoint"] = "run"
    BY <1>3, ConfigSyncAssumption DEF Open, Goto, Writing, TypeOK, LocalsOK
  <2>2. RecordMatchesDisk'
    BY <2>1 DEF SafeInv, RecordMatchesDisk
  <2>3. ServedMatchesRecord'
    BY <2>1, <1>3 DEF SafeInv, ServedMatchesRecord, Applier, Open, Goto, TypeOK,
                      Writing
  <2>4. NothingFromNowhere'
    BY <2>1 DEF SafeInv, NothingFromNowhere
  <2> QED BY <2>2, <2>3, <2>4 DEF SafeInv
<1>4. CASE Close(p)
  <2>1. /\ Writing(p, cur[p])' /\ cur' = cur
        /\ \A q \in Applier, i \in Item : Writing(q, i)' <=> Writing(q, i)
        /\ \A i \in Item \ {cur[p]} : disk'[i] = disk[i]
        /\ disk'[cur[p]] # None
        /\ UNCHANGED <<stored, running, hurt, applied>>
        /\ pc'["entrypoint"] = "run" => pc["entrypoint"] = "run"
    BY <1>4, ConfigSyncAssumption DEF Close, Goto, Writing, TypeOK, LocalsOK
  <2>2. RecordMatchesDisk'
    BY <2>1 DEF SafeInv, RecordMatchesDisk
  <2>3. ServedMatchesRecord'
    BY <2>1 DEF SafeInv, ServedMatchesRecord, Applier
  <2>4. NothingFromNowhere'
    BY <2>1 DEF SafeInv, NothingFromNowhere
  <2> QED BY <2>2, <2>3, <2>4 DEF SafeInv
<1>5. CASE Save(p)
  <2>1. /\ cur[p] \in Item
        /\ stored' = [stored EXCEPT ![cur[p]] = want[p][cur[p]]]
        /\ UNCHANGED <<disk, running>>
        /\ Harm' = {} => Harm = {} /\ disk[cur[p]] = want[p][cur[p]]
        /\ pc'["entrypoint"] = "run" => pc["entrypoint"] = "run" /\ p = "watcher"
        /\ applied'[p]
    <3>1. /\ cur[p] \in Item
          /\ stored' = [stored EXCEPT ![cur[p]] = want[p][cur[p]]]
          /\ UNCHANGED <<disk, running>>
          /\ applied'[p]
      BY <1>5 DEF Save, TypeOK, LocalsOK
    <3>2. Harm' = {} => Harm = {} /\ disk[cur[p]] = want[p][cur[p]]
      BY <1>5 DEF Save, Mismatch, Hurt
    <3>3. pc'["entrypoint"] = "run" => pc["entrypoint"] = "run" /\ p = "watcher"
      BY <1>5 DEF Save, Leave, After, Goto, TypeOK, Applier
    <3> QED BY <3>1, <3>2, <3>3
  <2>2. \A q \in Applier, i \in Item :
          Writing(q, i) => Writing(q, i)' \/ (q = p /\ i = cur[p])
    BY <1>5 DEF Save, Leave, After, Goto, TypeOK, Writing
  <2>3. RecordMatchesDisk'
    BY <2>1, <2>2 DEF SafeInv, RecordMatchesDisk, TypeOK
  <2>4. ServedMatchesRecord'
    BY <2>1 DEF ServedMatchesRecord
  <2>5. NothingFromNowhere'
    BY <2>1 DEF SafeInv, NothingFromNowhere
  <2> QED BY <2>3, <2>4, <2>5 DEF SafeInv
<1>6. ASSUME NEW f \in File, Generate(p, f) PROVE SafeInv'
  <2>1. QuietMove(p, "gen", "gen") \/ QuietMove(p, "gen", "next")
    BY <1>6, ClashHarmless DEF Generate, Goto, QuietMove, TypeOK, Item
  <2> QED BY <2>1, QuietMoveStep DEF Resting, InPass
<1>7. ASSUME NEW f \in File, NextFile(p, f) PROVE SafeInv'
  <2>1. \A q \in Applier \ {p} : cur'[q] = cur[q]
    BY <1>7 DEF NextFile, TypeOK
  <2>2. QuietMove(p, "next", "next") \/ QuietMove(p, "next", "open")
    BY <1>7, <2>1 DEF NextFile, Goto, QuietMove, TypeOK
  <2> QED BY <2>2, QuietMoveStep DEF Resting, InPass
<1>8. CASE Finish(p)
  <2>1. CASE p = "watcher" /\ applied[p]
    <3>1. QuietMove(p, "next", "hup")
      BY <1>8, <2>1 DEF Finish, Goto, QuietMove
    <3> QED BY <3>1, QuietMoveStep DEF Resting, InPass
  <2>2. CASE ~(p = "watcher" /\ applied[p])
    <3>1. /\ pc[p] = "next"
          /\ \/ pc' = [pc EXCEPT ![p] = "idle"]
             \/ pc' = [pc EXCEPT ![p] = "exec"]
          /\ UNCHANGED <<disk, stored, running, hurt>>
      BY <1>8, <2>2 DEF Finish, EndPass, Goto, Rest
    <3>2. \A q \in Applier \ {p} : cur'[q] = cur[q]
      BY <1>8, <2>2 DEF Finish, EndPass, TypeOK
    <3>3. applied["watcher"] => applied'["watcher"]
      BY <1>8, <2>2 DEF Finish, EndPass, TypeOK, Applier
    <3>4. QuietMove(p, "next", "idle") \/ QuietMove(p, "next", "exec")
      BY <3>1, <3>2, <3>3 DEF QuietMove
    <3> QED BY <3>4, QuietMoveStep DEF Resting, InPass
  <2> QED BY <2>1, <2>2
<1> QED BY <1>1, <1>2, <1>3, <1>4, <1>5, <1>6, <1>7, <1>8 DEF PassStep

\* So do the watcher's loop, SIGHUP and the start of radiusd.
LEMMA LoopSafe ==
  ASSUME TypeInv, SafeInv,
         Start("watcher") \/ Start("entrypoint") \/ Deliver \/ Reconcile
           \/ Hup \/ Exec
  PROVE  SafeInv'
<1> USE DEF TypeInv
<1>w. {"watcher", "entrypoint"} = Applier
  BY DEF Applier
<1>1. ASSUME NEW p \in Applier, Start(p) PROVE SafeInv'
  <2>1. QuietMove(p, "off", "hash")
    BY <1>1 DEF Start, Goto, QuietMove
  <2> QED BY <2>1, QuietMoveStep DEF Resting, InPass
<1>2. CASE Deliver \/ Reconcile
  <2>1. QuietMove("watcher", "idle", "hash")
    BY <1>2 DEF Deliver, Reconcile, Goto, QuietMove
  <2> QED BY <2>1, <1>w, QuietMoveStep DEF Resting, InPass
<1>3. CASE Hup /\ pc["entrypoint"] # "run"
  <2>1. /\ pc["watcher"] = "hup" /\ pc' = [pc EXCEPT !["watcher"] = "idle"]
        /\ UNCHANGED <<disk, stored, running, hurt>>
    BY <1>3 DEF Hup, EndPass, Goto
  <2>2. \A q \in Applier \ {"watcher"} : cur'[q] = cur[q]
    BY <1>3 DEF Hup, EndPass, TypeOK
  <2>3. pc'["entrypoint"] # "run"
    BY <2>1, <1>3 DEF TypeOK, Applier
  <2>4. QuietMove("watcher", "hup", "idle")
    BY <2>1, <2>2, <2>3 DEF QuietMove
  <2> QED BY <2>4, <1>w, QuietMoveStep DEF Resting, InPass
<1>4. CASE Hup /\ pc["entrypoint"] = "run"
  \* Nobody is writing: the watcher is about to signal, the entrypoint's
  \* process has become radiusd.
  <2>1. pc["watcher"] = "hup" /\ \A p \in Applier, i \in Item : ~Writing(p, i)
    BY <1>4 DEF Hup, Writing, Applier
  <2>2. /\ UNCHANGED <<disk, stored>>
        /\ \A i \in Item : running'[i] \in {running[i], disk[i]}
        /\ Harm' = {} => Harm = {} /\ \A f \in File \ linked : disk[f] = running[f]
        /\ \A i \in linked \cup {Cert} :
             disk[i] \notin {None, Torn} => running'[i] = disk[i]
    <3>1. /\ UNCHANGED <<disk, stored>>
          /\ \A i \in Item : running'[i] \in {running[i], disk[i]}
          /\ \A i \in linked \cup {Cert} :
               disk[i] \notin {None, Torn} => running'[i] = disk[i]
      BY <1>4 DEF Hup, TypeOK, Item
    <3>2. Harm' = {} => Harm = {} /\ \A f \in File \ linked : disk[f] = running[f]
      BY <1>4 DEF Hup, Hurt
    <3> QED BY <3>1, <3>2
  <2>3. RecordMatchesDisk'
    <3>1. Harm' = {} => \A i \in Item : disk[i] = stored[i]
      BY <2>1, <2>2 DEF SafeInv, RecordMatchesDisk
    <3> QED BY <3>1, <2>2 DEF RecordMatchesDisk
  <2>4. NothingFromNowhere'
    BY <2>2 DEF SafeInv, NothingFromNowhere
  <2>5. ServedMatchesRecord'
    <3> SUFFICES ASSUME Harm' = {}, NEW i \in Item PROVE running'[i] = stored'[i]
      BY DEF ServedMatchesRecord
    <3>1. disk[i] = stored[i] /\ disk[i] # Torn
      BY <2>1, <2>2, ConfigSyncAssumption DEF SafeInv, RecordMatchesDisk, TypeOK
    <3>2. CASE disk[i] = None
      BY <3>1, <3>2, <2>2 DEF SafeInv, NothingFromNowhere
    <3>3. CASE disk[i] # None /\ i \in linked \cup {Cert}
      BY <3>1, <3>3, <2>2
    <3>4. CASE i \in File \ linked
      BY <3>1, <3>4, <2>2
    <3> QED BY <3>2, <3>3, <3>4 DEF Item
  <2> QED BY <2>3, <2>4, <2>5 DEF SafeInv
<1>5. CASE Exec
  <2>1. /\ pc["entrypoint"] = "exec" /\ UNCHANGED <<disk, stored, hurt, cur, applied>>
        /\ \/ running' = disk /\ pc' = [pc EXCEPT !["entrypoint"] = "run"]
           \/ running' = running /\ pc' = [pc EXCEPT !["entrypoint"] = "off"]
    BY <1>5 DEF Exec, Goto
  <2>2. \A p \in Applier, i \in Item : Writing(p, i)' <=> Writing(p, i)
    BY <2>1 DEF Writing, TypeOK
  <2>3. \A i \in Item : ~Writing("entrypoint", i)
    BY <2>1 DEF Writing
  <2>4. RecordMatchesDisk'
    BY <2>1, <2>2 DEF SafeInv, RecordMatchesDisk
  <2>5. NothingFromNowhere'
    BY <2>1 DEF SafeInv, NothingFromNowhere
  <2>6. ServedMatchesRecord'
    <3>1. CASE running' = disk
      BY <2>1, <2>2, <2>3, <3>1
      DEF SafeInv, RecordMatchesDisk, ServedMatchesRecord, Applier
    <3>2. CASE pc' = [pc EXCEPT !["entrypoint"] = "off"]
      BY <3>2 DEF ServedMatchesRecord, TypeOK, Applier
    <3> QED BY <2>1, <3>1, <3>2
  <2> QED BY <2>4, <2>5, <2>6 DEF SafeInv
<1> QED BY <1>1, <1>2, <1>3, <1>4, <1>5, <1>w

\* After a failure that the code does not repair nothing is promised; only
\* the bookkeeping of what was ever written has to survive.
LEMMA HurtStep ==
  ASSUME SafeInv, Harm' # {}, UNCHANGED <<disk, running>> PROVE SafeInv'
  BY DEF SafeInv, RecordMatchesDisk, ServedMatchesRecord, NothingFromNowhere

\* A failure that drops applier p's pass either leaves its mark in hurt or
\* strikes outside a write, when p owes radiusd no SIGHUP.
LEMMA DropPassSafe ==
  ASSUME TypeOK, SafeInv, NEW p \in Applier,
         NEW to \in (Resting \cup InPass) \ {"close", "save", "run"},
         EndPass(p, to), hurt' = hurt \cup Unsaved(p) \cup LostReload(p),
         UNCHANGED <<disk, stored, running>>
  PROVE  SafeInv'
<1>1. CASE Harm' # {}
  BY <1>1, HurtStep
<1>2. CASE Harm' = {}
  <2>u. "unsaved" \notin Unsaved(p)
    BY <1>2
  <2>1. pc[p] \in (Resting \cup InPass) \ {"close", "save"}
    BY <2>u DEF Unsaved, TypeOK
  <2>2. ~(p = "watcher" /\ applied[p] /\ pc["entrypoint"] = "run")
    BY <1>2 DEF LostReload
  <2>3. pc' = [pc EXCEPT ![p] = to] /\ applied' = [applied EXCEPT ![p] = FALSE]
    BY DEF EndPass, Goto
  <2>4. \A q \in Applier \ {p} : cur'[q] = cur[q]
    BY DEF EndPass, TypeOK
  <2>5. pc'["entrypoint"] = "run" /\ applied["watcher"] => applied'["watcher"]
    BY <2>2, <2>3 DEF TypeOK, Applier
  <2>6. QuietMove(p, pc[p], to)
    BY <1>2, <2>3, <2>4, <2>5 DEF QuietMove
  <2> QED BY <2>1, <2>6, QuietMoveStep
<1> QED BY <1>1, <1>2

\* A failure does, or marks what is no longer promised.
LEMMA FailureSafe == ASSUME TypeInv, SafeInv, Failure PROVE SafeInv'
<1> USE DEF TypeInv
<1>w. "watcher" \in Applier
  BY DEF Applier
<1>r. {"idle", "exec", "off"}
        \subseteq (Resting \cup InPass) \ {"close", "save", "run"}
  BY DEF Resting, InPass
<1>1. CASE HupFails
  <2>1. /\ EndPass("watcher", "idle")
        /\ hurt' = hurt \cup Unsaved("watcher") \cup LostReload("watcher")
        /\ UNCHANGED <<disk, stored, running>>
    BY <1>1 DEF HupFails, Hurt, Unsaved, Recut
  <2> QED BY <2>1, <1>w, <1>r, DropPassSafe
<1>2. CASE Resubscribe
  <2>1. Quiet
    BY <1>2 DEF Resubscribe, localVars, Quiet
  <2> QED BY <2>1, QuietStep
<1>3. ASSUME NEW p \in Applier, WriteFails(p) PROVE SafeInv'
  <2>1. CASE pc[p] = "open" /\ cur[p] = Cert
    <3>1. \A q \in Applier \ {p} : cur'[q] = cur[q]
      BY <1>3 DEF WriteFails, Leave, TypeOK
    <3>2. pc' = [pc EXCEPT ![p] = "gen"]
      BY <1>3, <2>1 DEF WriteFails, Leave, After, Goto
    <3>3. QuietMove(p, "open", "gen")
      BY <1>3, <2>1, <3>1, <3>2 DEF WriteFails, Hurt, QuietMove
    <3> QED BY <3>3, QuietMoveStep DEF Resting, InPass
  <2>2. CASE ~(pc[p] = "open" /\ cur[p] = Cert)
    <3>1. Harm' # {} /\ UNCHANGED <<disk, running>>
      BY <1>3, <2>2 DEF WriteFails, Hurt, Unsaved
    <3> QED BY <3>1, HurtStep
  <2> QED BY <2>1, <2>2
<1>4. ASSUME NEW p \in Applier, SaveLost(p) PROVE SafeInv'
  BY <1>4, HurtStep DEF SaveLost, Hurt
<1>5. ASSUME NEW p \in Applier, HashUnreadable(p) PROVE SafeInv'
  <2>1. \A q \in Applier \ {p} : cur'[q] = cur[q]
    BY <1>5 DEF HashUnreadable, TypeOK
  <2>2. QuietMove(p, "check", "open") \/ QuietMove(p, "next", "open")
    BY <1>5, <2>1 DEF HashUnreadable, Goto, QuietMove
  <2> QED BY <2>2, QuietMoveStep DEF Resting, InPass
<1>6. ASSUME NEW p \in Applier, DbDown(p) PROVE SafeInv'
  <2>1. UNCHANGED <<disk, stored, running>>
    BY <1>6 DEF DbDown
  <2>2. CASE pc[p] \in {"hash", "check"} /\ Leave(p, Cert)
    <3>1. \A q \in Applier \ {p} : cur'[q] = cur[q]
      BY <2>2 DEF Leave, TypeOK
    <3>2. pc' = [pc EXCEPT ![p] = "gen"]
      BY <2>2 DEF Leave, After, Goto
    <3>3. Harm \subseteq Harm' /\ UNCHANGED applied
      BY <1>6, <2>2 DEF DbDown, Hurt
    <3>4. QuietMove(p, "hash", "gen") \/ QuietMove(p, "check", "gen")
      BY <2>1, <2>2, <3>1, <3>2, <3>3 DEF QuietMove
    <3> QED BY <3>4, QuietMoveStep DEF Resting, InPass
  <2>3. CASE pc[p] = "save"
    <3>1. Harm' # {}
      BY <1>6, <2>3 DEF DbDown, Hurt, Unsaved
    <3> QED BY <2>1, <3>1, HurtStep
  <2>4. CASE /\ EndPass(p, Rest(p))
             /\ hurt' = hurt \cup Unsaved(p) \cup LostReload(p)
    <3>1. Rest(p) \in {"idle", "exec", "off"}
      BY DEF Rest
    <3> QED BY <2>1, <2>4, <3>1, <1>r, DropPassSafe
  <2> QED BY <1>6, <2>2, <2>3, <2>4 DEF DbDown, Hurt
<1>7. ASSUME NEW p \in Applier, Crash(p) PROVE SafeInv'
  <2>1. /\ EndPass(p, "off") /\ UNCHANGED <<disk, stored, running>>
        /\ hurt' = hurt \cup Unsaved(p) \cup LostReload(p)
    BY <1>7 DEF Crash, Hurt
  <2> QED BY <2>1, <1>r, DropPassSafe
<1>8. ASSUME NEW p \in Applier, SaveRaises(p) PROVE SafeInv'
  <2>1. CASE Harm' # {}
    BY <1>8, <2>1, HurtStep DEF SaveRaises
  <2>2. CASE Harm' = {}
    \* Then the item was saved, and the file and radiusd are as they should be.
    <3>1. /\ pc[p] = "save" /\ cur[p] \in Item /\ Leave(p, cur[p])
          /\ stored' = [stored EXCEPT ![cur[p]] = want[p][cur[p]]]
          /\ hurt' = hurt \cup Mismatch(p) \cup Unserved(p)
          /\ UNCHANGED <<disk, running, applied>>
      BY <1>8, <2>2 DEF SaveRaises, Hurt, LocalsOK
    <3>2. /\ Harm = {} /\ disk[cur[p]] = want[p][cur[p]]
          /\ ~(p = "watcher" /\ ~applied[p] /\ pc["entrypoint"] = "run")
      BY <2>2, <3>1 DEF Mismatch, Unserved
    <3>3. /\ pc' = [pc EXCEPT ![p] = After(cur[p])]
          /\ After(cur[p]) \in {"gen", "next"}
      BY <3>1 DEF Leave, Goto, After
    <3>4. \A q \in Applier, i \in Item :
            Writing(q, i) => Writing(q, i)' \/ (q = p /\ i = cur[p])
      BY <3>1, <3>3 DEF Leave, TypeOK, Writing
    <3>5. RecordMatchesDisk'
      BY <3>1, <3>2, <3>4 DEF SafeInv, RecordMatchesDisk, TypeOK
    <3>6. ~(pc'["entrypoint"] = "run" /\ ~applied'["watcher"])
      BY <3>1, <3>2, <3>3 DEF TypeOK, Applier
    <3>7. ServedMatchesRecord'
      BY <3>6 DEF ServedMatchesRecord
    <3>8. NothingFromNowhere'
      BY <3>1 DEF SafeInv, NothingFromNowhere
    <3> QED BY <3>5, <3>7, <3>8 DEF SafeInv
  <2> QED BY <2>1, <2>2
<1> QED BY <1>1, <1>2, <1>3, <1>4, <1>5, <1>6, <1>7, <1>8 DEF Failure

\* Every step keeps the copies in agreement.
LEMMA SafeStep == TypeInv /\ SafeInv /\ [Next]_vars => SafeInv'
<1> SUFFICES ASSUME TypeInv, SafeInv, [Next]_vars PROVE SafeInv'
  OBVIOUS
<1>1. CASE WatcherStep
  BY <1>1, LoopSafe, PassStepSafe DEF WatcherStep, Applier
<1>2. CASE EntrypointStep
  BY <1>2, LoopSafe, PassStepSafe DEF EntrypointStep, Applier
<1>3. CASE Gateway
  <2>1. UNCHANGED <<disk, stored, running, hurt, pc, cur, applied>>
    BY <1>3 DEF Gateway, RequestApply, Edit, SilentEdit, Commit, Rollback,
                localVars
  <2>2. Quiet
    BY <2>1 DEF Quiet
  <2> QED BY <2>2, QuietStep
<1>4. CASE Failure
  BY <1>4, FailureSafe
<1>5. CASE UNCHANGED vars
  <2>1. Quiet
    BY <1>5 DEF vars, Quiet
  <2> QED BY <2>1, QuietStep
<1> QED BY <1>1, <1>2, <1>3, <1>4, <1>5 DEF Next

\* The invariant behind the next theorem.
LEMMA Safe == Spec => []SafeInv
<1>1. Init => TypeInv /\ SafeInv
  BY InitTypeInv, InitSafeInv
<1>2. (TypeInv /\ SafeInv) /\ [Next]_vars => (TypeInv /\ SafeInv)'
  BY StepType, SafeStep
<1> QED BY <1>1, <1>2, PTL DEF Spec

\* Whenever the watcher owes no SIGHUP, radiusd has loaded what the gateway
\* reports as applied.
THEOREM ServedCorrect == Spec => []ServedMatchesRecord
<1>1. SafeInv => ServedMatchesRecord
  BY DEF SafeInv
<1> QED BY <1>1, Safe, PTL
-----------------------------------------------------------------------------
(* ConfigSync implements the safety part of ConfigService: whatever the      *)
(* appliers, the two processes and the failures do, radiusd only ever runs   *)
(* on texts that some transaction committed.                                 *)

\* The versions of item i that a transaction has committed.
Committed(i) == 0 .. db[i]

\* No copy is ahead of the database: not the files, not radiusd, not what an
\* applier has read or is writing.
NotAhead ==
  /\ \A i \in Item : {disk[i], running[i]} \subseteq Committed(i) \cup {None, Torn}
  /\ \A p \in Applier, i \in Item : want[p][i] \in Committed(i) \cup {None}
  /\ \A p \in Applier : pc[p] = "close" => data[p] \in Committed(cur[p])

\* A commit of one item, seen from the service.
Commits(i) ==
  /\ db[i] < MaxVersion /\ db' = [db EXCEPT ![i] = @ + 1]
  /\ UNCHANGED <<running, hurt>>

\* radiusd reads some of the files; it may read none, and failures may mark.
Loads ==
  /\ db' = db /\ hurt \subseteq hurt'
  /\ \A i \in Item : running'[i] \in {running[i], disk[i]}

\* Where the files, the values read and the value being written come from.
Sources ==
  /\ \A i \in Item :
       \/ disk'[i] \in {disk[i], Torn}
       \/ \E p \in Applier : pc[p] = "close" /\ cur[p] = i /\ disk'[i] = data[p]
  /\ \A p \in Applier, i \in Item : want'[p][i] \in {want[p][i], db[i], None}
  /\ \A p \in Applier : pc'[p] = "close" =>
       \/ pc[p] = "close" /\ cur'[p] = cur[p] /\ data'[p] = data[p]
       \/ /\ cur'[p] \in Item /\ data'[p] \in Version
          /\ data'[p] \in {db[cur'[p]], want[p][cur'[p]]}

\* Nothing is committed, loaded, read or written at the start.
LEMMA InitNotAhead == Init => NotAhead
  BY ConfigSyncAssumption DEF Init, NotAhead, Applier, Item, Committed

\* Leaving an item or a pass forgets values and reads none.
LEMMA LeaveSources ==
  ASSUME TypeInv, NEW p \in Applier, NEW i \in Item, Leave(p, i)
  PROVE  /\ \A q \in Applier, j \in Item : want'[q][j] \in {want[q][j], None}
         /\ \A q \in Applier : pc'[q] = "close" =>
              pc[q] = "close" /\ cur'[q] = cur[q] /\ data'[q] = data[q]
<1> USE DEF TypeInv, TypeOK
<1>1. \A q \in Applier, j \in Item : want'[q][j] \in {want[q][j], None}
  BY DEF Leave
<1>2. \A q \in Applier : pc'[q] = "close" =>
              pc[q] = "close" /\ cur'[q] = cur[q] /\ data'[q] = data[q]
  BY DEF Leave, After, Goto
<1> QED BY <1>1, <1>2

\* So does the end of a pass.
LEMMA EndPassSources ==
  ASSUME TypeInv, NEW p \in Applier, NEW label \in Resting, EndPass(p, label)
  PROVE  /\ \A q \in Applier, j \in Item : want'[q][j] \in {want[q][j], None}
         /\ \A q \in Applier : pc'[q] = "close" =>
              pc[q] = "close" /\ cur'[q] = cur[q] /\ data'[q] = data[q]
<1> USE DEF TypeInv, TypeOK
<1>1. \A q \in Applier, j \in Item : want'[q][j] \in {want[q][j], None}
  BY DEF EndPass
<1>2. \A q \in Applier : pc'[q] = "close" =>
              pc[q] = "close" /\ cur'[q] = cur[q] /\ data'[q] = data[q]
  BY DEF EndPass, Goto, Resting
<1> QED BY <1>1, <1>2

\* apply_configs() writes what it read from the database.
LEMMA PassStepSources ==
  ASSUME TypeInv, NEW p \in Applier, PassStep(p)
  PROVE  Sources /\ Loads
<1> USE DEF dbVars, localVars
<1>1. CASE HashCerts(p)
  <2>1. Loads
    BY <1>1 DEF HashCerts, Hurt, Loads
  <2>2. Sources
    BY <1>1 DEF HashCerts, Goto, Sources, TypeInv, TypeOK
  <2> QED BY <2>1, <2>2
<1>2. CASE CheckCerts(p)
  <2>1. Loads /\ UNCHANGED disk
    BY <1>2 DEF CheckCerts, Loads
  <2>2. CASE Leave(p, Cert)
    <3>1. Cert \in Item
      BY DEF Item
    <3> QED BY <2>1, <2>2, <3>1, LeaveSources DEF Sources
  <2>3. CASE Goto(p, "open") /\ UNCHANGED <<cur, want, data, todo>>
    BY <2>1, <2>3 DEF Sources, Goto, TypeInv, TypeOK
  <2> QED BY <1>2, <2>2, <2>3 DEF CheckCerts
<1>3. CASE Open(p)
  <2>1. Loads
    BY <1>3 DEF Open, Loads
  <2>2. cur[p] \in Item /\ want[p][cur[p]] \in Version /\ cur' = cur /\ want' = want
    BY <1>3 DEF Open, TypeInv, LocalsOK
  <2>3. \A i \in Item : disk'[i] \in {disk[i], Torn}
    BY <1>3 DEF Open, TypeInv, TypeOK
  <2>4. /\ data'[p] \in Version /\ data'[p] \in {db[cur[p]], want[p][cur[p]]}
        /\ \A q \in Applier \ {p} : data'[q] = data[q] /\ pc'[q] = pc[q]
    BY <1>3, <2>2 DEF Open, Goto, TypeInv, TypeOK, Item
  <2> QED BY <2>1, <2>2, <2>3, <2>4 DEF Sources
<1>4. CASE Close(p)
  <2>1. Loads
    BY <1>4 DEF Close, Loads
  <2>2. Sources
    BY <1>4 DEF Close, Goto, Sources, TypeInv, TypeOK
  <2> QED BY <2>1, <2>2
<1>5. CASE Save(p)
  <2>1. Loads /\ UNCHANGED disk
    BY <1>5 DEF Save, Hurt, Loads
  <2>2. cur[p] \in Item
    BY <1>5 DEF Save, TypeInv, LocalsOK
  <2> QED BY <1>5, <2>1, <2>2, LeaveSources DEF Save, Sources
<1>6. ASSUME NEW f \in File, Generate(p, f) PROVE Sources /\ Loads
  <2>1. Loads
    BY <1>6 DEF Generate, Hurt, Loads
  <2>2. UNCHANGED <<disk, cur, data>> /\ \A q \in Applier : pc'[q] = "close" => pc[q] = "close"
    BY <1>6 DEF Generate, Goto, TypeInv, TypeOK
  <2>3. \A q \in Applier, j \in Item : want'[q][j] \in {want[q][j], db[j]}
    BY <1>6 DEF Generate, TypeInv, TypeOK, Item
  <2> QED BY <2>1, <2>2, <2>3 DEF Sources
<1>7. ASSUME NEW f \in File, NextFile(p, f) PROVE Sources /\ Loads
  <2>1. Loads
    BY <1>7 DEF NextFile, Loads
  <2>2. /\ UNCHANGED <<disk, data>>
        /\ \A q \in Applier : pc'[q] = "close" => pc[q] = "close" /\ cur'[q] = cur[q]
    BY <1>7 DEF NextFile, Goto, TypeInv, TypeOK
  <2>3. \A q \in Applier, j \in Item : want'[q][j] \in {want[q][j], None}
    BY <1>7 DEF NextFile, TypeInv, TypeOK
  <2> QED BY <2>1, <2>2, <2>3 DEF Sources
<1>8. CASE Finish(p)
  <2>1. Loads /\ UNCHANGED disk
    BY <1>8 DEF Finish, Loads
  <2>2. CASE p = "watcher" /\ applied[p]
    BY <1>8, <2>1, <2>2 DEF Finish, Goto, Sources, TypeInv, TypeOK
  <2>3. CASE ~(p = "watcher" /\ applied[p])
    <3>1. EndPass(p, Rest(p)) /\ Rest(p) \in Resting
      BY <1>8, <2>3 DEF Finish, Rest, Resting
    <3> QED BY <2>1, <3>1, EndPassSources DEF Sources
  <2> QED BY <2>2, <2>3
<1> QED BY <1>1, <1>2, <1>3, <1>4, <1>5, <1>6, <1>7, <1>8 DEF PassStep

\* SIGHUP and exec load files; the watcher's other steps start a pass.
LEMMA LoopSources ==
  ASSUME TypeInv,
         Start("watcher") \/ Start("entrypoint") \/ Deliver \/ Reconcile
           \/ Hup \/ Exec
  PROVE  Sources /\ Loads
<1> USE DEF dbVars, localVars
<1>w. "watcher" \in Applier /\ "idle" \in Resting
  BY DEF Applier, Resting
<1>1. CASE Start("watcher") \/ Start("entrypoint") \/ Deliver \/ Reconcile
  <2>1. Loads /\ UNCHANGED <<disk, cur, want, data>>
    BY <1>1 DEF Start, Deliver, Reconcile, Loads
  <2>2. \A q \in Applier : pc'[q] = "close" => pc[q] = "close"
    BY <1>1 DEF Start, Deliver, Reconcile, Goto, TypeInv, TypeOK
  <2> QED BY <2>1, <2>2 DEF Sources
<1>2. CASE Hup
  <2>1. UNCHANGED <<db, disk>> /\ hurt \subseteq hurt' /\ EndPass("watcher", "idle")
    BY <1>2 DEF Hup, Hurt
  <2>2. \A i \in Item : running'[i] \in {running[i], disk[i]}
    BY <1>2 DEF Hup
  <2> QED BY <2>1, <2>2, <1>w, EndPassSources DEF Sources, Loads
<1>3. CASE Exec
  <2>1. Loads /\ UNCHANGED <<disk, cur, want, data>>
    BY <1>3 DEF Exec, Loads
  <2>2. \A q \in Applier : pc'[q] = "close" => pc[q] = "close"
    BY <1>3 DEF Exec, Goto, TypeInv, TypeOK
  <2> QED BY <2>1, <2>2 DEF Sources
<1> QED BY <1>1, <1>2, <1>3

\* A failure forgets, and leaves marks.
LEMMA FailureSources == ASSUME TypeInv, Failure PROVE Sources /\ Loads
<1> USE DEF dbVars, localVars
<1>w. "watcher" \in Applier /\ {"idle", "off"} \subseteq Resting
  BY DEF Applier, Resting
<1>1. CASE HupFails
  BY <1>1, <1>w, EndPassSources DEF HupFails, Hurt, Sources, Loads
<1>2. CASE Resubscribe
  BY <1>2 DEF Resubscribe, Sources, Loads
<1>3. ASSUME NEW p \in Applier, WriteFails(p) \/ SaveLost(p) \/ SaveRaises(p)
      PROVE  Sources /\ Loads
  <2>1. cur[p] \in Item
    BY <1>3 DEF WriteFails, SaveLost, SaveRaises, TypeInv, LocalsOK
  <2>2. UNCHANGED <<db, disk, running>> /\ hurt \subseteq hurt' /\ Leave(p, cur[p])
    BY <1>3 DEF WriteFails, SaveLost, SaveRaises, Hurt
  <2> QED BY <2>1, <2>2, LeaveSources DEF Sources, Loads
<1>4. ASSUME NEW p \in Applier, HashUnreadable(p) PROVE Sources /\ Loads
  <2>1. Loads /\ UNCHANGED <<disk, want, data>>
    BY <1>4 DEF HashUnreadable, Loads
  <2>2. \A q \in Applier : pc'[q] = "close" => pc[q] = "close" /\ cur'[q] = cur[q]
    BY <1>4 DEF HashUnreadable, Goto, TypeInv, TypeOK
  <2> QED BY <2>1, <2>2 DEF Sources
<1>5. ASSUME NEW p \in Applier, DbDown(p) PROVE Sources /\ Loads
  <2>1. UNCHANGED <<db, disk, running>> /\ hurt \subseteq hurt'
    BY <1>5 DEF DbDown, Hurt
  <2>2. CASE Leave(p, Cert)
    <3>1. Cert \in Item
      BY DEF Item
    <3> QED BY <2>1, <2>2, <3>1, LeaveSources DEF Sources, Loads
  <2>3. CASE EndPass(p, Rest(p))
    <3>1. Rest(p) \in Resting
      BY DEF Rest, Resting
    <3> QED BY <2>1, <2>3, <3>1, EndPassSources DEF Sources, Loads
  <2> QED BY <1>5, <2>2, <2>3 DEF DbDown
<1>6. ASSUME NEW p \in Applier, Crash(p) PROVE Sources /\ Loads
  BY <1>6, <1>w, EndPassSources DEF Crash, Hurt, Sources, Loads
<1> QED BY <1>1, <1>2, <1>3, <1>4, <1>5, <1>6 DEF Failure

\* Of all steps only the gateway's commits change the database.
LEMMA StepSources ==
  ASSUME TypeInv, [Next]_vars
  PROVE  Sources /\ (Loads \/ \E i \in Item : Commits(i))
<1>1. CASE WatcherStep
  BY <1>1, LoopSources, PassStepSources DEF WatcherStep, Applier
<1>2. CASE EntrypointStep
  BY <1>2, LoopSources, PassStepSources DEF EntrypointStep, Applier
<1>3. CASE Gateway
  <2>1. UNCHANGED <<disk, running, hurt, pc, cur, want, data>>
    BY <1>3 DEF Gateway, RequestApply, Edit, SilentEdit, Commit, Rollback, localVars
  <2>2. db' = db \/ \E i \in Item : Commits(i)
    BY <1>3 DEF Gateway, RequestApply, Edit, SilentEdit, Commit, Rollback, localVars,
                dbVars, Commits, TypeInv, EditingOK
  <2> QED BY <2>1, <2>2 DEF Sources, Loads
<1>4. CASE Failure
  BY <1>4, FailureSources
<1>5. CASE UNCHANGED vars
  BY <1>5 DEF vars, Sources, Loads
<1> QED BY <1>1, <1>2, <1>3, <1>4, <1>5 DEF Next

\* Versions are never taken back, so what was committed stays committed.
LEMMA CommittedGrows ==
  ASSUME TypeInv, [Next]_vars, NEW i \in Item
  PROVE  db[i] \in Committed(i)' /\ Committed(i) \subseteq Committed(i)'
<1>1. db' = db \/ \E j \in Item : db' = [db EXCEPT ![j] = @ + 1]
  BY StepSources DEF Loads, Commits
<1>2. db[i] \in Nat /\ db'[i] \in {db[i], db[i] + 1}
  BY <1>1 DEF TypeInv, TypeOK, Version
<1> QED BY <1>2 DEF Committed

\* Every step keeps the copies behind the database.
LEMMA NotAheadStep == TypeInv /\ NotAhead /\ [Next]_vars => NotAhead'
<1> SUFFICES ASSUME TypeInv, NotAhead, [Next]_vars PROVE NotAhead'
  OBVIOUS
<1>1. Sources
  BY StepSources
<1>2. \A i \in Item : db[i] \in Committed(i)' /\ Committed(i) \subseteq Committed(i)'
  BY CommittedGrows
<1>3. \A i \in Item : disk'[i] \in Committed(i)' \cup {None, Torn}
  <2> SUFFICES ASSUME NEW i \in Item PROVE disk'[i] \in Committed(i)' \cup {None, Torn}
    OBVIOUS
  <2>1. disk'[i] \in Committed(i) \cup {None, Torn}
    BY <1>1 DEF Sources, NotAhead
  <2> QED BY <2>1, <1>2
<1>4. \A i \in Item : running'[i] \in Committed(i)' \cup {None, Torn}
  <2> SUFFICES ASSUME NEW i \in Item PROVE running'[i] \in Committed(i)' \cup {None, Torn}
    OBVIOUS
  <2>1. running'[i] \in {running[i], disk[i]}
    BY StepSources DEF Loads, Commits
  <2>2. running'[i] \in Committed(i) \cup {None, Torn}
    BY <2>1 DEF NotAhead
  <2> QED BY <2>2, <1>2
<1>5. \A p \in Applier, i \in Item : want'[p][i] \in Committed(i)' \cup {None}
  <2> SUFFICES ASSUME NEW p \in Applier, NEW i \in Item
               PROVE want'[p][i] \in Committed(i)' \cup {None}
    OBVIOUS
  <2>1. want'[p][i] \in Committed(i) \cup {None, db[i]}
    BY <1>1 DEF Sources, NotAhead
  <2> QED BY <2>1, <1>2
<1>6. \A p \in Applier : pc'[p] = "close" => data'[p] \in 0 .. db'[cur'[p]]
  <2> SUFFICES ASSUME NEW p \in Applier, pc'[p] = "close"
               PROVE data'[p] \in 0 .. db'[cur'[p]]
    OBVIOUS
  <2>1. CASE pc[p] = "close" /\ cur'[p] = cur[p] /\ data'[p] = data[p]
    <3>1. cur[p] \in Item /\ data[p] \in Committed(cur[p])
      BY <2>1 DEF NotAhead, TypeInv, LocalsOK
    <3> QED BY <2>1, <3>1, <1>2 DEF Committed
  <2>2. CASE /\ cur'[p] \in Item /\ data'[p] \in Version
             /\ data'[p] \in {db[cur'[p]], want[p][cur'[p]]}
    <3>1. data'[p] \in Committed(cur'[p]) \cup {db[cur'[p]]}
      BY <2>2, ConfigSyncAssumption DEF NotAhead
    <3> QED BY <2>2, <3>1, <1>2 DEF Committed
  <2> QED BY <1>1, <2>1, <2>2 DEF Sources
<1> QED BY <1>3, <1>4, <1>5, <1>6 DEF NotAhead, Committed

\* The service's variables as functions of the items.
LEMMA ServiceValues ==
  ASSUME TypeInv, NotAhead, NEW i \in Item
  PROVE  /\ Content[i][db[i]] \in Text \cup {Absent}
         /\ TextOf(i, disk[i]) \in {Content[i][v] : v \in Committed(i)} \cup {None}
         /\ TextOf(i, running[i]) \in {Content[i][v] : v \in Committed(i)} \cup {None}
<1>1. Content[i][db[i]] \in Text \cup {Absent}
  BY ConfigSyncAssumption DEF TypeInv, TypeOK
<1>2. \A u \in Committed(i) \cup {None, Torn} :
        TextOf(i, u) \in {Content[i][v] : v \in Committed(i)} \cup {None}
  BY ConfigSyncAssumption DEF TextOf
<1> QED BY <1>1, <1>2 DEF NotAhead

\* The start: nothing is served, and what is committed is the first versions.
LEMMA InitService == Init => Service!Init
<1> SUFFICES ASSUME Init PROVE Service!Init
  OBVIOUS
<1>1. [i \in Item |-> Content[i][db[i]]] \in [Item -> Text \cup {Absent}]
  BY ConfigSyncAssumption DEF Init, Version
<1>2. \A i \in Item : {Content[i][v] : v \in 0 .. db[i]} = {Content[i][db[i]]}
  BY DEF Init
<1>3. \A i \in Item : TextOf(i, running[i]) = None
  BY ConfigSyncAssumption DEF Init, TextOf
<1>4. hurt = {}
  BY DEF Init
<1> QED BY <1>1, <1>2, <1>3, <1>4 DEF Service!Init, Service!TextOrAbsent

\* A commit is the service's commit of the next text.
LEMMA CommitsService ==
  ASSUME TypeInv, TypeInv', NEW i \in Item, Commits(i)
  PROVE  Service!Commit(i, Content[i][db[i] + 1])
<1>1. db[i] \in Nat /\ \A j \in Item : db'[j] = IF j = i THEN db[i] + 1 ELSE db[j]
  BY DEF Commits, TypeInv, TypeOK, Version
<1>2. \A j \in Item : Content[j][db'[j]] = IF j = i THEN Content[i][db[i] + 1]
                                           ELSE Content[j][db[j]]
  BY <1>1
<1>3. 0 .. (db[i] + 1) = (0 .. db[i]) \cup {db[i] + 1}
  BY <1>1
<1>4. \A j \in Item : {Content[j][v] : v \in 0 .. db'[j]} =
        IF j = i THEN {Content[i][v] : v \in 0 .. db[i]} \cup {Content[i][db[i] + 1]}
        ELSE {Content[j][v] : v \in 0 .. db[j]}
  BY <1>1, <1>3
<1>5. UNCHANGED <<[j \in Item |-> TextOf(j, running[j])], Harm # {}>>
  BY DEF Commits
<1> HIDE DEF Harm
<1> QED BY <1>2, <1>4, <1>5 DEF Service!Commit

\* Every other step is a load, be it of no file.
LEMMA LoadsService ==
  ASSUME TypeInv, NotAhead, Loads PROVE Service!Load
<1> DEFINE text(i) == {Content[i][v] : v \in 0 .. db[i]}
           held    == [i \in Item |-> text(i)]
           served  == [i \in Item |-> TextOf(i, running[i])]
<1>1. \A i \in Item : TextOf(i, running'[i]) \in text(i) \cup {None}
  BY ServiceValues DEF Loads, Committed
<1>2. \A i \in Item : /\ TextOf(i, running'[i]) \in (UNION {held[j] : j \in Item}) \cup {None}
                      /\ TextOf(i, running'[i]) \in held[i] \cup {served[i], None}
  BY <1>1
<1>3. (Harm' # {}) \in {Harm # {}, TRUE}
  BY DEF Loads
<1>4. UNCHANGED db
  BY DEF Loads
<1> HIDE DEF Harm
<1> QED BY <1>2, <1>3, <1>4 DEF Service!Load

\* The synchronisation implements the service's safety: radiusd never runs on
\* a text that no transaction committed, with two appliers over one volume,
\* torn files, crashes and failures, for any number of files and any history
\* of edits.
THEOREM ServiceSafe == Spec => Service!Safety
<1>1. Init => TypeInv /\ NotAhead /\ Service!Init
  BY InitTypeInv, InitNotAhead, InitService
<1>2. (TypeInv /\ NotAhead) /\ [Next]_vars => (TypeInv /\ NotAhead)'
  BY StepType, NotAheadStep
<1>3. (TypeInv /\ NotAhead) /\ (TypeInv /\ NotAhead)' /\ [Next]_vars => [Service!Next]_(Service!vars)
  <2> SUFFICES ASSUME TypeInv, NotAhead, TypeInv', [Next]_vars PROVE Service!Next
    OBVIOUS
  <2>1. CASE Loads
    BY <2>1, LoadsService DEF Service!Next
  <2>2. ASSUME NEW i \in Item, Commits(i) PROVE Service!Next
    <3>1. db[i] + 1 \in Version
      BY <2>2, ConfigSyncAssumption DEF Commits, TypeInv, TypeOK, Version
    <3>2. Content[i][db[i] + 1] \in Service!TextOrAbsent
      BY <3>1, ConfigSyncAssumption DEF Service!TextOrAbsent
    <3>3. Service!Commit(i, Content[i][db[i] + 1])
      BY <2>2, CommitsService
    <3>4. \E j \in Item, t \in Service!TextOrAbsent : Service!Commit(j, t)
      BY <3>2, <3>3 DEF Service!Commit
    <3> QED BY <3>4 DEF Service!Next
  <2> QED BY <2>1, <2>2, StepSources
<1> QED BY <1>1, <1>2, <1>3, PTL DEF Spec, Service!Safety
-----------------------------------------------------------------------------
(* What is recorded is written.                                              *)

Sound == hurt \cap {"write_error", "clash", "recut"} = {}

Closing(p, i) == pc[p] = "close" /\ cur[p] = i
Saving(p, i)  == pc[p] = "save" /\ cur[p] = i
NobodyCloses(i) == \A p \in Applier : ~Closing(p, i)

\* The bytes being written are at least as new as the hash to be recorded,
\* appliers that hold an item agree on it and on nothing older than the record,
\* and what is on disk when nobody has it truncated is new enough for the
\* hashes recorded and about to be.
Fresh(i) ==
  /\ stored[i] # None => stored[i] <= db[i]
  /\ \A p \in Applier : Closing(p, i) => data[p] >= want[p][i]
  /\ \A p, q \in Applier :
       want[p][i] # None /\ want[q][i] # None => want[p][i] = want[q][i]
  /\ \A p \in Applier :
       want[p][i] # None /\ stored[i] # None => stored[i] <= want[p][i]
  /\ NobodyCloses(i) =>
       /\ \A p \in Applier :
            Saving(p, i) => disk[i] \in Version /\ disk[i] >= want[p][i]
       /\ stored[i] = db[i] => disk[i] = db[i]

FreshInv == Sound => \A i \in Item : Fresh(i)

\* The facts of the other invariants that the steps below need of an item.
LEMMA Known ==
  ASSUME TypeInv, NotAhead, NEW i \in Item
  PROVE  /\ db[i] \in Nat /\ db[i] # None
         /\ stored[i] # None => stored[i] \in Nat
         /\ \A p \in Applier : want[p][i] # None =>
              want[p][i] \in Nat /\ want[p][i] <= db[i]
         /\ disk[i] \in Version => disk[i] \in Nat /\ disk[i] <= db[i]
         /\ \A p \in Applier : Closing(p, i) =>
              data[p] \in Version /\ data[p] \in Nat /\ data[p] <= db[i]
         /\ \A p \in Applier :
              Closing(p, i) \/ Saving(p, i) => want[p][i] # None
<1> USE ConfigSyncAssumption
<1>1. db[i] \in Nat /\ db[i] \in Version /\ db[i] # None
  BY DEF TypeInv, TypeOK, Version
<1>2. stored[i] # None => stored[i] \in Nat
  BY DEF TypeInv, TypeOK, Version
<1>3. \A p \in Applier : want[p][i] # None => want[p][i] \in 0 .. db[i]
  BY DEF NotAhead, Committed
<1>4. disk[i] \in Version => disk[i] \in Nat /\ disk[i] <= db[i]
  BY <1>1 DEF NotAhead, Committed, Version
<1>5. \A p \in Applier : Closing(p, i) =>
         data[p] \in Version /\ data[p] \in 0 .. db[i]
  BY DEF NotAhead, Committed, Closing, TypeInv, LocalsOK
<1>6. \A p \in Applier : Closing(p, i) \/ Saving(p, i) => want[p][i] # None
  BY DEF Closing, Saving, TypeInv, LocalsOK
<1> QED BY <1>1, <1>3, <1>2, <1>4, <1>5, <1>6

\* A step that writes and records nothing, and takes no new write up; a torn
\* file it abandons was not recorded, and nobody is about to record it.
Calm ==
  /\ UNCHANGED <<disk, stored>> /\ hurt \subseteq hurt'
  /\ \A i \in Item : db'[i] \in Nat /\ db[i] <= db'[i]
  /\ \A p \in Applier, i \in Item :
       /\ Closing(p, i)' => Closing(p, i) /\ data'[p] = data[p]
       /\ Saving(p, i)' => Saving(p, i)
       /\ (Sound' /\ Closing(p, i) /\ ~Closing(p, i)') =>
            stored[i] # want[p][i] /\ \A q \in Applier : ~Saving(q, i)

\* Applier p reads item i, the others keep what they have, or forget it.
ReadsOnly ==
  \A p \in Applier, i \in Item :
    \/ want'[p][i] \in {want[p][i], None}
    \/ /\ want'[p][i] = db[i] /\ db'[i] = db[i]
       /\ ~Closing(p, i)' /\ ~Saving(p, i)'
       /\ \A q \in Applier \ {p} : want'[q][i] = want[q][i]
       /\ Sound' => \A q \in Applier \ {p} : want[q][i] \in {None, db[i]}

\* Calm steps, whatever they read, leave the records behind the disk.
LEMMA CalmStep ==
  ASSUME TypeInv, TypeInv', NotAhead, FreshInv, Calm, ReadsOnly
  PROVE  FreshInv'
<1> SUFFICES ASSUME Sound', NEW i \in Item PROVE Fresh(i)'
  BY DEF FreshInv
<1>0. Fresh(i)
  BY DEF FreshInv, Sound, Calm
<1>1. /\ db[i] \in Nat /\ db'[i] \in Nat /\ db[i] <= db'[i]
      /\ stored[i] # None => stored[i] \in Nat
      /\ stored'[i] = stored[i] /\ disk'[i] = disk[i]
      /\ db[i] # None /\ db'[i] # None
  BY Known, ConfigSyncAssumption DEF Calm, TypeInv, TypeOK
<1>2. \A p \in Applier :
        /\ want[p][i] # None => want[p][i] \in Nat /\ want[p][i] <= db[i]
        /\ Closing(p, i) \/ Saving(p, i) => want[p][i] # None
        /\ Closing(p, i)' \/ Saving(p, i)' =>
             want'[p][i] # None /\ want'[p][i] = want[p][i]
  <2>1. \A p \in Applier :
          /\ want[p][i] # None => want[p][i] \in Nat /\ want[p][i] <= db[i]
          /\ Closing(p, i) \/ Saving(p, i) => want[p][i] # None
    BY Known
  <2>2. \A p \in Applier : Closing(p, i)' \/ Saving(p, i)' => want'[p][i] # None
    BY ConfigSyncAssumption DEF Closing, Saving, TypeInv, LocalsOK
  <2> QED BY <2>1, <2>2 DEF ReadsOnly
<1>3. \A p \in Applier : Closing(p, i)' => data'[p] >= want'[p][i]
  BY <1>0, <1>2 DEF Fresh, Calm
<1>4. \A p, q \in Applier :
        want'[p][i] # None /\ want'[q][i] # None => want'[p][i] = want'[q][i]
  BY <1>0 DEF Fresh, ReadsOnly
<1>5. \A p \in Applier :
        want'[p][i] # None /\ stored[i] # None => stored[i] <= want'[p][i]
  BY <1>0, <1>1 DEF Fresh, ReadsOnly
<1>6. ASSUME NobodyCloses(i)'
      PROVE  /\ \A p \in Applier :
                  Saving(p, i)' => disk[i] \in Version /\ disk[i] >= want'[p][i]
             /\ stored[i] = db'[i] => disk[i] = db'[i]
  <2>1. CASE NobodyCloses(i)
    <3>1. \A p \in Applier :
            Saving(p, i)' => disk[i] \in Version /\ disk[i] >= want'[p][i]
      BY <1>0, <1>2, <2>1 DEF Fresh, Calm
    <3>2. stored[i] = db'[i] => stored[i] = db[i] /\ db'[i] = db[i]
      BY <1>0, <1>1 DEF Fresh
    <3> QED BY <1>0, <2>1, <3>1, <3>2 DEF Fresh
  <2>2. ASSUME NEW p \in Applier, Closing(p, i)
        PROVE  /\ \A q \in Applier :
                    Saving(q, i)' => disk[i] \in Version /\ disk[i] >= want'[q][i]
               /\ stored[i] = db'[i] => disk[i] = db'[i]
    <3>1. stored[i] # want[p][i] /\ \A q \in Applier : ~Saving(q, i)
      BY <1>6, <2>2 DEF Calm, NobodyCloses
    <3>2. stored[i] # db'[i]
      BY <1>0, <1>1, <1>2, <2>2, <3>1 DEF Fresh
    <3> QED BY <3>1, <3>2 DEF Calm
  <2> QED BY <2>1, <2>2 DEF NobodyCloses
<1>7. stored[i] # None => stored[i] <= db'[i]
  BY <1>0, <1>1 DEF Fresh
<1> QED BY <1>1, <1>3, <1>4, <1>5, <1>6, <1>7 DEF Fresh

\* Truncating: nothing is asked of the item while it is torn.
LEMMA OpenFresh ==
  ASSUME TypeInv, TypeInv', NotAhead, FreshInv, NEW p \in Applier, Open(p)
  PROVE  FreshInv'
<1> SUFFICES ASSUME Sound', NEW i \in Item PROVE Fresh(i)'
  BY DEF FreshInv
<1> USE DEF dbVars
<1>0. Fresh(i)
  BY DEF FreshInv, Sound, Open
<1>1. /\ pc[p] = "open" /\ cur[p] \in Item /\ want[p][cur[p]] # None
      /\ pc' = [pc EXCEPT ![p] = "close"]
      /\ disk' = [disk EXCEPT ![cur[p]] = Torn]
      /\ data' = [data EXCEPT ![p] = IF cur[p] = Cert THEN db[Cert]
                                                      ELSE want[p][cur[p]]]
      /\ UNCHANGED <<db, stored, cur, want>>
  BY ConfigSyncAssumption DEF Open, Goto, TypeInv, LocalsOK
<1>2. \A q \in Applier : (Saving(q, i)' <=> Saving(q, i))
  BY <1>1 DEF Saving, TypeInv, TypeOK
<1>3. \A q \in Applier : Closing(q, i)' =>
        \/ q # p /\ Closing(q, i) /\ data'[q] = data[q]
        \/ q = p /\ cur[p] = i
  BY <1>1 DEF Closing, TypeInv, TypeOK
<1>4. cur[p] = i => Closing(p, i)' /\ data'[p] >= want[p][i]
  <2>1. cur[p] = i => Closing(p, i)'
    BY <1>1 DEF Closing, TypeInv, TypeOK
  <2>2. data'[p] \in {db[cur[p]], want[p][cur[p]]}
    BY <1>1 DEF TypeInv, TypeOK
  <2> QED BY <1>1, <2>1, <2>2, Known
<1>5. cur[p] # i => disk'[i] = disk[i] /\ (NobodyCloses(i)' => NobodyCloses(i))
  <2>1. cur[p] # i => \A q \in Applier : Closing(q, i) => Closing(q, i)'
    BY <1>1 DEF Closing, TypeInv, TypeOK
  <2> QED BY <1>1, <2>1 DEF NobodyCloses, TypeInv, TypeOK
<1>6. \A q \in Applier : Closing(q, i)' => data'[q] >= want[q][i]
  BY <1>0, <1>3, <1>4 DEF Fresh
<1>7. NobodyCloses(i)' => cur[p] # i
  BY <1>4 DEF NobodyCloses
<1> QED BY <1>0, <1>1, <1>2, <1>5, <1>6, <1>7 DEF Fresh

\* Closing the file: the disk is now as new as every hash to be recorded.
LEMMA CloseFresh ==
  ASSUME TypeInv, TypeInv', NotAhead, FreshInv, NEW p \in Applier, Close(p)
  PROVE  FreshInv'
<1> SUFFICES ASSUME Sound', NEW i \in Item PROVE Fresh(i)'
  BY DEF FreshInv
<1> USE DEF dbVars
<1>0. Fresh(i)
  BY DEF FreshInv, Sound, Close
<1>1. /\ pc[p] = "close" /\ cur[p] \in Item
      /\ pc' = [pc EXCEPT ![p] = "save"]
      /\ disk' = [disk EXCEPT ![cur[p]] = data[p]]
      /\ UNCHANGED <<db, stored, cur, want, data>>
  BY DEF Close, Goto, TypeInv, LocalsOK
<1>2. \A q \in Applier : Closing(q, i)' => Closing(q, i)
  BY <1>1 DEF Closing, TypeInv, TypeOK
<1>3. \A q \in Applier : Closing(q, i)' => data'[q] >= want'[q][i]
  BY <1>0, <1>1, <1>2 DEF Fresh
<1>4. CASE cur[p] = i
  <2>1. Closing(p, i) /\ disk'[i] = data[p]
    BY <1>1, <1>4 DEF Closing, TypeInv, TypeOK
  <2>2. \A q \in Applier : Saving(q, i)' => want[q][i] # None
    BY <1>1, ConfigSyncAssumption DEF Saving, TypeInv, LocalsOK
  <2>3. /\ data[p] \in Version /\ data[p] \in Nat /\ data[p] <= db[i]
        /\ want[p][i] # None /\ want[p][i] \in Nat /\ want[p][i] <= db[i]
        /\ db[i] \in Nat /\ db[i] # None
    BY <2>1, Known
  <2>4. data[p] >= want[p][i]
    BY <1>0, <2>1 DEF Fresh
  <2>5. \A q \in Applier : Saving(q, i)' => disk'[i] >= want[q][i]
    BY <1>0, <2>1, <2>2, <2>3, <2>4 DEF Fresh
  <2>6. stored[i] = db[i] => disk'[i] = db[i]
    BY <1>0, <2>1, <2>3, <2>4 DEF Fresh
  <2> QED BY <1>0, <1>1, <1>3, <2>1, <2>3, <2>5, <2>6 DEF Fresh
<1>5. CASE cur[p] # i
  <2>1. \A q \in Applier : /\ Saving(q, i)' => Saving(q, i)
                           /\ Closing(q, i) => Closing(q, i)'
    BY <1>1, <1>5 DEF Saving, Closing, TypeInv, TypeOK
  <2>2. disk'[i] = disk[i] /\ (NobodyCloses(i)' => NobodyCloses(i))
    BY <1>1, <1>5, <2>1 DEF NobodyCloses, TypeInv, TypeOK
  <2> QED BY <1>0, <1>1, <1>3, <2>1, <2>2 DEF Fresh
<1> QED BY <1>4, <1>5

\* Recording: every applier that holds the item holds the version recorded.
LEMMA SaveFresh ==
  ASSUME TypeInv, TypeInv', NotAhead, FreshInv, NEW p \in Applier,
         Saving(p, cur[p]), Leave(p, cur[p]), hurt \subseteq hurt',
         stored' = [stored EXCEPT ![cur[p]] = want[p][cur[p]]],
         UNCHANGED <<db, disk>>
  PROVE  FreshInv'
<1> SUFFICES ASSUME Sound', NEW i \in Item PROVE Fresh(i)'
  BY DEF FreshInv
<1>0. Fresh(i)
  BY DEF FreshInv, Sound
<1>1. /\ cur[p] \in Item /\ want[p][cur[p]] # None
      /\ pc' = [pc EXCEPT ![p] = After(cur[p])]
      /\ After(cur[p]) \in {"gen", "next"}
      /\ cur' = [cur EXCEPT ![p] = None] /\ data' = [data EXCEPT ![p] = None]
      /\ want' = [want EXCEPT ![p][cur[p]] = None]
  BY ConfigSyncAssumption DEF Saving, Leave, After, Goto, TypeInv, LocalsOK
<1>2. \A q \in Applier : want'[q][i] \in {want[q][i], None}
  BY <1>1 DEF TypeInv, TypeOK
<1>3. \A q \in Applier :
        /\ Closing(q, i)' => Closing(q, i) /\ data'[q] = data[q] /\ want'[q][i] = want[q][i]
        /\ Saving(q, i)' => Saving(q, i) /\ want'[q][i] = want[q][i]
        /\ Closing(q, i) => Closing(q, i)'
  BY <1>1 DEF Closing, Saving, TypeInv, TypeOK
<1>4. NobodyCloses(i)' => NobodyCloses(i)
  BY <1>3 DEF NobodyCloses
<1>5. CASE cur[p] = i
  <2>1. stored'[i] = want[p][i] /\ want[p][i] # None /\ Saving(p, i)
    BY <1>1, <1>5 DEF TypeInv, TypeOK
  <2>2. /\ want[p][i] \in Nat /\ want[p][i] <= db[i] /\ db[i] \in Nat
        /\ disk[i] \in Version => disk[i] \in Nat /\ disk[i] <= db[i]
    BY <2>1, Known
  <2>3. \A q \in Applier : want'[q][i] # None => want'[q][i] = want[p][i]
    BY <1>0, <1>2, <2>1 DEF Fresh
  <2>4. NobodyCloses(i)' => disk[i] \in Version /\ disk[i] >= want[p][i]
    BY <1>0, <1>4, <2>1 DEF Fresh
  <2>5. (NobodyCloses(i)' /\ stored'[i] = db[i]) => disk[i] = db[i]
    BY <2>1, <2>2, <2>4
  <2>6. \A q \in Applier : want'[q][i] # None => stored'[i] <= want'[q][i]
    BY <2>1, <2>2, <2>3
  <2>7. \A q \in Applier : Closing(q, i)' => data'[q] >= want'[q][i]
    BY <1>0, <1>3 DEF Fresh
  <2>8. NobodyCloses(i)' => \A q \in Applier :
          Saving(q, i)' => disk[i] \in Version /\ disk[i] >= want'[q][i]
    BY <1>0, <1>3, <1>4 DEF Fresh
  <2>9. \A q, r \in Applier :
          want'[q][i] # None /\ want'[r][i] # None => want'[q][i] = want'[r][i]
    BY <2>3
  <2> QED BY <2>1, <2>2, <2>5, <2>6, <2>7, <2>8, <2>9 DEF Fresh
<1>6. CASE cur[p] # i
  <2>1. stored'[i] = stored[i]
    BY <1>1, <1>6 DEF TypeInv, TypeOK
  <2>2. \A q \in Applier : Closing(q, i)' => data'[q] >= want'[q][i]
    BY <1>0, <1>3 DEF Fresh
  <2>3. /\ \A q, r \in Applier :
             want'[q][i] # None /\ want'[r][i] # None => want'[q][i] = want'[r][i]
        /\ \A q \in Applier :
             want'[q][i] # None /\ stored[i] # None => stored[i] <= want'[q][i]
    BY <1>0, <1>2 DEF Fresh
  <2>4. NobodyCloses(i)' =>
          /\ \A q \in Applier :
               Saving(q, i)' => disk[i] \in Version /\ disk[i] >= want'[q][i]
          /\ stored[i] = db[i] => disk[i] = db[i]
    BY <1>0, <1>3, <1>4 DEF Fresh
  <2> QED BY <1>0, <2>1, <2>2, <2>3, <2>4 DEF Fresh
<1> QED BY <1>5, <1>6

\* A pass or an item is left without a record: what is torn is marked, unless
\* no harm can come of it.
LEMMA AbandonCalm ==
  ASSUME TypeInv, NEW p \in Applier, UNCHANGED <<db, disk, stored>>,
         \/ \E i \in Item : Leave(p, i) /\ (pc[p] \in {"close", "save"} => cur[p] = i)
         \/ \E label \in Resting : EndPass(p, label),
         hurt \subseteq hurt', Recut(p) \subseteq hurt'
  PROVE  Calm /\ ReadsOnly
<1>1. \A i \in Item : db[i] \in Nat /\ db'[i] = db[i]
  BY DEF TypeInv, TypeOK, Version
<1>2. /\ pc'[p] \notin {"close", "save"}
      /\ \A q \in Applier \ {p} :
           pc'[q] = pc[q] /\ cur'[q] = cur[q] /\ data'[q] = data[q]
      /\ \A q \in Applier, i \in Item : want'[q][i] \in {want[q][i], None}
  BY DEF Leave, EndPass, After, Goto, Resting, TypeInv, TypeOK
<1>3. \A q \in Applier, i \in Item :
        /\ Closing(q, i)' => Closing(q, i) /\ data'[q] = data[q]
        /\ Saving(q, i)' => Saving(q, i)
  BY <1>2 DEF Closing, Saving
<1>4. ASSUME NEW q \in Applier, NEW i \in Item, Sound', Closing(q, i),
             ~Closing(q, i)'
      PROVE  stored[i] # want[q][i] /\ \A r \in Applier : ~Saving(r, i)
  <2>1. q = p /\ pc[p] = "close" /\ cur[p] = i
    BY <1>2, <1>4 DEF Closing
  <2>2. Recut(p) # {"recut"}
    BY <1>4 DEF Sound
  <2> QED BY <2>1, <2>2 DEF Recut, Saving
<1> QED BY <1>1, <1>2, <1>3, <1>4 DEF Calm, ReadsOnly

\* A step that leaves the appliers' writes alone.
LEMMA AsideCalm ==
  ASSUME TypeInv, UNCHANGED <<disk, stored, want, data>>, hurt \subseteq hurt',
         \A i \in Item : db'[i] \in Nat /\ db[i] <= db'[i],
         \A p \in Applier : \/ pc'[p] = pc[p] /\ cur'[p] = cur[p]
                            \/ {pc[p], pc'[p]} \cap {"close", "save"} = {}
  PROVE  Calm /\ ReadsOnly
  BY DEF Calm, ReadsOnly, Closing, Saving

\* Reading an item: the applier agrees with those that hold it, or the clash
\* is marked.
LEMMA ReadFresh ==
  ASSUME TypeInv, TypeInv', NotAhead, FreshInv, NEW p \in Applier, NEW i \in Item,
         want' = [want EXCEPT ![p][i] = db[i]], Hurt(Clash(p, i)),
         UNCHANGED <<db, disk, stored, data>>,
         pc[p] \notin {"close", "save"}, pc'[p] \notin {"close", "save"},
         \A q \in Applier \ {p} : pc'[q] = pc[q] /\ cur'[q] = cur[q]
  PROVE  FreshInv'
<1>1. \A q \in Applier, j \in Item :
        want'[q][j] = IF q = p /\ j = i THEN db[i] ELSE want[q][j]
  BY DEF TypeInv, TypeOK
<1>2. hurt \subseteq hurt'
  BY ClashHarmless
<1>3. Sound' => \A q \in Applier \ {p} : want[q][i] \in {None, db[i]}
  BY DEF Sound, Hurt, Clash
<1>4. \A q \in Applier, j \in Item :
        /\ Closing(q, j)' <=> Closing(q, j)
        /\ Saving(q, j)' <=> Saving(q, j)
        /\ ~Closing(p, j)' /\ ~Saving(p, j)'
  BY DEF Closing, Saving
<1>5. \A j \in Item : db[j] \in Nat /\ db[j] <= db'[j]
  BY DEF TypeInv, TypeOK, Version
<1>6. Calm
  BY <1>2, <1>4, <1>5 DEF Calm
<1>7. ReadsOnly
  BY <1>1, <1>3, <1>4 DEF ReadsOnly
<1> QED BY <1>6, <1>7, CalmStep

\* A step of apply_configs().
LEMMA PassStepFresh ==
  ASSUME TypeInv, TypeInv', NotAhead, FreshInv, NEW p \in Applier, PassStep(p)
  PROVE  FreshInv'
<1> USE DEF dbVars
<1>d. \A i \in Item : db[i] \in Nat /\ db[i] <= db[i]
  BY DEF TypeInv, TypeOK, Version
<1>c. Cert \in Item
  BY DEF Item
<1>1. CASE HashCerts(p)
  <2>1. \A q \in Applier \ {p} : pc'[q] = pc[q] /\ cur'[q] = cur[q]
    BY <1>1 DEF HashCerts, Goto, TypeInv, TypeOK
  <2>2. pc[p] = "hash" /\ pc'[p] = "check"
    BY <1>1 DEF HashCerts, Goto, TypeInv, TypeOK
  <2> QED BY <1>1, <1>c, <2>1, <2>2, ReadFresh DEF HashCerts
<1>2. CASE CheckCerts(p)
  <2>1. CASE Leave(p, Cert)
    <3>1. Calm /\ ReadsOnly
      BY <1>2, <2>1, <1>c, AbandonCalm DEF CheckCerts, Recut
    <3> QED BY <3>1, CalmStep
  <2>2. CASE Goto(p, "open") /\ UNCHANGED <<cur, want, data, todo>>
    <3>1. \A q \in Applier : \/ pc'[q] = pc[q] /\ cur'[q] = cur[q]
                             \/ {pc[q], pc'[q]} \cap {"close", "save"} = {}
      BY <1>2, <2>2 DEF CheckCerts, Goto, TypeInv, TypeOK
    <3>2. Calm /\ ReadsOnly
      BY <1>2, <1>d, <2>2, <3>1, AsideCalm DEF CheckCerts
    <3> QED BY <3>2, CalmStep
  <2> QED BY <1>2, <2>1, <2>2 DEF CheckCerts
<1>3. CASE Open(p)
  BY <1>3, OpenFresh
<1>4. CASE Close(p)
  BY <1>4, CloseFresh
<1>5. CASE Save(p)
  <2>1. /\ Saving(p, cur[p]) /\ Leave(p, cur[p]) /\ hurt \subseteq hurt'
        /\ stored' = [stored EXCEPT ![cur[p]] = want[p][cur[p]]]
        /\ UNCHANGED <<db, disk>>
    BY <1>5 DEF Save, Saving, Hurt
  <2> QED BY <2>1, SaveFresh
<1>6. ASSUME NEW f \in File, Generate(p, f) PROVE FreshInv'
  <2>1. /\ pc[p] = "gen" /\ pc'[p] \in {"gen", "next"}
        /\ \A q \in Applier \ {p} : pc'[q] = pc[q] /\ cur'[q] = cur[q]
    BY <1>6 DEF Generate, Goto, TypeInv, TypeOK
  <2>2. f \in Item
    BY DEF Item
  <2> QED BY <1>6, <2>1, <2>2, ReadFresh DEF Generate
<1>7. ASSUME NEW f \in File, NextFile(p, f) PROVE FreshInv'
  <2>1. /\ pc[p] = "next" /\ pc'[p] \in {"next", "open"}
        /\ \A q \in Applier \ {p} : pc'[q] = pc[q] /\ cur'[q] = cur[q]
    BY <1>7 DEF NextFile, Goto, TypeInv, TypeOK
  <2>2. \A q \in Applier, j \in Item : want'[q][j] \in {want[q][j], None}
    BY <1>7 DEF NextFile, TypeInv, TypeOK
  <2>3. UNCHANGED <<db, disk, stored, data, hurt>>
    BY <1>7 DEF NextFile
  <2>4. Calm
    BY <1>d, <2>1, <2>3 DEF Calm, Closing, Saving
  <2>5. ReadsOnly
    BY <2>2 DEF ReadsOnly
  <2> QED BY <2>4, <2>5, CalmStep
<1>8. CASE Finish(p)
  <2>1. CASE p = "watcher" /\ applied[p]
    <3>1. \A q \in Applier : \/ pc'[q] = pc[q] /\ cur'[q] = cur[q]
                             \/ {pc[q], pc'[q]} \cap {"close", "save"} = {}
      BY <1>8, <2>1 DEF Finish, Goto, TypeInv, TypeOK
    <3>2. Calm /\ ReadsOnly
      BY <1>8, <1>d, <2>1, <3>1, AsideCalm DEF Finish
    <3> QED BY <3>2, CalmStep
  <2>2. CASE ~(p = "watcher" /\ applied[p])
    <3>1. /\ EndPass(p, Rest(p)) /\ Rest(p) \in Resting /\ pc[p] = "next"
          /\ UNCHANGED <<db, disk, stored, hurt>>
      BY <1>8, <2>2 DEF Finish, Rest, Resting
    <3>2. Calm /\ ReadsOnly
      BY <3>1, AbandonCalm DEF Recut
    <3> QED BY <3>2, CalmStep
  <2> QED BY <2>1, <2>2
<1> QED BY <1>1, <1>2, <1>3, <1>4, <1>5, <1>6, <1>7, <1>8 DEF PassStep

\* The watcher's loop, SIGHUP and the start of radiusd write no file.
LEMMA LoopFresh ==
  ASSUME TypeInv, TypeInv', NotAhead, FreshInv,
         Start("watcher") \/ Start("entrypoint") \/ Deliver \/ Reconcile
           \/ Hup \/ Exec
  PROVE  FreshInv'
<1> USE DEF dbVars
<1>d. \A i \in Item : db[i] \in Nat /\ db[i] <= db[i]
  BY DEF TypeInv, TypeOK, Version
<1>1. CASE Start("watcher") \/ Start("entrypoint") \/ Deliver \/ Reconcile \/ Exec
  <2>1. \A q \in Applier : \/ pc'[q] = pc[q] /\ cur'[q] = cur[q]
                           \/ {pc[q], pc'[q]} \cap {"close", "save"} = {}
    BY <1>1 DEF Start, Deliver, Reconcile, Exec, Goto, TypeInv, TypeOK
  <2>2. UNCHANGED <<db, disk, stored, want, data, hurt>>
    BY <1>1 DEF Start, Deliver, Reconcile, Exec
  <2>3. Calm /\ ReadsOnly
    BY <1>d, <2>1, <2>2, AsideCalm
  <2> QED BY <2>3, CalmStep
<1>2. CASE Hup
  <2>1. /\ EndPass("watcher", "idle") /\ pc["watcher"] = "hup"
        /\ UNCHANGED <<db, disk, stored>> /\ hurt \subseteq hurt'
    BY <1>2 DEF Hup, Hurt
  <2>2. "watcher" \in Applier /\ "idle" \in Resting
    BY DEF Applier, Resting
  <2>3. Calm /\ ReadsOnly
    BY <2>1, <2>2, AbandonCalm DEF Recut
  <2> QED BY <2>3, CalmStep
<1> QED BY <1>1, <1>2

\* A failure abandons an item or a pass, and marks what may come of it.
LEMMA FailureFresh ==
  ASSUME TypeInv, TypeInv', NotAhead, FreshInv, Failure PROVE FreshInv'
<1> USE DEF dbVars
<1>d. \A i \in Item : db[i] \in Nat /\ db[i] <= db[i]
  BY DEF TypeInv, TypeOK, Version
<1>w. "watcher" \in Applier /\ {"idle", "off"} \subseteq Resting
  BY DEF Applier, Resting
<1>1. CASE HupFails
  <2>1. /\ EndPass("watcher", "idle") /\ pc["watcher"] = "hup"
        /\ UNCHANGED <<db, disk, stored>> /\ hurt \subseteq hurt'
    BY <1>1 DEF HupFails, Hurt
  <2>2. Calm /\ ReadsOnly
    BY <1>w, <2>1, AbandonCalm DEF Recut
  <2> QED BY <2>2, CalmStep
<1>2. CASE Resubscribe
  <2>1. Calm /\ ReadsOnly
    BY <1>2, <1>d, AsideCalm DEF Resubscribe, localVars
  <2> QED BY <2>1, CalmStep
<1>3. ASSUME NEW p \in Applier, WriteFails(p) PROVE FreshInv'
  <2>1. CASE cur[p] # Cert
    <3>1. ~Sound'
      BY <1>3, <2>1 DEF WriteFails, Hurt, Sound
    <3> QED BY <3>1 DEF FreshInv
  <2>2. CASE cur[p] = Cert
    <3>1. /\ Leave(p, Cert) /\ UNCHANGED <<db, disk, stored>> /\ Cert \in Item
          /\ hurt \subseteq hurt' /\ Recut(p) \subseteq hurt'
      BY <1>3, <2>2 DEF WriteFails, Hurt, Unsaved, Item
    <3>2. Calm /\ ReadsOnly
      BY <2>2, <3>1, AbandonCalm
    <3> QED BY <3>2, CalmStep
  <2> QED BY <2>1, <2>2
<1>4. ASSUME NEW p \in Applier, SaveLost(p) PROVE FreshInv'
  <2>1. /\ Leave(p, cur[p]) /\ UNCHANGED <<db, disk, stored>> /\ cur[p] \in Item
        /\ hurt \subseteq hurt' /\ Recut(p) \subseteq hurt'
    BY <1>4 DEF SaveLost, Hurt, Recut, TypeInv, LocalsOK
  <2>2. Calm /\ ReadsOnly
    BY <2>1, AbandonCalm
  <2> QED BY <2>2, CalmStep
<1>5. ASSUME NEW p \in Applier, SaveRaises(p) PROVE FreshInv'
  <2>1. /\ Leave(p, cur[p]) /\ UNCHANGED <<db, disk>> /\ cur[p] \in Item
        /\ hurt \subseteq hurt' /\ Recut(p) \subseteq hurt' /\ Saving(p, cur[p])
    BY <1>5 DEF SaveRaises, Hurt, Recut, Saving, TypeInv, LocalsOK
  <2>2. CASE stored' = [stored EXCEPT ![cur[p]] = want[p][cur[p]]]
    BY <2>1, <2>2, SaveFresh
  <2>3. CASE UNCHANGED stored
    <3>1. Calm /\ ReadsOnly
      BY <2>1, <2>3, AbandonCalm
    <3> QED BY <3>1, CalmStep
  <2> QED BY <1>5, <2>2, <2>3 DEF SaveRaises
<1>6. ASSUME NEW p \in Applier, HashUnreadable(p) PROVE FreshInv'
  <2>1. \A q \in Applier : \/ pc'[q] = pc[q] /\ cur'[q] = cur[q]
                           \/ {pc[q], pc'[q]} \cap {"close", "save"} = {}
    BY <1>6 DEF HashUnreadable, Goto, TypeInv, TypeOK
  <2>2. Calm /\ ReadsOnly
    BY <1>6, <1>d, <2>1, AsideCalm DEF HashUnreadable
  <2> QED BY <2>2, CalmStep
<1>7. ASSUME NEW p \in Applier, DbDown(p) PROVE FreshInv'
  <2>1. /\ UNCHANGED <<db, disk, stored>>
        /\ hurt \subseteq hurt' /\ Recut(p) \subseteq hurt'
    BY <1>7 DEF DbDown, Hurt, Unsaved
  <2>2. \/ Leave(p, Cert) /\ (pc[p] \in {"close", "save"} => cur[p] = Cert)
        \/ EndPass(p, Rest(p))
    BY <1>7 DEF DbDown
  <2>3. Cert \in Item /\ Rest(p) \in Resting
    BY DEF Item, Rest, Resting
  <2>4. Calm /\ ReadsOnly
    BY <2>1, <2>2, <2>3, AbandonCalm
  <2> QED BY <2>4, CalmStep
<1>8. ASSUME NEW p \in Applier, Crash(p) PROVE FreshInv'
  <2>1. /\ EndPass(p, "off") /\ UNCHANGED <<db, disk, stored>>
        /\ hurt \subseteq hurt' /\ Recut(p) \subseteq hurt'
    BY <1>8 DEF Crash, Hurt, Unsaved
  <2>2. Calm /\ ReadsOnly
    BY <1>w, <2>1, AbandonCalm
  <2> QED BY <2>2, CalmStep
<1> QED BY <1>1, <1>2, <1>3, <1>4, <1>5, <1>6, <1>7, <1>8 DEF Failure

\* Every step leaves the records behind the disk.
LEMMA FreshStep ==
  TypeInv /\ TypeInv' /\ NotAhead /\ FreshInv /\ [Next]_vars => FreshInv'
<1> SUFFICES ASSUME TypeInv, TypeInv', NotAhead, FreshInv, [Next]_vars
             PROVE  FreshInv'
  OBVIOUS
<1>1. CASE WatcherStep
  BY <1>1, LoopFresh, PassStepFresh DEF WatcherStep, Applier
<1>2. CASE EntrypointStep
  BY <1>2, LoopFresh, PassStepFresh DEF EntrypointStep, Applier
<1>3. CASE Gateway
  <2>1. UNCHANGED <<disk, stored, want, data, hurt, pc, cur>>
    BY <1>3 DEF Gateway, RequestApply, Edit, SilentEdit, Commit, Rollback,
                localVars
  <2>2. \A i \in Item : db'[i] \in Nat /\ db[i] <= db'[i]
    <3>1. db' = db \/ \E i \in Item : Commits(i)
      BY StepSources DEF Loads
    <3>2. \A i \in Item : db[i] \in Nat /\ db'[i] \in {db[i], db[i] + 1}
      BY <3>1 DEF Commits, TypeInv, TypeOK, Version
    <3> QED BY <3>2
  <2>3. Calm /\ ReadsOnly
    BY <2>1, <2>2, AsideCalm
  <2> QED BY <2>3, CalmStep
<1>4. CASE Failure
  BY <1>4, FailureFresh
<1>5. CASE UNCHANGED vars
  <2>1. \A i \in Item : db'[i] \in Nat /\ db[i] <= db'[i]
    BY <1>5 DEF vars, TypeInv, TypeOK, Version
  <2>2. Calm /\ ReadsOnly
    BY <1>5, <2>1, AsideCalm DEF vars
  <2> QED BY <2>2, CalmStep
<1> QED BY <1>1, <1>2, <1>3, <1>4, <1>5 DEF Next

\* A hash recorded of the current version always means that the current bytes
\* are on disk: the certificates may change between the read that is hashed and
\* the read that is written, saves may be lost or made twice, writes cut off,
\* and two appliers of one version interleave, for any number of files, edits,
\* passes and failures.
THEOREM RecordedCorrect == Spec => []RecordedIsWritten
<1>1. Init => TypeInv /\ NotAhead /\ FreshInv
  <2>1. Init => FreshInv
    BY ConfigSyncAssumption
    DEF Init, FreshInv, Fresh, Closing, Saving, NobodyCloses, Applier, Version
  <2> QED BY <2>1, InitTypeInv, InitNotAhead
<1>2. (TypeInv /\ NotAhead /\ FreshInv) /\ [Next]_vars
        => (TypeInv /\ NotAhead /\ FreshInv)'
  BY StepType, NotAheadStep, FreshStep
<1>3. TypeInv /\ FreshInv => RecordedIsWritten
  <2> SUFFICES ASSUME TypeInv, FreshInv, Sound, NEW i \in Item,
                      \A p \in Applier : ~Writing(p, i), stored[i] = db[i]
               PROVE  disk[i] = db[i]
    BY DEF RecordedIsWritten, Sound
  <2>1. NobodyCloses(i)
    BY DEF NobodyCloses, Closing, Writing
  <2> QED BY <2>1 DEF FreshInv, Fresh
<1> QED BY <1>1, <1>2, <1>3, PTL DEF Spec
=============================================================================
