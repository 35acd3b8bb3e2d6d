------------------------------ MODULE Pipeline ------------------------------
(* From a device on the wire to the evaluation of the policies:              *)
(* services/discovery sniffs and scans, services/device_inventory merges the *)
(* reports into devices, services/policy_engine evaluates, and the gateway   *)
(* edits devices and policies next to them.                                  *)
EXTENDS Bus

CONSTANTS
  Mac, Policy,
  Field, Overwritten,  \* the columns of a device, and those a second ingest leaves alone
  Value, Unknown,
  Overlong,            \* the values no column of theirs holds
  Action,              \* what a policy may ask for
  NoRow,
  Plans                \* bounds of a behaviour: the requests it may make, each once,
                       \* and the faults and starts of services it may have

VARIABLES
  wanted,    \* requests not made yet
  seen,      \* MACs the sniffer saw within a minute
  scan,      \* the callback of the scanner: pc, hosts reported
  row,       \* devices by MAC: id, facts, and the message that made them
             \* (0 for the gateway)
  ids,       \* ids given so far
  policy,    \* policies by id: body, updated_at and when that was committed
  open,      \* the gateway's transactions that write a policy, and when each began
  edits,     \* the clock of updated_at and evaluated_at: what began and committed so far
  merging,   \* the callback of the inventory
  engine,    \* the callback of the policy engine: pc, context, begin of its
             \* transaction, policies to do, rows
  result,    \* policy_evaluations, the last of a device and a policy: its
             \* outcome and evaluated_at
  accepts,   \* the driver takes a statement with ":details::jsonb"
  faults,    \* faults still allowed
  starts     \* starts still allowed

scanVars == <<seen, scan>>
rowVars  == <<row, ids, policy, open, edits>>
vars == <<busVars, wanted, scanVars, rowVars, merging, engine, result, accepts, faults, starts>>

\* Columns and rows, messages and requests.
Facts == [Field -> Value \cup {Unknown}]
Row   == [id : Nat \ {0}, facts : Facts, by : Nat]
Body  == [enabled : BOOLEAN, needs : Field, regular : BOOLEAN, rank : Int,
          match : SUBSET Action, otherwise : SUBSET Action]
Text  == [body : Body, at : Nat, since : Nat]

Hosts == Seq([mac : Mac \cup {Unknown}, facts : Facts])
ScanType == {"arp", "nmap", "snmp", "other"}
Message ==      [to : {"discovery"}, type : ScanType, hosts : Hosts]
           \cup [to : {"inventory"}, mac : Mac \cup {Unknown}, facts : Facts]
           \cup [to : {"policy"}, mac : Mac, id : Nat \ {0}]
Request ==      [do : {"hear", "remove"}, mac : Mac]
           \cup [do : {"scan"}, type : ScanType, hosts : Hosts]
           \cup [do : {"ingest", "update"}, mac : Mac, facts : Facts]
           \cup [do : {"create", "apply", "change"}, policy : Policy, body : Body]
           \cup [do : {"drop"}, policy : Policy]

ASSUME ConsumersAssumption == {"discovery", "inventory", "policy"} \subseteq Consumer
ASSUME MacAssumption == Unknown \notin Mac
ASSUME OverlongAssumption == Overlong \subseteq Value
ASSUME NoRowAssumption == NoRow \notin Row \cup Text \cup Facts
ASSUME PlansAssumption == Plans \subseteq [requests : SUBSET Request, faults : Nat, starts : Nat]

NoScan   == [pc |-> "idle", done |-> 0]
NoMerge  == [pc |-> "idle", id |-> 0]
NoEngine == [pc |-> "idle", mac |-> NoRow, id |-> 0, facts |-> NoRow, at |-> 0,
             todo |-> {}, rows |-> {}]

Init ==
  /\ BusInit
  /\ \E plan \in Plans : wanted = plan.requests /\ faults = plan.faults /\ starts = plan.starts
  /\ seen = {} /\ scan = NoScan
  /\ row = [m \in Mac |-> NoRow] /\ ids = 0
  /\ policy = [p \in Policy |-> NoRow] /\ open = {} /\ edits = 0
  /\ merging = NoMerge /\ engine = NoEngine /\ result = <<>>
  /\ accepts \in BOOLEAN

\* A failure of the broker, the database or a peer.
Fault == faults > 0 /\ faults' = faults - 1

\* A request is made once.
Want(kind, r) == r \in wanted /\ r.do = kind /\ wanted' = wanted \ {r}

-----------------------------------------------------------------------------
\* The passive monitor.

\* _process_packet, in the sniffer's thread: a MAC it has not seen for a minute
\* is marked and to be reported, but that thread has no event loop to report
\* on; the RuntimeError is logged.
Hear(r) ==
  /\ Want("hear", r) /\ seen' = seen \cup {r.mac}
  /\ UNCHANGED <<busVars, scan, rowVars, merging, engine, result, accepts, faults, starts>>

\* A minute passes.
Forget(m) ==
  /\ m \in seen /\ seen' = seen \ {m}
  /\ UNCHANGED <<busVars, wanted, scan, rowVars, merging, engine, result, accepts, faults, starts>>

-----------------------------------------------------------------------------
\* The active scanner.
Scanning == stream[current["discovery"]]
OnlyScan == UNCHANGED <<seen, rowVars, merging, engine, result, accepts, starts>>

\* orw.discovery.scan_request comes from outside the repository.
RequestScan(r) ==
  /\ Want("scan", r)
  /\ Publish([to |-> "discovery", type |-> r.type, hosts |-> r.hosts])
  /\ UNCHANGED <<reached, again, current, scanVars, rowVars, merging, engine, result, accepts, faults, starts>>

\* The network answers with the hosts; an unknown type or an invalid target
\* finds none.
Found(m) == IF m.type \in {"arp", "nmap", "snmp"} THEN m.hosts ELSE <<>>

\* handle_scan_request
ScanBegin(i) ==
  /\ Take("discovery", i)
  /\ scan' = [pc |-> "publish", done |-> 0]
  /\ UNCHANGED <<stream, wanted, faults>> /\ OnlyScan

Report(host) == [to |-> "inventory", mac |-> host.mac, facts |-> host.facts]

ScanPublish ==
  /\ scan.pc = "publish" /\ scan.done < Len(Found(Scanning))
  /\ Publish(Report(Found(Scanning)[scan.done + 1]))
  /\ scan' = [scan EXCEPT !.done = @ + 1]
  /\ UNCHANGED <<reached, again, current, wanted, faults>> /\ OnlyScan

\* A mistake: a failed publish is logged, whatever the scan.
ScanFailsLogged ==
  /\ scan.pc = "publish" /\ Fault
  /\ Ack("discovery")
  /\ scan' = NoScan
  /\ UNCHANGED <<stream, wanted>> /\ OnlyScan

\* A publish fails, that of scan_completed included: the ARP scan raises, the
\* walk of a MAC table swallows it, and nmap does one or the other, as nmap's
\* own time-out and the broker's are the same class.
ScanFails ==
  /\ scan.pc = "publish" /\ Fault
  /\ \/ Scanning.type \in {"arp", "nmap"} /\ Nak("discovery")
     \/ Scanning.type \in {"snmp", "nmap"} /\ Ack("discovery")
  /\ scan' = NoScan
  /\ UNCHANGED <<stream, wanted>> /\ OnlyScan

\* nmap may take 120 seconds, the others as long as the network is large; the
\* broker waits 30.
ScanOutlasts ==
  /\ scan.pc = "publish" /\ Scanning.type # "other" /\ Fault
  /\ Expire("discovery")
  /\ UNCHANGED <<stream, wanted, scan>> /\ OnlyScan

ScanDone ==
  /\ scan.pc = "publish" /\ scan.done = Len(Found(Scanning))
  /\ Ack("discovery") /\ scan' = NoScan
  /\ UNCHANGED <<stream, wanted, faults>> /\ OnlyScan

ScannerStart ==
  /\ starts > 0 /\ starts' = starts - 1
  /\ Subscribe({"discovery"})
  /\ scan' = NoScan /\ seen' = {}
  /\ UNCHANGED <<stream, wanted, rowVars, merging, engine, result, accepts, faults>>

-----------------------------------------------------------------------------
\* The inventory.
Merging == stream[current["inventory"]]
OnlyMerge == UNCHANGED <<wanted, scanVars, policy, open, edits, engine, result, accepts, starts>>

MergeBegin(i) ==
  /\ Take("inventory", i)
  /\ merging' = [pc |-> "merge", id |-> 0]
  /\ UNCHANGED <<stream, row, ids, faults>> /\ OnlyMerge

\* nmap reports hosts behind a router without their MAC.
MergeSkip ==
  /\ merging.pc = "merge" /\ Merging.mac = Unknown
  /\ Ack("inventory") /\ merging' = NoMerge
  /\ UNCHANGED <<stream, row, ids, faults>> /\ OnlyMerge

\* A mistake: the columns of the report replace those of the row.
CoalesceNot(new, old) == new

\* COALESCE(EXCLUDED.f, devices.f)
Coalesce(new, old) == [f \in Field |-> IF new[f] = Unknown THEN old[f] ELSE new[f]]

\* A value too long for its column is refused, and its row with it.
Fits(facts) == \A f \in Field : facts[f] \notin Overlong
Storable(m) == accepts /\ Fits(m.facts)

\* The upsert, the properties and the event, in one transaction.
Merge ==
  /\ merging.pc = "merge" /\ Merging.mac # Unknown /\ Storable(Merging)
  /\ LET m == Merging.mac  new == row[m] = NoRow  id == IF new THEN ids + 1 ELSE row[m].id IN
     /\ ids' = IF new THEN ids + 1 ELSE ids
     /\ row' = [row EXCEPT ![m] =
                  [id    |-> id,
                   facts |-> IF new THEN Merging.facts ELSE Coalesce(Merging.facts, @.facts),
                   by    |-> current["inventory"]]]
     /\ merging' = [pc |-> "announce", id |-> id]
  /\ UNCHANGED <<busVars, faults>> /\ OnlyMerge

MergeRaises ==
  /\ merging.pc = "merge" /\ Merging.mac # Unknown
  /\ IF Storable(Merging) THEN Fault ELSE UNCHANGED faults
  /\ Nak("inventory") /\ merging' = NoMerge
  /\ UNCHANGED <<stream, row, ids>> /\ OnlyMerge

\* orw.policy.evaluate_device, after the commit
Announce ==
  /\ merging.pc = "announce"
  /\ Publish([to |-> "policy", mac |-> Merging.mac, id |-> merging.id])
  /\ Ack("inventory") /\ merging' = NoMerge
  /\ UNCHANGED <<row, ids, faults>> /\ OnlyMerge

\* A mistake: the device is stored, so the report is acknowledged.
AnnounceFailsLogged ==
  /\ merging.pc = "announce" /\ Fault
  /\ Ack("inventory") /\ merging' = NoMerge
  /\ UNCHANGED <<stream, row, ids>> /\ OnlyMerge

AnnounceFails ==
  /\ merging.pc = "announce" /\ Fault
  /\ Nak("inventory") /\ merging' = NoMerge
  /\ UNCHANGED <<stream, row, ids>> /\ OnlyMerge

InventoryStart ==
  /\ starts > 0 /\ starts' = starts - 1
  /\ Subscribe({"inventory"})
  /\ merging' = NoMerge
  /\ UNCHANGED <<stream, wanted, scanVars, rowVars, engine, result, accepts, faults>>

-----------------------------------------------------------------------------
\* The policy engine.
OnlyEngine == UNCHANGED <<stream, wanted, scanVars, rowVars, merging, accepts, starts>>

\* handle_evaluate_device reads the device, and its transaction begins; without
\* a device it is done.
EvaluateBegin(i) ==
  /\ Take("policy", i)
  /\ LET m == stream[i].mac  found == row[m] # NoRow /\ row[m].id = stream[i].id IN
     engine' = [pc |-> IF found THEN "read" ELSE "done", mac |-> m, id |-> stream[i].id,
                facts |-> IF found THEN row[m].facts ELSE NoRow, at |-> edits,
                todo |-> {}, rows |-> {}]
  /\ UNCHANGED <<result, faults>> /\ OnlyEngine

Enabled == {p \in Policy : policy[p] # NoRow /\ policy[p].body.enabled}

\* The policies are read by a statement of their own.
ReadPolicies ==
  /\ engine.pc = "read"
  /\ engine' = [engine EXCEPT !.pc = "record", !.todo = {[policy |-> p, body |-> policy[p].body] : p \in Enabled}]
  /\ UNCHANGED <<reached, again, current, result, faults>> /\ OnlyEngine

\* evaluate: a pattern is searched in a field that has a value, and one that is
\* no regular expression raises what _compare does not catch.
Raises(body, facts) == ~body.regular /\ facts[body.needs] # Unknown
Matches(body, facts) == facts[body.needs] # Unknown
Actions(body, facts) == IF Matches(body, facts) THEN body.match ELSE body.otherwise

\* The next policy: a least rank, ties as the database likes.
NextPolicy(e) == e \in engine.todo /\ \A o \in engine.todo : e.body.rank <= o.body.rank

\* The device or the policy of a row has been deleted: a foreign key fails.
Dangling(e) == \/ row[engine.mac] = NoRow \/ row[engine.mac].id # engine.id
               \/ policy[e.policy] = NoRow

\* str(actions) is no JSON unless the list is empty, and is refused; the
\* actions, executed after their row, never are.
Recordable(body, facts) == accepts /\ ~Raises(body, facts) /\ Actions(body, facts) = {}

Record(e) ==
  /\ engine.pc = "record" /\ NextPolicy(e)
  /\ Recordable(e.body, engine.facts) /\ ~Dangling(e)
  /\ engine' = [engine EXCEPT
       !.todo = @ \ {e},
       !.rows = @ \cup {[policy |-> e.policy, matched |-> Matches(e.body, engine.facts)]}]
  /\ UNCHANGED <<reached, again, current, result, faults>> /\ OnlyEngine

RecordRaises(e) ==
  /\ engine.pc = "record" /\ NextPolicy(e)
  /\ IF Recordable(e.body, engine.facts) /\ ~Dangling(e)
     THEN Fault ELSE UNCHANGED faults
  /\ Nak("policy") /\ engine' = NoEngine
  /\ UNCHANGED result /\ OnlyEngine

\* evaluated_at is when the transaction began.
Keyed(rows) == [k \in {<<engine.id, r.policy>> : r \in rows} |->
                  [matched |-> (CHOOSE r \in rows : r.policy = k[2]).matched, at |-> engine.at]]
\* A mistake: what was recorded first stays.
OverNot(new, old) == [k \in DOMAIN new \cup DOMAIN old |-> IF k \in DOMAIN old THEN old[k] ELSE new[k]]
Over(new, old) == [k \in DOMAIN new \cup DOMAIN old |-> IF k \in DOMAIN new THEN new[k] ELSE old[k]]

\* A mistake: the message is refused although it was handled.
EvaluateDoneRefused ==
  /\ engine.pc \in {"record", "done"} /\ engine.todo = {}
  /\ result' = Over(Keyed(engine.rows), result)
  /\ Nak("policy") /\ engine' = NoEngine
  /\ UNCHANGED faults /\ OnlyEngine

\* The commit, then the acknowledgement.
EvaluateDone ==
  /\ engine.pc \in {"record", "done"} /\ engine.todo = {}
  /\ result' = Over(Keyed(engine.rows), result)
  /\ Ack("policy") /\ engine' = NoEngine
  /\ UNCHANGED faults /\ OnlyEngine

\* A mistake: the start leaves the callback of the old process.
EngineStartDangling ==
  /\ starts > 0 /\ starts' = starts - 1
  /\ Subscribe({"policy"})
  /\ UNCHANGED <<engine, stream, wanted, scanVars, rowVars, merging, result, accepts, faults>>

EngineStart ==
  /\ starts > 0 /\ starts' = starts - 1
  /\ Subscribe({"policy"})
  /\ engine' = NoEngine
  /\ UNCHANGED <<stream, wanted, scanVars, rowVars, merging, result, accepts, faults>>

-----------------------------------------------------------------------------
\* The gateway: every request is one transaction; its messages, published
\* before the commit, have no subscriber.  Where the row gets the time the
\* transaction began, its begin is a step of its own; one that fails later on
\* is an open one that never commits.
OnlyGateway == UNCHANGED <<busVars, scanVars, merging, engine, accepts, faults, starts>>

\* Rows the engine's transaction refers to: their deletion waits for its end.
LockedId(id)    == engine.rows # {} /\ engine.id = id
LockedPolicy(p) == \E r \in engine.rows : r.policy = p

Without(lost) == [k \in DOMAIN result \ lost |-> result[k]]

\* The statements of devices/repository.py and policies/repository.py.
upsert_device(r) ==
  LET new == row[r.mac] = NoRow IN
  /\ ids' = IF new THEN ids + 1 ELSE ids
  /\ row' = [row EXCEPT ![r.mac] =
       [id    |-> IF new THEN ids + 1 ELSE @.id,
        facts |-> IF new THEN r.facts
                  ELSE [f \in Field |-> IF f \in Overwritten THEN Coalesce(r.facts, @.facts)[f]
                                        ELSE @.facts[f]],
        by    |-> 0]]
update_device(r) ==
  row' = IF row[r.mac] = NoRow THEN row
         ELSE [row EXCEPT ![r.mac] = [id |-> @.id, facts |-> Coalesce(r.facts, @.facts), by |-> 0]]
delete_device(m) ==
  /\ row' = [row EXCEPT ![m] = NoRow]
  /\ result' = IF row[m] = NoRow THEN result
               ELSE Without({k \in DOMAIN result : k[1] = row[m].id})
insert_policy(p, body, at) ==
  policy' = [policy EXCEPT ![p] = [body |-> body, at |-> at, since |-> edits + 1]]
update_policy(p, body, at) ==
  policy' = IF policy[p] = NoRow THEN policy
            ELSE [policy EXCEPT ![p] = [body |-> body, at |-> at, since |-> edits + 1]]
delete_policy(p) ==
  /\ policy' = [policy EXCEPT ![p] = NoRow]
  /\ result' = Without({k \in DOMAIN result : k[2] = p})

\* ingest_device: a second ingest touches the columns of Overwritten only.
Ingest(r) ==
  /\ Want("ingest", r) /\ Fits(r.facts)
  /\ upsert_device(r) /\ UNCHANGED <<policy, open, edits, result>> /\ OnlyGateway

\* update_device: what is None is left alone; without a row it is not found.
UpdateDevice(r) ==
  /\ Want("update", r) /\ Fits(r.facts)
  /\ update_device(r) /\ UNCHANGED <<ids, policy, open, edits, result>> /\ OnlyGateway

\* delete_device, its evaluations with it
DeleteDevice(r) ==
  /\ Want("remove", r)
  /\ row[r.mac] # NoRow => ~LockedId(row[r.mac].id)
  /\ delete_device(r.mac)
  /\ UNCHANGED <<ids, policy, open, edits>> /\ OnlyGateway

\* The first statement of create_policy, apply_template or update_policy: NOW()
\* is now until the commit.
Open(r) ==
  /\ \E kind \in {"create", "apply", "change"} : Want(kind, r)
  /\ edits' = edits + 1
  /\ open' = open \cup {[request |-> r, at |-> edits + 1]}
  /\ UNCHANGED <<row, ids, policy, result>> /\ OnlyGateway

\* A publish and an audit row later, the commit.
Commits(kind, o) == /\ o \in open /\ o.request.do = kind
                    /\ open' = open \ {o} /\ edits' = edits + 1
                    /\ UNCHANGED <<wanted, row, ids, result>> /\ OnlyGateway
CreatePolicy(o) ==
  /\ Commits("create", o) /\ policy[o.request.policy] = NoRow
  /\ insert_policy(o.request.policy, o.request.body, o.at)
\* apply_template publishes and audits nothing.
ApplyTemplate(o) ==
  /\ Commits("apply", o) /\ policy[o.request.policy] = NoRow
  /\ insert_policy(o.request.policy, [o.request.body EXCEPT !.enabled = TRUE], o.at)
UpdatePolicy(o) ==
  /\ Commits("change", o)
  /\ update_policy(o.request.policy, o.request.body, o.at)

\* delete_policy, its evaluations with it
DeletePolicy(r) ==
  /\ Want("drop", r) /\ ~LockedPolicy(r.policy)
  /\ delete_policy(r.policy)
  /\ UNCHANGED <<row, ids, open, edits>> /\ OnlyGateway

-----------------------------------------------------------------------------
ScanStep == (\E i \in Index : ScanBegin(i)) \/ ScanPublish \/ ScanDone
MergeStep == \/ \E i \in Index : MergeBegin(i)
             \/ MergeSkip \/ Merge \/ MergeRaises \/ Announce
EngineStep == \/ \E i \in Index : EvaluateBegin(i)
              \/ ReadPolicies \/ EvaluateDone
              \/ \E e \in engine.todo : Record(e) \/ RecordRaises(e)
Faulty == ScanFails \/ ScanOutlasts \/ AnnounceFails
Start == ScannerStart \/ InventoryStart \/ EngineStart
Edit == \/ \E r \in wanted : \/ Hear(r) \/ RequestScan(r) \/ Ingest(r) \/ UpdateDevice(r) \/ DeleteDevice(r)
                             \/ Open(r) \/ DeletePolicy(r)
        \/ \E o \in open : CreatePolicy(o) \/ ApplyTemplate(o) \/ UpdatePolicy(o)

Next == \/ Edit \/ Start \/ Faulty
        \/ ScanStep \/ MergeStep \/ EngineStep
        \/ \E m \in Mac : Forget(m)

Spec == Init /\ [][Next]_vars

\* Callbacks run on; the server gives the new messages, and in turn the refused
\* ones, neither waiting for the other for ever.
Fairness == /\ WF_vars(ScanStep) /\ WF_vars(MergeStep) /\ WF_vars(EngineStep)
            /\ SF_vars(\E i \in Index : First("discovery", i) /\ ScanBegin(i))
            /\ SF_vars(\E i \in Index : First("inventory", i) /\ MergeBegin(i))
            /\ SF_vars(\E i \in Index : Repeat("inventory", i) /\ MergeBegin(i))
            /\ SF_vars(\E i \in Index : First("policy", i) /\ EvaluateBegin(i))
            /\ SF_vars(\E i \in Index : Repeat("policy", i) /\ EvaluateBegin(i))
FairSpec == Spec /\ Fairness

-----------------------------------------------------------------------------
\* Every variable keeps its type, and a callback has locals exactly while its
\* consumer waits for an answer.
TypeOK ==
  /\ BusTypeOK /\ stream \in Seq(Message)
  /\ wanted \subseteq Request /\ seen \subseteq Mac
  /\ scan \in [pc : {"idle", "publish"}, done : Nat]
  /\ merging \in [pc : {"idle", "merge", "announce"}, id : 0 .. ids]
  /\ engine \in [pc : {"idle", "read", "record", "done"}, mac : Mac \cup {NoRow}, id : Nat, facts : Facts \cup {NoRow},
                 at : 0 .. edits, todo : SUBSET [policy : Policy, body : Body],
                 rows : SUBSET [policy : Policy, matched : BOOLEAN]]
  /\ scan.pc = "idle" <=> current["discovery"] = 0
  /\ merging.pc = "idle" <=> current["inventory"] = 0
  /\ engine.pc = "idle" <=> current["policy"] = 0
  /\ row \in [Mac -> [id : 1 .. ids, facts : Facts, by : {0} \cup Index] \cup {NoRow}] /\ ids \in Nat
  /\ policy \in [Policy -> [body : Body, at : 1 .. edits, since : 1 .. edits] \cup {NoRow}] /\ edits \in Nat
  /\ open \subseteq [request : Request, at : 1 .. edits]
  /\ DOMAIN result \subseteq (1 .. ids) \X Policy
  /\ \A k \in DOMAIN result : result[k] \in [matched : BOOLEAN, at : 0 .. edits]
  /\ accepts \in BOOLEAN /\ faults \in Nat /\ starts \in Nat

\* Nothing a device is known by is forgotten while its row lives, whoever
\* reports, ingests or edits it in whatever order, a report given twice included.
KnownKept ==
  [][\A m \in Mac : row[m] # NoRow /\ row'[m] # NoRow /\ row'[m].id = row[m].id
       => \A f \in Field : row[m].facts[f] # Unknown => row'[m].facts[f] # Unknown]_vars

\* An ARP scan that was answered for good has reported every host that
\* answered; the other scans do lose some.
ArpScanComplete ==
  \A i \in Index : stream[i].to = "discovery" /\ stream[i].type = "arp" /\ Settled(i) =>
    \A k \in DOMAIN stream[i].hosts : \E j \in Index : j > i /\ stream[j] = Report(stream[i].hosts[k])

\* A device a report changed last is up for evaluation, or the report will be
\* given again: a failed publish after the commit loses no evaluation
\* (device_inventory/main.py:108).
ChangeAnnounced ==
  \A m \in Mac : row[m] # NoRow /\ row[m].by # 0 =>
    \/ ~Settled(row[m].by)
    \/ \E j \in Index : j > row[m].by /\ stream[j] = [to |-> "policy", mac |-> m, id |-> row[m].id]

\* Once nothing waits, an evaluation dated after the last change of its policy
\* says what that policy finds in the device, unless it began before that
\* change, dated when its own transaction began, was committed; and unless the
\* gateway changed the device since: that never leads to an evaluation.
EvaluationCurrent ==
  (\A i \in Index : Settled(i)) =>
    \A m \in Mac, p \in Policy :
      row[m] # NoRow /\ row[m].by # 0 /\ <<row[m].id, p>> \in DOMAIN result =>
        LET r == result[<<row[m].id, p>>] IN
        r.at >= policy[p].at => \/ r.matched = Matches(policy[p].body, row[m].facts)
                               \/ r.at < policy[p].since

\* What a callback can bring to an end.
Answerable(m) ==
  CASE m.to = "discovery" -> TRUE
    [] m.to = "inventory" -> Storable(m) \/ m.mac = Unknown
    [] m.to = "policy"    -> LET d == row[m.mac] IN
         \/ d = NoRow \/ d.id # m.id
         \/ \A p \in Enabled : Recordable(policy[p].body, d.facts)

\* A message that stays answerable is answered, whatever is refused again and
\* again around it: every report the tables can hold reaches the inventory, and
\* every device is evaluated once no enabled policy raises or has an action for it.
EverySettled == <>[](\A i \in Index : Answerable(stream[i]) => Settled(i))
=============================================================================
