------------------------------ MODULE Commands ------------------------------
(* Orders to the network: the gateway publishes changes of authorization and *)
(* of a port's VLAN, services/auth/coa_manager.py is to send the RADIUS      *)
(* packets, services/switch_mgmt the SNMP sets and the polls.  The switches  *)
(* and whatever fills radius_sessions are the environment.                   *)
EXTENDS Bus

CONSTANTS
  Session, Mac, User, Port, Device,
  MacOf, UserOf,   \* of a session
  Contains,        \* user names <<part, whole>> with part ILIKE-contained in whole
  Vendorless,      \* sessions of a NAS, and ports of a switch, without a vendor
  Addressless,     \* sessions whose row has no nas_ip
  Call,            \* requests to the gateway, each the orders it publishes
  Plans,           \* bounds of a behaviour: the calls it may make, each once, and
                   \* the faults and starts of services it may have
  Vlan, Vlan0      \* VLANs, and the one every port has at first

\* What is published: a change of authorization, of a port's VLAN, a poll.
\* Of a VLAN to change to, only whether there is one; of an ACL name, its length.
Order == [to : {"coa"}, by : {"session_id", "mac_address", "username"}, key : Session \cup Mac \cup User,
          action : STRING, vlan_id : {"none", "some"}, acl_name : {"none", "fits", "overlong"}]
         \cup [to : {"vlan"}, port : Port, vlan : Vlan]
         \cup [to : {"poll"}, device : Device]

\* Each service has its durable consumer, a request publishes an order or more.
ASSUME ConsumersAssumption == {"coa", "vlan", "poll"} \subseteq Consumer
ASSUME OrdersAssumption    == Call \subseteq Seq(Order) \ {<<>>}
ASSUME PlansAssumption     == \A plan \in Plans : plan.faults \in Nat /\ plan.starts \in Nat
ASSUME VlanAssumption      == Vlan0 \in Vlan

VARIABLES
  call,      \* by call: how many orders are published, and its stage
  row,       \* radius_sessions: "none", "active", "ended"
  opened,    \* the sessions in the order of their start
  coa,       \* the callback of coa_service: pc, places in opened of the sessions to do
  truth,     \* the VLAN a port has
  record,    \* switch_ports.current_vlan
  setter,    \* the message that last changed the port, 0 for none
  failed,    \* messages a vlan_change_failed was published for
  setting,   \* the callback of switch-vlan
  device,    \* network_devices: "none", "uncommitted", "present"
  polled,    \* devices whose poll was saved
  refused,   \* orders of a VLAN that were refused
  faults,    \* faults still allowed
  starts     \* starts still allowed

gwVars   == <<call, device>>
coaVars  == <<row, opened, coa>>
portVars == <<truth, record, setter, failed, setting>>
vars == <<busVars, gwVars, coaVars, portVars, polled, refused, faults, starts>>

Init ==
  /\ BusInit
  /\ \E plan \in Plans :
       /\ call = [c \in Call |-> [sent |-> 0, stage |-> IF c \in plan.calls THEN "open" ELSE "unmade"]]
       /\ faults = plan.faults /\ starts = plan.starts
  /\ row = [s \in Session |-> "none"] /\ opened = <<>>
  /\ coa = [pc |-> "idle", todo |-> {}]
  /\ truth = [p \in Port |-> Vlan0] /\ record = truth
  /\ setter = [p \in Port |-> 0] /\ failed = {} /\ setting = "idle"
  /\ device = [d \in Device |-> "none"] /\ polled = {}
  /\ refused = {}

\* A failure of the broker, the database or a peer.
Fault == faults > 0 /\ faults' = faults - 1

-----------------------------------------------------------------------------
\* The gateway.

\* _send_coa_to_target, send_coa_bulk, request_port_vlan_change and
\* create_network_device: the messages of a call are published one by one, the
\* audit row and the commit come last.
PublishOrder(c) ==
  /\ call[c].stage = "open" /\ call[c].sent < Len(c)
  /\ LET order == c[call[c].sent + 1] IN
     /\ Publish(order)
     /\ device' = IF order.to = "poll" /\ device[order.device] = "none"
                  THEN [device EXCEPT ![order.device] = "uncommitted"] ELSE device
  /\ call' = [call EXCEPT ![c].sent = @ + 1]
  /\ UNCHANGED <<reached, again, current, coaVars, portVars, polled, refused, faults, starts>>

Created(c, state) ==
  device' = [d \in Device |->
               IF \E k \in DOMAIN c : c[k].to = "poll" /\ c[k].device = d
               THEN state ELSE device[d]]

\* A mistake: the audit row does not wait for the last message.
AuditAndCommitEarly(c) ==
  /\ call[c].stage = "open" /\ call[c].sent > 0
  /\ call' = [call EXCEPT ![c].stage = "audited"]
  /\ Created(c, "present")
  /\ UNCHANGED <<busVars, coaVars, portVars, polled, refused, faults, starts>>

AuditAndCommit(c) ==
  /\ call[c].stage = "open" /\ call[c].sent = Len(c)
  /\ call' = [call EXCEPT ![c].stage = "audited"]
  /\ Created(c, "present")
  /\ UNCHANGED <<busVars, coaVars, portVars, polled, refused, faults, starts>>

\* A publish, the audit row or the commit fails: the transaction is undone, the
\* messages are not.
CallFails(c) ==
  /\ call[c].stage = "open" /\ Fault
  /\ call' = [call EXCEPT ![c].stage = "failed"]
  /\ Created(c, "none")
  /\ UNCHANGED <<busVars, coaVars, portVars, polled, refused, starts>>

-----------------------------------------------------------------------------
\* Rows come and go in radius_sessions, which no program of the repository
\* fills: a session starts, its stop is accounted for or lost.  A behaviour
\* without orders to sessions (a bound) has none.
Needed == \E c \in Call : call[c].stage # "unmade" /\ c[1].to = "coa"

OpenSession(s) ==
  /\ Needed /\ row[s] = "none"
  /\ row' = [row EXCEPT ![s] = "active"]
  /\ opened' = Append(opened, s)
  /\ UNCHANGED <<busVars, gwVars, coa, portVars, polled, refused, faults, starts>>

EndSession(s) ==
  /\ row[s] = "active"
  /\ row' = [row EXCEPT ![s] = "ended"]
  /\ UNCHANGED <<busVars, gwVars, opened, coa, portVars, polled, refused, faults, starts>>

-----------------------------------------------------------------------------
\* coa_service.

Active(S) == {k \in DOMAIN opened : row[opened[k]] = "active" /\ opened[k] \in S}
Latest(places) == {k \in places : \A j \in places : j <= k}

\* _find_active_session: the latest of a MAC; _find_active_sessions_by_user:
\* all whose user name contains the one asked for.
Found(m) ==
  CASE m.by = "session_id"  -> Active({m.key})
    [] m.by = "mac_address" -> Latest(Active({s \in Session : MacOf[s] = m.key}))
    [] m.by = "username"    -> Active({s \in Session : <<m.key, UserOf[s]>> \in Contains})

Idle == [pc |-> "idle", todo |-> {}]
Doing == stream[current["coa"]]
\* The sessions are gone through in the order of their start.
Turn(k) == k \in coa.todo /\ \A j \in coa.todo : k <= j
OnlyCoa == UNCHANGED <<stream, gwVars, row, opened, portVars, polled, refused, starts>>

\* handle_coa_action, up to the sessions it found.
CoaLookup(i) ==
  /\ Take("coa", i)
  /\ coa' = [pc |-> "send", todo |-> Found(stream[i])]
  /\ UNCHANGED faults /\ OnlyCoa

\* The branches of _execute_coa: a change of VLAN needs a vlan_id that is not
\* None, an ACL a name that is not empty.
Known(m) ==
  \/ m.action \in {"disconnect", "reauthenticate"}
  \/ m.action = "vlan_change" /\ m.vlan_id # "none"
  \/ m.action = "apply_acl" /\ m.acl_name # "none"
\* vendor.lower() of None, struct.pack of an overlong ACL name
Unbuildable(m, s) ==
  \/ m.action \in {"reauthenticate", "vlan_change"} /\ s \in Vendorless
  \/ m.action = "apply_acl" /\ m.acl_name = "overlong"

Raise == Nak("coa") /\ coa' = Idle

\* A mistake: the whole order is given up at an unknown action.
SkipUnknownRaises ==
  /\ coa.pc = "send" /\ ~Known(Doing) /\ coa.todo # {}
  /\ Raise
  /\ UNCHANGED faults /\ OnlyCoa

\* _execute_coa without the packet: no row and no event tell of it.
SkipUnknown ==
  /\ coa.pc = "send" /\ ~Known(Doing)
  /\ \E k \in coa.todo : Turn(k) /\ coa' = [coa EXCEPT !.todo = @ \ {k}]
  /\ UNCHANGED <<reached, again, current, faults>> /\ OnlyCoa

FailToBuild ==
  /\ coa.pc = "send" /\ Known(Doing)
  /\ \E k \in coa.todo : Turn(k) /\ Unbuildable(Doing, opened[k])
  /\ Raise
  /\ UNCHANGED faults /\ OnlyCoa

\* _send_packet to the session's NAS: nas_ip is an INET column, so that asyncpg
\* returns an ipaddress object and create_datagram_endpoint, which looks for a
\* "%" in the host, raises a TypeError.  No packet goes.
SendRaises ==
  /\ coa.pc = "send" /\ Known(Doing)
  /\ \E k \in coa.todo : Turn(k) /\ ~Unbuildable(Doing, opened[k]) /\ opened[k] \notin Addressless
  /\ Raise
  /\ UNCHANGED faults /\ OnlyCoa

\* Without a nas_ip the host is None, the service's own loopback, where nobody
\* listens: an OSError or a timeout, and a result that failed.
SendToNobody ==
  /\ coa.pc = "send" /\ Known(Doing)
  /\ \E k \in coa.todo : Turn(k) /\ ~Unbuildable(Doing, opened[k]) /\ opened[k] \in Addressless
  /\ coa' = [coa EXCEPT !.pc = "log"]
  /\ UNCHANGED <<reached, again, current, faults>> /\ OnlyCoa

\* _log_coa: its details are the text of a Python dict with True, False and
\* None in it, which jsonb refuses; the row, the end of the session and
\* orw.coa.result never come.
Log ==
  /\ coa.pc = "log"
  /\ Raise
  /\ UNCHANGED faults /\ OnlyCoa

\* A query fails, or the secret of the NAS cannot be decrypted.
CoaFails ==
  /\ coa.pc = "send" /\ Fault
  /\ Raise
  /\ OnlyCoa

CoaDone ==
  /\ coa.pc = "send" /\ coa.todo = {}
  /\ Ack("coa") /\ coa' = Idle
  /\ UNCHANGED faults /\ OnlyCoa

\* A mistake: the callback of the old process is not forgotten.
CoaStartDangling ==
  /\ starts > 0 /\ starts' = starts - 1
  /\ Subscribe({"coa"})
  /\ UNCHANGED <<coa, stream, gwVars, row, opened, portVars, polled, refused, faults>>

CoaStart ==
  /\ starts > 0 /\ starts' = starts - 1
  /\ Subscribe({"coa"})
  /\ coa' = Idle
  /\ UNCHANGED <<stream, gwVars, row, opened, portVars, polled, refused, faults>>

-----------------------------------------------------------------------------
\* switch_mgmt.

Asked == stream[current["vlan"]]
OnlySwitch == UNCHANGED <<stream, gwVars, coaVars, polled, starts>>

\* handle_set_vlan
SetVlanBegin(i) ==
  /\ Take("vlan", i)
  /\ setting' = "snmp"
  /\ UNCHANGED <<truth, record, setter, failed, refused, faults>> /\ OnlySwitch

\* data.get("vendor", "").lower() raises for a vendor of None, outside the try.
SetVlanRaises ==
  /\ setting = "snmp" /\ Asked.port \in Vendorless
  /\ Nak("vlan") /\ refused' = refused \cup {current["vlan"]}
  /\ setting' = "idle"
  /\ UNCHANGED <<truth, record, setter, failed, faults>> /\ OnlySwitch

SnmpSet ==
  /\ setting = "snmp" /\ Asked.port \notin Vendorless
  /\ truth' = [truth EXCEPT ![Asked.port] = Asked.vlan]
  /\ setter' = [setter EXCEPT ![Asked.port] = current["vlan"]]
  /\ setting' = "row"
  /\ UNCHANGED <<record, failed, reached, again, current, refused, faults>> /\ OnlySwitch

\* A mistake: error_status is not looked at.
SnmpFailsUnseen ==
  /\ setting = "snmp" /\ Asked.port \notin Vendorless /\ Fault
  /\ setting' = "row"
  /\ UNCHANGED <<truth, setter, record, failed, reached, again, current, refused>> /\ OnlySwitch

\* No answer, or an error; the switch may have obeyed.
SnmpFails ==
  /\ setting = "snmp" /\ Asked.port \notin Vendorless /\ Fault
  /\ \/ UNCHANGED <<truth, setter>>
     \/ /\ truth' = [truth EXCEPT ![Asked.port] = Asked.vlan]
        /\ setter' = [setter EXCEPT ![Asked.port] = current["vlan"]]
  /\ setting' = "failure"
  /\ UNCHANGED <<record, failed, reached, again, current, refused>> /\ OnlySwitch

\* _update_port_vlan
RecordVlan ==
  /\ setting = "row"
  /\ record' = [record EXCEPT ![Asked.port] = Asked.vlan]
  /\ setting' = "report"
  /\ UNCHANGED <<truth, setter, failed, reached, again, current, refused, faults>> /\ OnlySwitch

\* The row, or vlan_changed, raises inside the try.
RecordFails ==
  /\ setting \in {"row", "report"} /\ Fault
  /\ setting' = "failure"
  /\ UNCHANGED <<truth, record, setter, failed, reached, again, current, refused>> /\ OnlySwitch

Report ==
  /\ setting = "report"
  /\ Ack("vlan") /\ setting' = "idle"
  /\ UNCHANGED <<truth, record, setter, failed, refused, faults>> /\ OnlySwitch

\* A mistake: the failure is only logged.
ReportFailureLogged ==
  /\ setting = "failure"
  /\ Ack("vlan") /\ setting' = "idle"
  /\ UNCHANGED <<truth, record, setter, failed, refused, faults>> /\ OnlySwitch

\* vlan_change_failed
ReportFailure ==
  /\ setting = "failure"
  /\ failed' = failed \cup {current["vlan"]}
  /\ Ack("vlan") /\ setting' = "idle"
  /\ UNCHANGED <<truth, record, setter, refused, faults>> /\ OnlySwitch

ReportFailureRaises ==
  /\ setting = "failure" /\ Fault
  /\ Nak("vlan") /\ refused' = refused \cup {current["vlan"]}
  /\ setting' = "idle"
  /\ UNCHANGED <<truth, record, setter, failed>> /\ OnlySwitch

\* handle_poll_request: whatever goes wrong is logged and the message
\* acknowledged; a device that is not committed yet is no row to update.
Poll(i) ==
  /\ First("poll", i)
  /\ reached' = [reached EXCEPT !["poll"] = i]
  /\ polled' \in {polled, polled \cup {d \in {stream[i].device} : device[d] = "present"}}
  /\ UNCHANGED <<stream, again, current, gwVars, coaVars, portVars, refused, faults, starts>>

SwitchStart ==
  /\ starts > 0 /\ starts' = starts - 1
  /\ Subscribe({"vlan", "poll"})
  /\ setting' = "idle"
  /\ UNCHANGED <<stream, gwVars, coaVars, truth, record, setter, failed, polled, refused, faults>>

-----------------------------------------------------------------------------
CoaStep == \/ \E i \in Index : CoaLookup(i)
           \/ SkipUnknown \/ FailToBuild \/ SendRaises \/ SendToNobody \/ Log \/ CoaDone
SetVlanStep == \/ \E i \in Index : SetVlanBegin(i)
               \/ SetVlanRaises \/ SnmpSet \/ RecordVlan \/ Report \/ ReportFailure
SetVlanFault == SnmpFails \/ RecordFails \/ ReportFailureRaises
PollStep == \E i \in Index : Poll(i)

Next == \/ \E c \in Call : PublishOrder(c) \/ AuditAndCommit(c) \/ CallFails(c)
        \/ \E s \in Session : OpenSession(s) \/ EndSession(s)
        \/ CoaStep \/ CoaFails \/ CoaStart
        \/ SetVlanStep \/ SetVlanFault \/ PollStep \/ SwitchStart

Spec == Init /\ [][Next]_vars

\* Callbacks run on; the server gives the new messages, and in turn the refused
\* ones, neither waiting for the other for ever.
Fairness == /\ WF_vars(CoaStep) /\ WF_vars(SetVlanStep) /\ WF_vars(PollStep)
            /\ SF_vars(\E i \in Index : First("coa", i) /\ CoaLookup(i))
            /\ SF_vars(\E i \in Index : Repeat("coa", i) /\ CoaLookup(i))
            /\ SF_vars(\E i \in Index : First("vlan", i) /\ SetVlanBegin(i))
            /\ SF_vars(\E i \in Index : Repeat("vlan", i) /\ SetVlanBegin(i))
FairSpec == Spec /\ Fairness

-----------------------------------------------------------------------------
\* Every variable keeps its type, and a callback has locals exactly while its
\* consumer waits for an answer.
TypeOK ==
  /\ BusTypeOK
  /\ stream \in Seq(Order)
  /\ call \in [Call -> [sent : Nat, stage : {"unmade", "open", "audited", "failed"}]]
  /\ \A c \in Call : call[c].sent <= Len(c)
  /\ row \in [Session -> {"none", "active", "ended"}]
  /\ opened \in Seq(Session)
  /\ coa \in [pc : {"idle", "send", "log"}, todo : SUBSET DOMAIN opened]
  /\ (coa.pc = "idle" <=> current["coa"] = 0)
  /\ truth \in [Port -> Vlan] /\ record \in [Port -> Vlan]
  /\ setter \in [Port -> {0} \cup Index] /\ failed \subseteq Index
  /\ setting \in {"idle", "snmp", "row", "report", "failure"}
  /\ (setting = "idle" <=> current["vlan"] = 0)
  /\ device \in [Device -> {"none", "uncommitted", "present"}] /\ polled \subseteq Device
  /\ refused \subseteq Index
  /\ faults \in Nat /\ starts \in Nat

\* What the audit log says was ordered is on the bus, every target of a bulk
\* call included; the opposite, orders without an audit row, does happen.
AuditedSent ==
  \A c \in Call : call[c].stage = "audited" =>
    \A k \in DOMAIN c : \E i \in Index : stream[i] = c[k]

\* A port whose row differs from the switch is one whose last change is still
\* in hand or was reported as failed: an operator hears of every drift.
DriftReported ==
  \A p \in Port : truth[p] # record[p] => setter[p] \in failed \/ ~Settled(setter[p])

\* Once nothing waits, a port has the VLAN ordered last, restarts and replays
\* included, unless one of its orders was refused or reported as failed.
LastOrderWins ==
  \A p \in Port :
    LET orders == {i \in Index : stream[i].to = "vlan" /\ stream[i].port = p} IN
    orders # {} /\ orders \cap (failed \cup refused) = {} /\ (\A i \in orders : Settled(i))
      => \E i \in orders : truth[p] = stream[i].vlan /\ \A j \in orders : j <= i

\* What a callback can bring to an end: an order whose sessions are gone, or of
\* an unknown action, a change at a switch with a vendor, every poll.
Answerable(m) ==
  CASE m.to = "vlan" -> m.port \notin Vendorless
    [] m.to = "coa"  -> ~Known(m) \/ Found(m) = {}
    [] m.to = "poll" -> TRUE

\* An order that stays answerable is answered, whatever is refused again and
\* again around it.
EverySettled == <>[](\A i \in Index : Answerable(stream[i]) => Settled(i))
=============================================================================
