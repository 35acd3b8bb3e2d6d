--------------------------- MODULE Commands_proofs ---------------------------
(* What the audit log, the bus, the ports and their rows are to one another, *)
(* for any calls, sessions, ports and switches, any number of faults and of  *)
(* starts.                                                                   *)
EXTENDS Commands, Bus_proofs

-----------------------------------------------------------------------------
(* The inductive invariant.                                                  *)

\* The calls: what was counted as published is on the bus.
CallInv ==
  /\ call \in [Call -> [sent : Nat, stage : {"unmade", "open", "audited", "failed"}]]
  /\ device \in [Device -> {"none", "uncommitted", "present"}]
  /\ \A c \in Call :
       /\ call[c].sent <= Len(c)
       /\ call[c].stage = "audited" => call[c].sent = Len(c)
       /\ \A k \in 1 .. call[c].sent : \E i \in Index : stream[i] = c[k]

SessionInv == row \in [Session -> {"none", "active", "ended"}] /\ opened \in Seq(Session)

\* coa_service: a callback is in hand while its consumer waits.
CoaInv ==
  /\ coa \in [pc : {"idle", "send", "log"}, todo : SUBSET DOMAIN opened]
  /\ (coa.pc = "idle" <=> current["coa"] = 0)

\* switch_mgmt, by port: the last change is the one the port shows, a drift has
\* a message to blame that is not settled, and so long as none was refused or
\* reported the changes were made in their order.
Orders(p) == {i \in Index : stream[i].to = "vlan" /\ stream[i].port = p}
Blamed(p) ==
  \/ setter[p] \in failed \/ reached["vlan"] < setter[p]
  \/ Waits("vlan", setter[p]) \/ current["vlan"] = setter[p]
PortInv ==
  /\ truth \in [Port -> Vlan] /\ record \in [Port -> Vlan]
  /\ setter \in [Port -> {0} \cup Index] /\ failed \subseteq Index
  /\ setting \in {"idle", "snmp", "row", "report", "failure"}
  /\ (setting = "idle" <=> current["vlan"] = 0)
  /\ \A p \in Port :
       /\ setter[p] # 0 => setter[p] \in Orders(p) /\ truth[p] = stream[setter[p]].vlan
       /\ setter[p] = 0 => truth[p] = record[p]
       /\ truth[p] # record[p] => Blamed(p)
       /\ Orders(p) \cap (failed \cup refused) = {} =>
            \A i \in Orders(p) : i <= reached["vlan"] =>
              i <= setter[p] \/ (i = current["vlan"] /\ setting \in {"snmp", "failure"})
  /\ setting \in {"row", "report"} => setter[Asked.port] = current["vlan"]
  /\ setting = "report" => record[Asked.port] = Asked.vlan
  /\ \A i : Waits("vlan", i) => i \in refused
  /\ current["vlan"] # 0 => current["vlan"] \in refused \/ current["vlan"] = reached["vlan"]

RestInv == polled \subseteq Device /\ refused \subseteq Index /\ faults \in Nat /\ starts \in Nat

IInv == stream \in Seq(Order) /\ BusInv /\ CallInv /\ SessionInv /\ CoaInv /\ PortInv /\ RestInv

-----------------------------------------------------------------------------
(* What orders are, and what a step leaves alone.                            *)

\* Every order is for one of the consumers, and names what it is about.
LEMMA OrderShape ==
  ASSUME NEW m \in Order
  PROVE  /\ m.to \in Consumer
         /\ m.to = "vlan" => m.port \in Port /\ m.vlan \in Vlan
         /\ m.to = "poll" => m.device \in Device
         /\ m.to = "coa" => m.by \in {"session_id", "mac_address", "username"}
BY ConsumersAssumption DEF Order

\* A call is a sequence of orders.
LEMMA CallShape ==
  ASSUME NEW c \in Call
  PROVE  c \in Seq(Order) /\ Len(c) \in Nat /\ \A k \in 1 .. Len(c) : c[k] \in Order
BY OrdersAssumption

\* What is on the bus stays there.
LEMMA CallRests ==
  ASSUME CallInv, Grown(Order), UNCHANGED gwVars
  PROVE  CallInv'
<1> SUFFICES ASSUME NEW c \in Call, NEW k \in 1 .. call[c].sent
             PROVE  \E i \in Index' : stream'[i] = c[k]
  BY DEF CallInv, gwVars
<1> QED BY DEF CallInv, Grown

\* coa_service does not notice what others do.
LEMMA CoaRests ==
  ASSUME CoaInv, Rests("coa"), coa' = coa, DOMAIN opened \subseteq DOMAIN opened'
  PROVE  CoaInv'
BY DEF CoaInv, Rests

\* Nor does switch_mgmt: a new order is one that it has not reached.
LEMMA PortRests ==
  ASSUME stream \in Seq(Order), BusInv, PortInv, Grown(Order), Rests("vlan"), UNCHANGED portVars, refused \subseteq refused'
  PROVE  PortInv'
<1>0. Index = 1 .. Len(stream) /\ Len(stream) \in Nat /\ reached["vlan"] \in {0} \cup Index /\ current["vlan"] \in {0} \cup Index
      /\ Index \subseteq Index' /\ (\A i \in Index : stream'[i] = stream[i]) /\ Index' \subseteq Nat \ {0}
  BY BusNumbers, ConsumersAssumption DEF Index, Grown
<1>1. truth' \in [Port -> Vlan] /\ record' \in [Port -> Vlan] /\ setter' \in [Port -> {0} \cup Index'] /\ failed' \subseteq Index'
      /\ setting' \in {"idle", "snmp", "row", "report", "failure"} /\ (setting' = "idle" <=> current'["vlan"] = 0)
  BY <1>0 DEF PortInv, portVars, Rests
<1>2. ASSUME NEW p \in Port
      PROVE  /\ setter'[p] # 0 => setter'[p] \in Orders(p)' /\ truth'[p] = stream'[setter'[p]].vlan
             /\ setter'[p] = 0 => truth'[p] = record'[p]
             /\ truth'[p] # record'[p] => Blamed(p)'
  BY <1>0 DEF PortInv, portVars, Rests, Orders, Blamed
<1>3. ASSUME NEW p \in Port, Orders(p)' \cap (failed' \cup refused') = {},
             NEW i \in Orders(p)', i <= reached'["vlan"]
      PROVE  i <= setter'[p] \/ (i = current'["vlan"] /\ setting' \in {"snmp", "failure"})
  <2>1. Orders(p) \subseteq Orders(p)' /\ Orders(p) \cap (failed \cup refused) = {}
    BY <1>0, <1>3 DEF Orders, portVars
  <2>2. i \in Nat \ {0} /\ i <= reached["vlan"] /\ stream'[i].to = "vlan" /\ stream'[i].port = p
    BY <1>0, <1>3 DEF Orders, Rests
  <2>3. i \in Index
    BY <1>0, <2>2
  <2>4. i \in Orders(p)
    BY <1>0, <2>2, <2>3 DEF Orders
  <2> QED BY <2>1, <2>2, <2>4 DEF PortInv, portVars, Rests
<1>4. /\ setting' \in {"row", "report"} => setter'[Asked.port'] = current'["vlan"]
      /\ setting' = "report" => record'[Asked.port'] = Asked'.vlan
  BY <1>0 DEF PortInv, portVars, Rests, Asked
<1>5. /\ \A i : Waits("vlan", i)' => i \in refused'
      /\ current'["vlan"] # 0 => current'["vlan"] \in refused' \/ current'["vlan"] = reached'["vlan"]
  BY DEF PortInv, Rests
<1> QED BY <1>1, <1>2, <1>3, <1>4, <1>5 DEF PortInv

-----------------------------------------------------------------------------
(* The gateway and the sessions.                                             *)

\* One more order of a call is on the bus.
LEMMA PublishStep ==
  ASSUME IInv, NEW c \in Call, PublishOrder(c)
  PROVE  IInv'
<1> DEFINE m == c[call[c].sent + 1]
<1>a. /\ call[c] \in [sent : Nat, stage : {"unmade", "open", "audited", "failed"}] /\ call[c].stage = "open"
      /\ call[c].sent < Len(c) /\ Publish(m)
      /\ call' = [call EXCEPT ![c] = [call[c] EXCEPT !.sent = @ + 1]]
  BY DEF PublishOrder, IInv, CallInv
<1>b. [call[c] EXCEPT !.sent = @ + 1] = [sent |-> call[c].sent + 1, stage |-> "open"]
  BY <1>a
<1>c. call[c].sent + 1 \in 1 .. Len(c)
  BY <1>a, CallShape
<1>1. /\ call[c] \in [sent : Nat, stage : {"unmade", "open", "audited", "failed"}] /\ call[c].stage = "open"
      /\ call[c].sent + 1 \in 1 .. Len(c) /\ m \in Order /\ Publish(m)
      /\ call' = [call EXCEPT ![c] = [sent |-> call[c].sent + 1, stage |-> "open"]]
  BY <1>a, <1>b, <1>c, CallShape
<1>2. /\ Grown(Order) /\ Index' = Index \cup {Len(stream) + 1} /\ stream'[Len(stream) + 1] = m
  BY <1>1, Publishing DEF IInv
<1>3. BusInv' /\ Rests("coa") /\ Rests("vlan")
  BY <1>2, BusRests, OrderShape, ConsumersAssumption DEF PublishOrder, IInv
<1>4. device' \in [Device -> {"none", "uncommitted", "present"}]
  BY DEF PublishOrder, IInv, CallInv
<1>5. ASSUME NEW d \in Call
      PROVE  /\ call'[d] \in [sent : Nat, stage : {"unmade", "open", "audited", "failed"}]
             /\ call'[d].sent <= Len(d) /\ (call'[d].stage = "audited" => call'[d].sent = Len(d))
             /\ \A k \in 1 .. call'[d].sent : \E i \in Index' : stream'[i] = d[k]
  <2>1. CASE d = c
    <3>1. call'[d] = [sent |-> call[c].sent + 1, stage |-> "open"]
      BY <1>1, <2>1 DEF IInv, CallInv
    <3>2. ASSUME NEW k \in 1 .. call[c].sent + 1 PROVE \E i \in Index' : stream'[i] = c[k]
      <4>1. CASE k = call[c].sent + 1
        BY <4>1, <1>2
      <4>2. CASE k # call[c].sent + 1
        <5>1. k \in 1 .. call[c].sent
          BY <4>2, <1>1
        <5> QED BY <5>1, <1>2 DEF IInv, CallInv, Grown
      <4> QED BY <4>1, <4>2
    <3> QED BY <2>1, <3>1, <3>2, <1>1, CallShape
  <2>2. CASE d # c
    <3>1. call'[d] = call[d]
      BY <1>1, <2>2 DEF IInv, CallInv
    <3> QED BY <3>1, <1>2 DEF IInv, CallInv, Grown
  <2> QED BY <2>1, <2>2
<1>6. CallInv'
  BY <1>1, <1>4, <1>5 DEF CallInv, IInv
<1>7. CoaInv' /\ SessionInv'
  BY <1>2, <1>3, CoaRests DEF PublishOrder, IInv, coaVars, SessionInv
<1>8. PortInv'
  BY <1>2, <1>3, PortRests DEF PublishOrder, IInv
<1>9. RestInv' /\ stream' \in Seq(Order)
  BY <1>2 DEF PublishOrder, IInv, RestInv, Grown
<1> QED BY <1>3, <1>6, <1>7, <1>8, <1>9 DEF IInv

\* Steps that touch neither the bus nor what the services have in hand.
LEMMA OffTheBus ==
  ASSUME IInv, UNCHANGED <<busVars, coa, portVars, polled, refused, starts>>,
         DOMAIN opened \subseteq DOMAIN opened', SessionInv', CallInv', faults' \in Nat
  PROVE  IInv'
<1>1. Grown(Order)
  BY Standing DEF IInv, busVars
<1>2. BusInv' /\ Rests("coa") /\ Rests("vlan")
  BY <1>1, BusRests, OrderShape, ConsumersAssumption DEF IInv, busVars
<1>3. CoaInv'
  BY <1>1, <1>2, CoaRests DEF IInv
<1>4. PortInv'
  BY <1>1, <1>2, PortRests DEF IInv
<1>5. RestInv' /\ stream' \in Seq(Order)
  BY DEF IInv, RestInv, busVars, Index
<1> QED BY <1>2, <1>3, <1>4, <1>5 DEF IInv

\* A call ends one way or the other.
LEMMA CallEnds ==
  ASSUME IInv, NEW c \in Call, AuditAndCommit(c) \/ CallFails(c)
  PROVE  IInv'
<1>1. PICK stage \in {"audited", "failed"}, state \in {"none", "present"} :
        /\ call' = [call EXCEPT ![c].stage = stage] /\ Created(c, state)
        /\ stage = "audited" => call[c].sent = Len(c)
  BY DEF AuditAndCommit, CallFails
<1>2. call' = [call EXCEPT ![c] = [sent |-> call[c].sent, stage |-> stage]]
  <2>1. call' = [call EXCEPT ![c] = [call[c] EXCEPT !.stage = stage]]
    BY <1>1
  <2>2. call[c] \in [sent : Nat, stage : {"unmade", "open", "audited", "failed"}]
    BY DEF IInv, CallInv
  <2>3. [call[c] EXCEPT !.stage = stage] = [sent |-> call[c].sent, stage |-> stage]
    BY <2>2
  <2> QED BY <2>1, <2>3
<1>3. device' \in [Device -> {"none", "uncommitted", "present"}]
  BY <1>1 DEF Created, IInv, CallInv
<1>4. UNCHANGED <<busVars, coaVars, portVars, polled, refused, starts>> /\ faults' \in Nat
  BY DEF AuditAndCommit, CallFails, Fault, IInv, RestInv
<1>5. UNCHANGED <<stream, row, opened, coa, polled, refused, starts>>
  BY <1>4 DEF busVars, coaVars
<1>6. Index' = Index
  BY <1>5 DEF Index
<1>7. CallInv'
  BY <1>1, <1>2, <1>3, <1>5, <1>6 DEF CallInv, IInv
<1>8. SessionInv'
  BY <1>5 DEF SessionInv, IInv
<1> QED BY <1>4, <1>5, <1>7, <1>8, OffTheBus

\* Sessions start and end.
LEMMA SessionStep ==
  ASSUME IInv, NEW s \in Session, OpenSession(s) \/ EndSession(s)
  PROVE  IInv'
<1>1. UNCHANGED <<busVars, gwVars, coa, portVars, polled, refused, faults, starts>>
      /\ (opened' = opened \/ opened' = Append(opened, s))
      /\ \E state \in {"active", "ended"} : row' = [row EXCEPT ![s] = state]
  BY DEF OpenSession, EndSession
<1>2. SessionInv' /\ DOMAIN opened \subseteq DOMAIN opened'
  <2>1. opened \in Seq(Session) /\ row \in [Session -> {"none", "active", "ended"}]
    BY DEF IInv, SessionInv
  <2>2. opened' \in Seq(Session) /\ DOMAIN opened \subseteq DOMAIN opened'
    BY <1>1, <2>1
  <2>3. row' \in [Session -> {"none", "active", "ended"}]
    BY <1>1, <2>1
  <2> QED BY <2>2, <2>3 DEF SessionInv
<1>3. Grown(Order)
  BY <1>1, Standing DEF IInv, busVars
<1>4. CallInv'
  BY <1>1, <1>3, CallRests DEF IInv
<1>5. faults' \in Nat
  BY <1>1 DEF IInv, RestInv
<1> QED BY <1>1, <1>2, <1>4, <1>5, OffTheBus

-----------------------------------------------------------------------------
(* coa_service.                                                              *)

\* A lookup finds sessions that were opened.
LEMMA FoundPlaces ==
  ASSUME NEW m \in Order, m.to = "coa"
  PROVE  Found(m) \in SUBSET DOMAIN opened
<1>1. m.by \in {"session_id", "mac_address", "username"}
  BY OrderShape
<1>2. \A S : Active(S) \subseteq DOMAIN opened /\ Latest(Active(S)) \subseteq DOMAIN opened
  BY DEF Active, Latest
<1>3. CASE m.by = "session_id"
  BY <1>2, <1>3 DEF Found
<1>4. CASE m.by = "mac_address"
  BY <1>2, <1>4 DEF Found
<1>5. CASE m.by = "username"
  BY <1>2, <1>5 DEF Found
<1> QED BY <1>1, <1>3, <1>4, <1>5

\* coa_service leaves the rest of the network and of the gateway alone.
LEMMA CoaOnly ==
  ASSUME IInv, OnlyCoa, BusInv', Rests("vlan"), CoaInv', faults' \in Nat
  PROVE  IInv'
<1>1. UNCHANGED <<stream, call, device, row, opened, portVars, polled, refused, starts>>
  BY DEF OnlyCoa, gwVars
<1>2. Grown(Order) /\ Index' = Index
  BY <1>1, Standing DEF IInv, Index
<1>3. CallInv'
  BY <1>1, <1>2, CallRests DEF IInv, gwVars
<1>4. PortInv'
  BY <1>1, <1>2, PortRests DEF IInv
<1>5. SessionInv' /\ RestInv' /\ stream' \in Seq(Order)
  BY <1>1, <1>2 DEF IInv, SessionInv, RestInv
<1> QED BY <1>3, <1>4, <1>5 DEF IInv

\* A callback that raises lets its message wait again.
LEMMA RaiseStep ==
  ASSUME IInv, coa.pc # "idle", Raise, OnlyCoa, faults' \in Nat
  PROVE  IInv'
<1>1. current["coa"] # 0 /\ current["coa"] \in Index
  BY BusNumbers, ConsumersAssumption DEF IInv, CoaInv
<1>2. Grown(Order) /\ Index' = Index
  BY Standing DEF IInv, OnlyCoa, Index
<1>3. BusInv' /\ current'["coa"] = 0 /\ Rests("vlan")
  BY <1>1, <1>2, BusNak, OrderShape, ConsumersAssumption DEF IInv, Raise
<1>4. CoaInv'
  BY <1>3 DEF Raise, Idle, CoaInv
<1> QED BY <1>3, <1>4, CoaOnly

\* The sessions of an order are looked up.
LEMMA LookupStep ==
  ASSUME IInv, NEW i \in Index, CoaLookup(i)
  PROVE  IInv'
<1>1. OnlyCoa /\ Take("coa", i) /\ faults' = faults /\ coa' = [pc |-> "send", todo |-> Found(stream[i])]
  BY DEF CoaLookup
<1>2. Grown(Order) /\ Index' = Index /\ opened' = opened
  BY <1>1, Standing DEF IInv, OnlyCoa, Index
<1>3. BusInv' /\ current'["coa"] = i /\ Own("coa", i, reached'["coa"]) /\ Rests("vlan")
  BY <1>1, <1>2, BusTake, OrderShape, ConsumersAssumption DEF IInv
<1>4. Found(stream[i]) \in SUBSET DOMAIN opened
  BY <1>3, FoundPlaces DEF Own, IInv, Index
<1>5. i # 0
  BY BusNumbers DEF IInv
<1>6. CoaInv'
  BY <1>1, <1>2, <1>3, <1>4, <1>5 DEF CoaInv
<1>7. faults' \in Nat
  BY <1>1 DEF IInv, RestInv
<1> QED BY <1>1, <1>3, <1>6, <1>7, CoaOnly

\* Steps of a callback that keep its message.
LEMMA HandStep ==
  ASSUME IInv, SkipUnknown \/ SendToNobody
  PROVE  IInv'
<1>1. OnlyCoa /\ UNCHANGED <<reached, again, current, faults>>
  BY DEF SkipUnknown, SendToNobody
<1>2. Grown(Order) /\ Index' = Index /\ opened' = opened
  BY <1>1, Standing DEF IInv, OnlyCoa, Index
<1>3. BusInv' /\ Rests("coa") /\ Rests("vlan")
  BY <1>1, <1>2, BusRests, OrderShape, ConsumersAssumption DEF IInv
<1>4. coa' \in [pc : {"send", "log"}, todo : SUBSET DOMAIN opened] /\ coa.pc = "send"
  BY DEF SkipUnknown, SendToNobody, IInv, CoaInv
<1>5. CoaInv'
  BY <1>2, <1>3, <1>4 DEF IInv, CoaInv, Rests
<1>6. faults' \in Nat
  BY <1>1 DEF IInv, RestInv
<1> QED BY <1>1, <1>3, <1>5, <1>6, CoaOnly

\* An order that is done is answered.
LEMMA DoneStep ==
  ASSUME IInv, CoaDone
  PROVE  IInv'
<1>1. OnlyCoa /\ Ack("coa") /\ coa' = Idle /\ faults' = faults
  BY DEF CoaDone
<1>2. Grown(Order)
  BY <1>1, Standing DEF IInv, OnlyCoa
<1>3. BusInv' /\ current'["coa"] = 0 /\ Rests("vlan")
  BY <1>1, <1>2, BusAck, OrderShape, ConsumersAssumption DEF IInv
<1>4. CoaInv'
  BY <1>1, <1>3 DEF Idle, CoaInv
<1>5. faults' \in Nat
  BY <1>1 DEF IInv, RestInv
<1> QED BY <1>1, <1>3, <1>4, <1>5, CoaOnly

\* A start gives coa_service everything again.
LEMMA CoaStartStep ==
  ASSUME IInv, CoaStart
  PROVE  IInv'
<1>1. /\ UNCHANGED <<stream, gwVars, row, opened, portVars, polled, refused, faults>>
      /\ Subscribe({"coa"}) /\ starts' \in Nat /\ coa' = Idle
  BY DEF CoaStart, IInv, RestInv
<1>2. Grown(Order) /\ Index' = Index
  BY <1>1, Standing DEF IInv, Index
<1>3. BusInv' /\ current'["coa"] = 0 /\ Rests("vlan")
  <2>1. {"coa"} \in SUBSET Consumer /\ "vlan" \in Consumer \ {"coa"}
    BY ConsumersAssumption
  <2> QED BY <1>1, <1>2, <2>1, BusSubscribe, OrderShape DEF IInv
<1>4. CoaInv'
  BY <1>1, <1>3 DEF Idle, CoaInv
<1>5. CallInv'
  BY <1>1, <1>2, CallRests DEF IInv
<1>6. PortInv'
  BY <1>1, <1>2, <1>3, PortRests DEF IInv
<1>7. SessionInv' /\ RestInv' /\ stream' \in Seq(Order)
  BY <1>1, <1>2 DEF IInv, SessionInv, RestInv
<1> QED BY <1>3, <1>4, <1>5, <1>6, <1>7 DEF IInv

-----------------------------------------------------------------------------
(* switch_mgmt.                                                              *)

\* The change in hand is one of its port, and the last that was reached unless
\* it is a repetition.
LEMMA InHand ==
  ASSUME IInv, setting # "idle"
  PROVE  /\ current["vlan"] \in Index /\ current["vlan"] # 0 /\ current["vlan"] <= reached["vlan"]
         /\ Asked \in Order /\ Asked.port \in Port /\ Asked.vlan \in Vlan
         /\ current["vlan"] \in Orders(Asked.port)
<1>1. current["vlan"] # 0 /\ "vlan" \in Consumer
  BY ConsumersAssumption DEF IInv, PortInv
<1>2. Own("vlan", current["vlan"], reached["vlan"])
  BY <1>1 DEF IInv, BusInv
<1>3. Asked \in Order
  BY <1>2 DEF Asked, Own, Index, IInv
<1> QED BY <1>1, <1>2, <1>3, OrderShape DEF Own, Asked, Orders

\* switch_mgmt leaves sessions and calls alone.
LEMMA SwitchOnly ==
  ASSUME IInv, UNCHANGED <<stream, gwVars, coaVars>>, BusInv', Rests("coa"), PortInv', polled' \subseteq Device,
         faults' \in Nat, starts' \in Nat, refused \subseteq refused', refused' \subseteq Index
  PROVE  IInv'
<1>1. UNCHANGED <<stream, row, opened, coa, polled>> \/ UNCHANGED <<stream, row, opened, coa>>
  BY DEF coaVars
<1>2. Grown(Order) /\ Index' = Index
  BY <1>1, Standing DEF IInv, Index
<1>3. CallInv'
  BY <1>1, <1>2, CallRests DEF IInv
<1>4. CoaInv'
  BY <1>1, <1>2, CoaRests DEF IInv
<1>5. SessionInv' /\ RestInv' /\ stream' \in Seq(Order)
  BY <1>1, <1>2 DEF IInv, SessionInv, RestInv
<1> QED BY <1>3, <1>4, <1>5 DEF IInv

\* What PortInv says of one port.
PortOK(p) ==
  /\ setter[p] # 0 => setter[p] \in Orders(p) /\ truth[p] = stream[setter[p]].vlan
  /\ setter[p] = 0 => truth[p] = record[p]
  /\ truth[p] # record[p] => Blamed(p)
  /\ Orders(p) \cap (failed \cup refused) = {} =>
       \A i \in Orders(p) : i <= reached["vlan"] =>
         i <= setter[p] \/ (i = current["vlan"] /\ setting \in {"snmp", "failure"})

\* A change is taken up: the next one, or a repetition.
LEMMA BeginStep ==
  ASSUME IInv, NEW i \in Index, SetVlanBegin(i)
  PROVE  IInv'
<1>1. /\ UNCHANGED <<stream, gwVars, coaVars, polled, starts, truth, record, setter, failed, refused, faults>>
      /\ Take("vlan", i) /\ setting' = "snmp" /\ current["vlan"] = 0
  BY DEF SetVlanBegin, OnlySwitch, Take
<1>2. Grown(Order) /\ Index' = Index /\ \A p : Orders(p)' = Orders(p)
  BY <1>1, Standing DEF IInv, Index, Orders
<1>3. /\ BusInv' /\ current'["vlan"] = i /\ Own("vlan", i, reached'["vlan"]) /\ Rests("coa")
      /\ \/ First("vlan", i) /\ reached'["vlan"] = i
         \/ Waits("vlan", i) /\ reached'["vlan"] = reached["vlan"]
      /\ \A j : Waits("vlan", j) => Waits("vlan", j)' \/ j = i
      /\ \A j : Waits("vlan", j)' => Waits("vlan", j)
  BY <1>1, <1>2, BusTake, OrderShape, ConsumersAssumption DEF IInv
<1>4. Index \subseteq Nat \ {0} /\ reached["vlan"] \in Nat
  BY BusNumbers, ConsumersAssumption DEF IInv
<1>5. ASSUME NEW j \in Index, stream[j].to = "vlan", j <= reached'["vlan"]
      PROVE  j <= reached["vlan"] \/ j = i
  BY <1>3, <1>4, <1>5 DEF First, Ahead
<1>6. i \in refused \/ i = reached'["vlan"]
  BY <1>3 DEF IInv, PortInv
<1>7. ASSUME NEW p \in Port PROVE PortOK(p)'
  <2>1. setter[p] \in {0} \cup Index /\ setting = "idle"
    BY <1>1 DEF IInv, PortInv
  <2>2. /\ setter'[p] # 0 => setter'[p] \in Orders(p)' /\ truth'[p] = stream'[setter'[p]].vlan
        /\ setter'[p] = 0 => truth'[p] = record'[p]
    BY <1>1, <1>2 DEF IInv, PortInv
  <2>3. truth'[p] # record'[p] => Blamed(p)'
    <3> SUFFICES ASSUME truth[p] # record[p] PROVE Blamed(p)'
      BY <1>1
    <3>1. setter[p] # 0 /\ setter[p] \in Index /\ stream[setter[p]].to = "vlan" /\ Blamed(p)
      BY <2>1 DEF IInv, PortInv, Orders
    <3>2. CASE setter[p] \in failed
      BY <3>2, <1>1 DEF Blamed
    <3>3. CASE reached["vlan"] < setter[p]
      <4>1. reached'["vlan"] < setter[p] \/ setter[p] = i
        BY <3>1, <3>3, <1>3, <1>4, <1>5
      <4> QED BY <4>1, <1>1, <1>3 DEF Blamed
    <3>4. CASE Waits("vlan", setter[p])
      BY <3>4, <1>1, <1>3 DEF Blamed
    <3> QED BY <3>1, <3>2, <3>3, <3>4, <1>1 DEF Blamed
  <2>4. ASSUME Orders(p)' \cap (failed' \cup refused') = {}, NEW j \in Orders(p)', j <= reached'["vlan"]
        PROVE  j <= setter'[p] \/ (j = current'["vlan"] /\ setting' \in {"snmp", "failure"})
    BY <2>1, <2>4, <1>1, <1>2, <1>3, <1>5 DEF IInv, PortInv, Orders
  <2> QED BY <2>2, <2>3, <2>4 DEF PortOK
<1>8. PortInv'
  <2>1. /\ truth' \in [Port -> Vlan] /\ record' \in [Port -> Vlan]
        /\ setter' \in [Port -> {0} \cup Index'] /\ failed' \subseteq Index'
    BY <1>1, <1>2 DEF IInv, PortInv
  <2>2. setting' = "snmp" /\ current'["vlan"] # 0
        /\ (current'["vlan"] \in refused' \/ current'["vlan"] = reached'["vlan"])
        /\ \A j : Waits("vlan", j)' => j \in refused'
    BY <1>1, <1>3, <1>4, <1>6 DEF IInv, PortInv
  <2> QED BY <1>7, <2>1, <2>2 DEF PortInv, PortOK
<1> QED BY <1>1, <1>3, <1>8, SwitchOnly DEF IInv, RestInv

\* A callback comes to its end: done, reported as failed, or raised and to come
\* again.
LEMMA EndStep ==
  ASSUME IInv, SetVlanRaises \/ Report \/ ReportFailure \/ ReportFailureRaises
  PROVE  IInv'
<1> DEFINE i == current["vlan"]
<1>1. /\ UNCHANGED <<stream, gwVars, coaVars, polled, starts, truth, record, setter>>
      /\ setting' = "idle" /\ setting # "idle" /\ faults' \in Nat
      /\ \/ Nak("vlan") /\ refused' = refused \cup {i} /\ failed' = failed
         \/ Ack("vlan") /\ refused' = refused /\ ((setting = "report" /\ failed' = failed) \/ failed' = failed \cup {i})
  BY DEF SetVlanRaises, Report, ReportFailure, ReportFailureRaises, OnlySwitch, Fault, IInv, RestInv
<1>2. Grown(Order) /\ Index' = Index /\ \A p : Orders(p)' = Orders(p)
  BY <1>1, Standing DEF IInv, Index, Orders
<1>3. /\ i \in Index /\ i # 0 /\ i <= reached["vlan"] /\ Asked \in Order /\ Asked.port \in Port
      /\ i \in Orders(Asked.port)
  BY <1>1, InHand
<1>4. /\ BusInv' /\ current'["vlan"] = 0 /\ reached'["vlan"] = reached["vlan"] /\ Rests("coa")
      /\ \A j : Waits("vlan", j) => Waits("vlan", j)'
      /\ \A j : Waits("vlan", j)' => Waits("vlan", j) \/ j \in refused'
      /\ \A j : j = i => Waits("vlan", j)' \/ setting = "report" \/ j \in failed'
  <2>1. CASE Nak("vlan") /\ refused' = refused \cup {i} /\ failed' = failed
    <3>1. /\ BusInv' /\ current'["vlan"] = 0 /\ reached'["vlan"] = reached["vlan"] /\ Rests("coa")
          /\ \A j : Waits("vlan", j)' <=> Waits("vlan", j) \/ j = i
      BY <2>1, <1>2, <1>3, BusNak, OrderShape, ConsumersAssumption DEF IInv
    <3> QED BY <3>1, <2>1
  <2>2. CASE Ack("vlan") /\ refused' = refused /\ ((setting = "report" /\ failed' = failed) \/ failed' = failed \cup {i})
    <3>1. /\ BusInv' /\ current'["vlan"] = 0 /\ reached'["vlan"] = reached["vlan"] /\ Rests("coa")
          /\ \A j : Waits("vlan", j)' <=> Waits("vlan", j)
      BY <2>2, <1>2, BusAck, OrderShape, ConsumersAssumption DEF IInv
    <3> QED BY <3>1, <2>2
  <2> QED BY <1>1, <2>1, <2>2
<1>5. refused \subseteq refused' /\ refused' \subseteq Index /\ failed \subseteq failed' /\ failed' \subseteq Index
  BY <1>1, <1>3 DEF IInv, RestInv, PortInv
<1>6. ASSUME NEW p \in Port PROVE PortOK(p)'
  <2>1. /\ setter'[p] # 0 => setter'[p] \in Orders(p)' /\ truth'[p] = stream'[setter'[p]].vlan
        /\ setter'[p] = 0 => truth'[p] = record'[p]
    BY <1>1, <1>2 DEF IInv, PortInv
  <2>2. truth'[p] # record'[p] => Blamed(p)'
    <3> SUFFICES ASSUME truth[p] # record[p] PROVE Blamed(p)'
      BY <1>1
    <3>1. Blamed(p) /\ setter[p] # 0 /\ setter[p] \in Orders(p) /\ truth[p] = stream[setter[p]].vlan
      BY DEF IInv, PortInv
    <3>2. CASE setter[p] = i
      <4>1. setting # "report"
        BY <3>1, <3>2 DEF IInv, PortInv, Orders, Asked
      <4> QED BY <4>1, <3>2, <1>1, <1>4 DEF Blamed
    <3>3. CASE setter[p] # i
      BY <3>1, <3>3, <1>1, <1>4, <1>5 DEF Blamed
    <3> QED BY <3>2, <3>3
  <2>3. ASSUME Orders(p)' \cap (failed' \cup refused') = {}, NEW j \in Orders(p)', j <= reached'["vlan"]
        PROVE  j <= setter'[p] \/ (j = current'["vlan"] /\ setting' \in {"snmp", "failure"})
    <3>1. j \in Orders(p) /\ j <= reached["vlan"] /\ Orders(p) \cap (failed \cup refused) = {}
      BY <2>3, <1>2, <1>4, <1>5
    <3>2. j <= setter[p] \/ (j = i /\ setting \in {"snmp", "failure"})
      BY <3>1 DEF IInv, PortInv
    <3> QED BY <3>2, <2>3, <1>1
  <2> QED BY <2>1, <2>2, <2>3 DEF PortOK
<1>7. PortInv'
  <2>1. /\ truth' \in [Port -> Vlan] /\ record' \in [Port -> Vlan]
        /\ setter' \in [Port -> {0} \cup Index'] /\ failed' \subseteq Index'
    BY <1>1, <1>2, <1>5 DEF IInv, PortInv
  <2>2. setting' = "idle" /\ current'["vlan"] = 0 /\ \A j : Waits("vlan", j)' => j \in refused'
    BY <1>1, <1>4, <1>5 DEF IInv, PortInv
  <2> QED BY <1>6, <2>1, <2>2 DEF PortInv, PortOK
<1> QED BY <1>1, <1>4, <1>5, <1>7, SwitchOnly DEF IInv, RestInv

\* Steps between: the switch, the row, or neither is changed, and the message
\* stays in hand.
LEMMA ChangeStep ==
  ASSUME IInv, SnmpSet \/ SnmpFails \/ RecordVlan \/ RecordFails
  PROVE  IInv'
<1> DEFINE i == current["vlan"]
           q == Asked.port
<1>1. /\ UNCHANGED <<stream, gwVars, coaVars, polled, starts, failed, refused>>
      /\ UNCHANGED <<reached, again, current>> /\ faults' \in Nat
  BY DEF SnmpSet, SnmpFails, RecordVlan, RecordFails, OnlySwitch, Fault, IInv, RestInv
<1>2. Grown(Order) /\ Index' = Index /\ Asked' = Asked /\ \A p : Orders(p)' = Orders(p)
  BY <1>1, Standing DEF IInv, Index, Orders, Asked
<1>3. BusInv' /\ Rests("coa") /\ Rests("vlan")
  BY <1>1, <1>2, BusRests, OrderShape, ConsumersAssumption DEF IInv
<1>4. setting # "idle"
  BY DEF SnmpSet, SnmpFails, RecordVlan, RecordFails
<1>5. /\ i \in Index /\ i # 0 /\ i <= reached["vlan"] /\ q \in Port /\ Asked.vlan \in Vlan /\ i \in Orders(q)
      /\ Index \subseteq Nat /\ Asked = stream[i]
  BY <1>4, InHand, BusNumbers DEF Asked, IInv
\* The switch was changed, or was not.
<1>6. \/ /\ truth' = [truth EXCEPT ![q] = Asked.vlan] /\ setter' = [setter EXCEPT ![q] = i]
         /\ setting = "snmp" /\ setting' \in {"row", "failure"} /\ record' = record
      \/ /\ UNCHANGED <<truth, setter, record>>
         /\ setting' = "failure"
      \/ /\ UNCHANGED <<truth, setter>> /\ record' = [record EXCEPT ![q] = Asked.vlan]
         /\ setting = "row" /\ setting' = "report"
  BY DEF SnmpSet, SnmpFails, RecordVlan, RecordFails
<1>7. /\ truth \in [Port -> Vlan] /\ record \in [Port -> Vlan] /\ setter \in [Port -> {0} \cup Index]
      /\ \A p \in Port : PortOK(p)
  BY DEF IInv, PortInv, PortOK
<1>8. ASSUME NEW p \in Port PROVE PortOK(p)'
  <2>1. CASE /\ truth' = [truth EXCEPT ![q] = Asked.vlan] /\ setter' = [setter EXCEPT ![q] = i]
             /\ setting = "snmp" /\ setting' \in {"row", "failure"} /\ record' = record
    <3>1. CASE p = q
      <4>1. setter'[p] = i /\ truth'[p] = Asked.vlan
        BY <2>1, <3>1, <1>5, <1>7
      <4>2. Blamed(p)'
        BY <4>1, <1>1 DEF Blamed
      <4>3. ASSUME Orders(p)' \cap (failed' \cup refused') = {}, NEW j \in Orders(p)', j <= reached'["vlan"]
            PROVE  j <= setter'[p]
        <5>1. i = reached["vlan"]
          BY <4>3, <3>1, <1>1, <1>2, <1>5 DEF IInv, PortInv
        <5> QED BY <5>1, <4>1, <4>3, <1>1
      <4> QED BY <4>1, <4>2, <4>3, <3>1, <1>2, <1>5, <1>1 DEF PortOK
    <3>2. CASE p # q
      <4>1. setter'[p] = setter[p] /\ truth'[p] = truth[p] /\ record'[p] = record[p]
        BY <2>1, <3>2, <1>5, <1>7
      <4>2. i \notin Orders(p)
        BY <3>2, <1>5 DEF Orders
      <4> QED BY <4>1, <4>2, <1>1, <1>2, <1>3, <1>7 DEF PortOK, Blamed, Rests
    <3> QED BY <3>1, <3>2
  <2>2. CASE UNCHANGED <<truth, setter, record>> /\ setting' = "failure"
    BY <2>2, <1>1, <1>2, <1>3, <1>7 DEF PortOK, Blamed, Rests
  <2>3. CASE /\ UNCHANGED <<truth, setter>> /\ record' = [record EXCEPT ![q] = Asked.vlan]
             /\ setting = "row" /\ setting' = "report"
    <3>1. CASE p = q
      <4>1. setter[q] = i
        BY <2>3 DEF IInv, PortInv
      <4>2. truth'[p] = Asked.vlan /\ record'[p] = Asked.vlan
        BY <4>1, <2>3, <3>1, <1>5, <1>7 DEF PortOK
      <4> QED BY <4>1, <4>2, <2>3, <3>1, <1>1, <1>2, <1>3, <1>5, <1>7 DEF PortOK, Rests
    <3>2. CASE p # q
      <4>1. record'[p] = record[p]
        BY <2>3, <3>2, <1>7
      <4> QED BY <4>1, <2>3, <1>1, <1>2, <1>3, <1>7 DEF PortOK, Blamed, Rests
    <3> QED BY <3>1, <3>2
  <2> QED BY <1>6, <2>1, <2>2, <2>3
<1>9. PortInv'
  <2>1. /\ truth' \in [Port -> Vlan] /\ record' \in [Port -> Vlan]
        /\ setter' \in [Port -> {0} \cup Index'] /\ failed' \subseteq Index'
    BY <1>1, <1>2, <1>5, <1>6, <1>7 DEF IInv, PortInv
  <2>2. /\ setting' \in {"row", "report", "failure"} /\ current'["vlan"] = i /\ Asked'.port = q /\ Asked'.vlan = Asked.vlan
        /\ i \in refused' \/ i = reached'["vlan"]
        /\ \A j : Waits("vlan", j)' => j \in refused'
    BY <1>1, <1>2, <1>3, <1>5, <1>6 DEF IInv, PortInv, Rests
  <2>3. setting' \in {"row", "report"} => setter'[q] = i
    BY <1>5, <1>6, <1>7 DEF IInv, PortInv
  <2>4. setting' = "report" => record'[q] = Asked.vlan
    BY <1>5, <1>6, <1>7
  <2>5. current'["vlan"] # 0 /\ setting' # "idle"
    BY <2>2, <1>5
  <2> QED BY <1>8, <2>1, <2>2, <2>3, <2>4, <2>5 DEF PortInv, PortOK
<1> QED BY <1>1, <1>3, <1>9, SwitchOnly DEF IInv, RestInv

\* A poll is done with at once.
LEMMA PollKeeps ==
  ASSUME IInv, NEW i \in Index, Poll(i)
  PROVE  IInv'
<1>1. /\ UNCHANGED <<stream, gwVars, coaVars, portVars, refused, faults, starts>> /\ UNCHANGED <<again, current>>
      /\ First("poll", i) /\ reached' = [reached EXCEPT !["poll"] = i]
      /\ polled' \in {polled, polled \cup {d \in {stream[i].device} : device[d] = "present"}}
  BY DEF Poll
<1>2. Grown(Order) /\ Index' = Index
  BY <1>1, Standing DEF IInv, Index
<1>3. BusInv' /\ Rests("coa") /\ Rests("vlan")
  <2>1. "poll" \in Consumer /\ "coa" \in Consumer \ {"poll"} /\ "vlan" \in Consumer \ {"poll"}
    BY ConsumersAssumption
  <2> QED BY <1>1, <1>2, <2>1, BusSkip, OrderShape DEF IInv
<1>4. PortInv'
  BY <1>1, <1>2, <1>3, PortRests DEF IInv
<1>5. polled' \subseteq Device
  <2>1. stream[i] \in Order /\ stream[i].to = "poll"
    BY <1>1 DEF First, Ahead, IInv, Index
  <2> QED BY <1>1, <2>1, OrderShape DEF IInv, RestInv
<1> QED BY <1>1, <1>3, <1>4, <1>5, SwitchOnly DEF IInv, RestInv

\* A start gives switch_mgmt everything again, from the first order on.
LEMMA SwitchStartStep ==
  ASSUME IInv, SwitchStart
  PROVE  IInv'
<1>1. /\ UNCHANGED <<stream, gwVars, coaVars, truth, record, setter, failed, polled, refused, faults>>
      /\ Subscribe({"vlan", "poll"}) /\ starts' \in Nat /\ setting' = "idle"
  BY DEF SwitchStart, IInv, RestInv
<1>2. Grown(Order) /\ Index' = Index /\ \A p : Orders(p)' = Orders(p)
  BY <1>1, Standing DEF IInv, Index, Orders
<1>3. BusInv' /\ reached'["vlan"] = 0 /\ current'["vlan"] = 0 /\ (\A j : ~Waits("vlan", j)') /\ Rests("coa")
  <2>1. {"vlan", "poll"} \in SUBSET Consumer /\ "coa" \in Consumer \ {"vlan", "poll"}
    BY ConsumersAssumption
  <2> QED BY <1>1, <1>2, <2>1, BusSubscribe, OrderShape DEF IInv
<1>4. Index \subseteq Nat \ {0}
  BY BusNumbers DEF IInv
<1>5. ASSUME NEW p \in Port PROVE PortOK(p)'
  <2>1. setter[p] = 0 \/ setter[p] \in Index
    BY DEF IInv, PortInv
  <2>2. /\ setter'[p] # 0 => setter'[p] \in Orders(p)' /\ truth'[p] = stream'[setter'[p]].vlan
        /\ setter'[p] = 0 => truth'[p] = record'[p]
    BY <1>1, <1>2 DEF IInv, PortInv
  <2>3. setter'[p] # 0 => Blamed(p)'
    <3> SUFFICES ASSUME setter'[p] # 0 PROVE Blamed(p)'
      OBVIOUS
    <3>1. setter'[p] \in Nat \ {0}
      BY <2>1, <1>1, <1>4
    <3>2. reached'["vlan"] < setter'[p]
      BY <3>1, <1>3
    <3> QED BY <3>2 DEF Blamed
  <2>4. ASSUME NEW j \in Orders(p)' PROVE ~(j <= reached'["vlan"])
    <3>1. j \in Nat \ {0}
      BY <1>2, <1>4 DEF Orders
    <3> QED BY <3>1, <1>3
  <2> QED BY <2>2, <2>3, <2>4 DEF PortOK
<1>6. PortInv'
  BY <1>1, <1>2, <1>3, <1>5 DEF IInv, PortInv, PortOK
<1> QED BY <1>1, <1>3, <1>6, SwitchOnly DEF IInv, RestInv

-----------------------------------------------------------------------------
(* The invariant and what follows from it.                                   *)

\* Nothing was ordered, sent or changed in the beginning.
LEMMA InvInit ==
  Init => IInv
<1> SUFFICES ASSUME Init PROVE IInv
  OBVIOUS
<1>1. BusInv /\ stream = <<>> /\ Index = {}
  BY BusStarts DEF Init, BusInit, Index
<1>2. current = [c \in Consumer |-> 0] /\ again = [c \in Consumer |-> <<>>]
  BY DEF Init, BusInit
<1>3. PICK plan \in Plans :
        /\ call = [c \in Call |-> [sent |-> 0, stage |-> IF c \in plan.calls THEN "open" ELSE "unmade"]]
        /\ faults = plan.faults /\ starts = plan.starts
  BY DEF Init
<1>4. CallInv
  <2>1. device \in [Device -> {"none", "uncommitted", "present"}]
    BY DEF Init
  <2>2. call \in [Call -> [sent : Nat, stage : {"unmade", "open", "audited", "failed"}]]
    BY <1>3
  <2>3. \A c \in Call : call[c].sent = 0 /\ call[c].stage # "audited" /\ Len(c) \in Nat
    BY <1>3, CallShape
  <2> QED BY <2>1, <2>2, <2>3 DEF CallInv
<1>5. \A i : ~Waits("coa", i) /\ ~Waits("vlan", i)
  BY <1>2, ConsumersAssumption DEF Waits
<1>6. CoaInv
  BY <1>1, <1>2, <1>5, ConsumersAssumption DEF CoaInv, Init
<1>7. PortInv
  <2>1. truth \in [Port -> Vlan] /\ record = truth /\ setter = [p \in Port |-> 0] /\ failed = {} /\ setting = "idle"
    BY VlanAssumption DEF Init
  <2>2. \A p \in Port : Orders(p) = {}
    BY <1>1 DEF Orders
  <2> QED BY <2>1, <2>2, <1>2, <1>5, ConsumersAssumption DEF PortInv
<1>8. SessionInv /\ RestInv
  BY <1>3, PlansAssumption DEF SessionInv, RestInv, Init
<1> QED BY <1>1, <1>4, <1>6, <1>7, <1>8 DEF IInv

\* Every step keeps it.
LEMMA InvStep ==
  IInv /\ [Next]_vars => IInv'
<1> SUFFICES ASSUME IInv, [Next]_vars PROVE IInv'
  OBVIOUS
<1>1. CASE \E c \in Call : PublishOrder(c) \/ AuditAndCommit(c) \/ CallFails(c)
  BY <1>1, PublishStep, CallEnds
<1>2. CASE \E s \in Session : OpenSession(s) \/ EndSession(s)
  BY <1>2, SessionStep
<1>3. CASE SkipUnknown \/ SendToNobody
  BY <1>3, HandStep
<1>4. CASE FailToBuild \/ SendRaises \/ Log \/ CoaFails
  <2>1. coa.pc # "idle" /\ Raise /\ OnlyCoa /\ faults' \in Nat
    BY <1>4 DEF FailToBuild, SendRaises, Log, CoaFails, Fault, IInv, RestInv
  <2> QED BY <2>1, RaiseStep
<1>5. CASE CoaDone
  BY <1>5, DoneStep
<1>6. CASE \E i \in Index : CoaLookup(i)
  BY <1>6, LookupStep
<1>7. CASE CoaStart
  BY <1>7, CoaStartStep
<1>8. CASE \E i \in Index : SetVlanBegin(i)
  BY <1>8, BeginStep
<1>9. CASE SetVlanRaises \/ Report \/ ReportFailure \/ ReportFailureRaises
  BY <1>9, EndStep
<1>10. CASE SnmpSet \/ SnmpFails \/ RecordVlan \/ RecordFails
  BY <1>10, ChangeStep
<1>11. CASE PollStep
  BY <1>11, PollKeeps DEF PollStep
<1>12. CASE SwitchStart
  BY <1>12, SwitchStartStep
<1>13. CASE UNCHANGED vars
  <2>1. UNCHANGED <<busVars, gwVars, coaVars, portVars, polled, refused, faults, starts>>
    BY <1>13 DEF vars
  <2>2. UNCHANGED <<stream, reached, again, current, row, opened, coa>>
    BY <2>1 DEF busVars, coaVars
  <2>3. Grown(Order) /\ CallInv' /\ SessionInv' /\ faults' \in Nat
    BY <2>1, <2>2, Standing, CallRests DEF IInv, SessionInv, RestInv
  <2> QED BY <2>1, <2>2, <2>3, OffTheBus
<1> QED BY <1>1, <1>2, <1>3, <1>4, <1>5, <1>6, <1>7, <1>8, <1>9, <1>10, <1>11, <1>12, <1>13
        DEF Next, CoaStep, SetVlanStep, SetVlanFault

\* The invariant holds throughout.
LEMMA Invariance ==
  Spec => []IInv
<1> QED BY InvInit, InvStep, PTL DEF Spec

\* Every variable keeps its type, and a callback is in hand exactly while its
\* consumer waits for an answer, whatever is refused, lost or restarted.
THEOREM TypeCorrect ==
  Spec => []TypeOK
<1>1. IInv => TypeOK
  <2> SUFFICES ASSUME IInv PROVE TypeOK
    OBVIOUS
  <2>1. /\ BusTypeOK /\ stream \in Seq(Order)
        /\ row \in [Session -> {"none", "active", "ended"}] /\ opened \in Seq(Session)
    BY DEF IInv, BusInv, SessionInv
  <2>2. /\ call \in [Call -> [sent : Nat, stage : {"unmade", "open", "audited", "failed"}]]
        /\ \A c \in Call : call[c].sent <= Len(c)
        /\ device \in [Device -> {"none", "uncommitted", "present"}]
    BY DEF IInv, CallInv
  <2> QED BY <2>1, <2>2 DEF IInv, CoaInv, PortInv, RestInv, TypeOK
<1> QED BY <1>1, Invariance, PTL

\* Whatever the audit log says was ordered is on the bus, for calls of any
\* number of orders of which any may fail to be published.
THEOREM AuditTrue ==
  Spec => []AuditedSent
<1>1. IInv => AuditedSent
  <2> SUFFICES ASSUME IInv, NEW c \in Call, call[c].stage = "audited", NEW k \in DOMAIN c
               PROVE  \E i \in Index : stream[i] = c[k]
    BY DEF AuditedSent
  <2>1. k \in 1 .. call[c].sent
    BY CallShape DEF IInv, CallInv
  <2> QED BY <2>1 DEF IInv, CallInv
<1> QED BY <1>1, Invariance, PTL

\* A port whose row says another VLAN than it has is one whose last change is
\* still in hand or was reported as failed, whatever write, answer or report
\* fails and however often the service starts.
THEOREM DriftHeard ==
  Spec => []DriftReported
<1>1. IInv => DriftReported
  <2> SUFFICES ASSUME IInv, NEW p \in Port, truth[p] # record[p]
               PROVE  setter[p] \in failed \/ ~Settled(setter[p])
    BY DEF DriftReported
  <2>1. Blamed(p) /\ setter[p] # 0 /\ stream[setter[p]].to = "vlan"
    BY DEF IInv, PortInv, Orders
  <2>2. setter[p] \in Nat /\ reached["vlan"] \in Nat
    BY BusNumbers, ConsumersAssumption DEF IInv, PortInv
  <2> QED BY <2>1, <2>2 DEF Blamed, Settled
<1> QED BY <1>1, Invariance, PTL

\* Once nothing waits, a port of which no order was refused or failed has the
\* VLAN that was ordered last, for any number of orders, ports and restarts.
THEOREM LastWins ==
  Spec => []LastOrderWins
<1>1. IInv => LastOrderWins
  <2> SUFFICES ASSUME IInv, NEW p \in Port, Orders(p) # {}, Orders(p) \cap (failed \cup refused) = {},
                      \A i \in Orders(p) : Settled(i)
               PROVE  \E i \in Orders(p) : truth[p] = stream[i].vlan /\ \A j \in Orders(p) : j <= i
    BY DEF LastOrderWins, Orders
  <2>1. \A i \in Orders(p) : i <= reached["vlan"] /\ i # current["vlan"]
    BY BusNumbers, ConsumersAssumption DEF IInv, Orders, Settled
  <2>2. \A i \in Orders(p) : i <= setter[p] /\ i # 0
    BY <2>1, BusNumbers DEF IInv, PortInv, Orders
  <2>3. setter[p] # 0
    BY <2>2, BusNumbers DEF IInv, Orders
  <2>4. setter[p] \in Orders(p) /\ truth[p] = stream[setter[p]].vlan
    BY <2>3 DEF IInv, PortInv
  <2> QED BY <2>2, <2>4
<1> QED BY <1>1, Invariance, PTL
==============================================================================
