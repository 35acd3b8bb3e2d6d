----------------------------- MODULE MCPipeline -----------------------------
(* One device with three columns and one of a second MAC, one or two         *)
(* policies.  Every plan mixes the requests of one hazard.                   *)
EXTENDS Pipeline

CONSTANTS m1, m2, p1, p2, v, w, long

Known(ip, name, os) == [ip |-> ip, name |-> name, os |-> os]
Host(m, facts) == [mac |-> m, facts |-> facts]
Scan(type, hosts) == [do |-> "scan", type |-> type, hosts |-> hosts]
Arp   == Scan("arp", <<Host(m1, Known(v, Unknown, Unknown))>>)
Arp2  == Scan("arp", <<Host(m1, Known(v, Unknown, Unknown)), Host(m2, Known(w, Unknown, Unknown))>>)
Named == Scan("arp", <<Host(m1, Known(v, v, Unknown))>>)
Nmap  == Scan("nmap", <<Host(Unknown, Known(w, Unknown, Unknown)), Host(m1, Known(w, v, v))>>)
Wordy == Scan("nmap", <<Host(m1, Known(w, v, long)), Host(m2, Known(w, v, v))>>)
Walk  == Scan("snmp", <<Host(m1, Known(Unknown, Unknown, Unknown)), Host(m2, Known(Unknown, Unknown, Unknown))>>)
Bad   == Scan("other", <<>>)

Asking(needs, rank, match, otherwise) ==
  [enabled |-> TRUE, needs |-> needs, regular |-> TRUE, rank |-> rank, match |-> match, otherwise |-> otherwise]
Watch(p)    == [do |-> "create", policy |-> p, body |-> Asking("name", 1, {}, {})]
Punish(p)   == [do |-> "create", policy |-> p, body |-> Asking("name", 2, {}, {"quarantine"})]
Template(p) == [do |-> "apply", policy |-> p, body |-> Asking("os", 1, {"quarantine"}, {})]
Forgive(p)  == [do |-> "change", policy |-> p, body |-> [Asking("name", 2, {}, {"quarantine"}) EXCEPT !.enabled = FALSE]]
Broken(p)   == [do |-> "create", policy |-> p, body |-> [Asking("ip", 1, {}, {}) EXCEPT !.regular = FALSE]]
Mend(p)     == [do |-> "change", policy |-> p, body |-> Asking("ip", 1, {}, {})]
Switch(p, on) == [do |-> "change", policy |-> p, body |-> [Asking("name", 1, {}, {}) EXCEPT !.enabled = on]]
Drop(p)     == [do |-> "drop", policy |-> p]
IngestM1    == [do |-> "ingest", mac |-> m1, facts |-> Known(Unknown, v, w)]
UpdateM1    == [do |-> "update", mac |-> m1, facts |-> Known(Unknown, w, Unknown)]
RemoveM1    == [do |-> "remove", mac |-> m1]
HearM1      == [do |-> "hear", mac |-> m1]

Plan(requests, f, s) == [requests |-> requests, faults |-> f, starts |-> s]
MCPlans ==
  {Plan({HearM1, Bad}, 1, 1), Plan({Arp2}, 1, 0), Plan({Walk, Watch(p1)}, 1, 0), Plan({Nmap, Template(p1)}, 1, 0),
   Plan({Arp, UpdateM1, Watch(p1)}, 0, 1),
   Plan({Arp, IngestM1, RemoveM1}, 1, 0), Plan({Arp, RemoveM1, Watch(p1), Drop(p1)}, 1, 0),
   Plan({Arp, Watch(p1), Drop(p1)}, 0, 1), Plan({Arp, Nmap, Punish(p2), Forgive(p2)}, 0, 0),
   Plan({Named, Watch(p1), Switch(p1, FALSE), Switch(p1, TRUE)}, 0, 0),
   Plan({Arp, Watch(p1), Mend(p1)}, 0, 1), Plan({Arp, Broken(p1), Mend(p1)}, 0, 0), Plan({Wordy}, 0, 0)}
=============================================================================
