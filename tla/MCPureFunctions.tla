------------------------ MODULE MCPureFunctions ----------------------------
(* Values of every Python type, texts that read as numbers, as nan and as     *)
(* truth values, blanks, lists; the device contexts that tell the templates apart; *)
(* requests at the ends of the identifier and of the attribute length; short *)
(* byte strings, and answers with whole, cut and repeated Error-Causes;      *)
(* tables with every template that may fail and rows disabled or unreadable; *)
(* whitelists, and files with wrong, blank, short, long and repeated lines   *)
(* and with a name too long for its column.                                  *)
EXTENDS PureFunctions

MCFold == "A" :> "a" @@ "True" :> "true" @@ "None" :> "none" @@ "False" :> "false" @@
          "PEAP" :> "peap" @@ "EAP-TLS" :> "eap-tls" @@ "MAB" :> "mab" @@
          "Domain Users" :> "domain users" @@ "Contractors" :> "contractors"
MCNumeral == "0" :> 0 @@ "1" :> 1 @@ "7" :> 7 @@ "inf" :> 1000000
MCNan == {"nan"}
MCMd5(bytes) == [i \in 1 .. 16 |-> (Len(bytes) + i) % 256]

MCToken == {"nan", "inf", "a", "A", "b", "_", "(", "0", "1", "7", "true", "no", "date", "up_to_date", "MAB", "PEAP",
            "EAP-TLS", "Domain Users", "Contractors", "fail", "unknown", "printer", "Ip_phone",
            "ip_phone", "voip", "iot", "ip_camera", "sensor", "access_point",
            "aa:01", "AA-01", "aa:02", "zz", "x", "rack", "MAC", "mac_address", "name", "assigned_vlan_id"}
Texts == {<<>>, <<"a">>, <<"A">>, <<"_", "a">>, <<"a", "b">>, <<"true">>, <<"0">>, <<"7">>,
          <<"_", "7">>, <<"no">>, <<"_">>, <<"(">>, <<"inf">>, <<"_", "nan">>}
Scalars == {Null, Bool(TRUE), Bool(FALSE), <<"num", 0>>, <<"num", 1>>, <<"num", 7>>}
           \cup {Text(w) : w \in Texts}
Lists == {<<"list", <<>>>>, <<"list", <<Text(<<"a">>)>>>>, <<"list", <<Text(<<"true">>), Null>>>>,
          <<"list", <<<<"num", 0>>, <<"num", 7>>>>>>, <<"list", <<<<"num", 1>>, Text(<<"inf">>)>>>>,
          <<"list", <<Null, Text(<<"A">>)>>>>}
Values == Scalars \cup Lists
MCComparisons == Values \X Ops \X Values

Clock(hour, weekday) == [hour |-> hour, weekday |-> weekday, minute |-> 0, day |-> 1,
                         month |-> 1, date |-> <<"date">>]
Context(type, risk, group, compliant, clock) ==
  [columns |-> [device_type |-> type, risk_score |-> <<"num", risk>>, vendor |-> Null] @@
               (IF group = Null THEN << >> ELSE [ad_groups |-> group, auth_method |-> Text(<<"MAB">>)]),
   properties |-> IF compliant THEN [compliance |-> [antivirus |-> Text(<<"up_to_date">>)]] ELSE << >>,
   clock |-> clock]

Types == {Null, Text(<<"printer">>), Text(<<"Ip_phone">>), Text(<<"sensor">>), Text(<<"unknown">>)}
Contexts ==
  {Context(t, r, g, c, k) :
     t \in Types, r \in {0, 69, 70}, c \in BOOLEAN,
     g \in {Null, Words(<<"Contractors">>), Text(<<"Contractors">>)},
     k \in {Clock(8, 0), Clock(17, 4), Clock(18, 4), Clock(12, 5)}}

VendorField == Field("vendor", "vendor", <<"vendor">>)
Broken == Template(10, <<Condition(DeviceType, "exists", Null),
                         Condition(DeviceType, "regex", Text(<<"(">>))>>,
                   <<<<"vlan_assign", 1>>>>, <<<<"reject", "hours">>>>)
Guarded == Template(11, <<Condition(VendorField, "not_exists", Null),
                          Condition(DeviceType, "not_in", Words(<<"printer", "sensor">>)),
                          Condition(Antivirus, "is_not_empty", Null)>>,
                    <<<<"log", "warning">>>>, <<>>)
MCTemplates == {<<Templates, c>> : c \in Contexts}
MCSituations == MCTemplates \cup {<<<<Broken, Guarded>>, c>> : c \in Contexts}

MCReauthenticate == <<114, 101>>
MCAuditSession   == <<115>>
MCDefinedAcl     == <<35>>
MCSecret         == <<107>>

Ids  == {<<>>, <<97>>}
Long(n) == [i \in 1 .. n |-> 65]
Acls == {<<97>>, Long(250), Long(253), Long(254)}
MCRequests ==
  {[do |-> call[1], vendor |-> call[2], value |-> call[3], id |-> id, sid |-> s, mac |-> m] :
     call \in {<<"disconnect", "cisco", <<>>>>, <<"vlan_change", "cisco", <<49, 48>>>>,
               <<"vlan_change", "aruba", <<57>>>>, <<"reauthenticate", "juniper", <<>>>>,
               <<"reauthenticate", "cisco", <<>>>>} \cup {<<"apply_acl", "cisco", a>> : a \in Acls},
     id \in {0, 254, 255}, s \in Ids, m \in Ids}

Bytes(n) == UNION {[1 .. k -> {0, 1, 2, 3, 101}] : k \in 0 .. n}
Header(code, length) == <<code, 7, 0, length>> \o [i \in 1 .. 16 |-> 0]
MCDatagrams ==
  Bytes(5) \cup
  {Header(code, 20 + Len(body) - cut) \o body :
     code \in {41, 42, 45, 46}, cut \in {0, 1, 3},
     body \in {<<101, 6, 0, 0, 1, 247>>, <<101, 4, 1, 247>>,
              <<101, 4, 1, 247, 101, 6, 0, 0, 1, 145>>, <<18, 3, 65, 101, 6, 0, 0, 1, 245>>}}

MCSafeName == "AD One" :> "ad_one" @@ "ad.two" :> "ad_two" @@ "Corp.net" :> "corp_net" @@
              "guest" :> "guest" @@ "DEFAULT" :> "default"
MCTruncated == "core switch" :> "core switch"

Ldap(name, enabled, readable, ca, tls) ==
  [name |-> name, enabled |-> enabled, readable |-> readable, ca |-> ca, tls |-> tls]
Realm(name, type, enabled, readable) ==
  [name |-> name, type |-> type, enabled |-> enabled, readable |-> readable]
Certificate(type, name, active, enabled, key, dh) ==
  [type |-> type, name |-> name, active |-> active, enabled |-> enabled, pem |-> TRUE,
   key |-> key, dh |-> dh]

\* Certificates by type and name; two tenants may each have an active one.
CertTables ==
  LET ca == Certificate("ca", "Root", TRUE, TRUE, "none", FALSE)
      old == Certificate("ca", "Old", FALSE, TRUE, "none", FALSE)
      server(key, dh) == Certificate("server", "S", TRUE, TRUE, key, dh)
      other(key) == Certificate("server", "T", TRUE, TRUE, key, TRUE)
  IN {<<>>, <<ca>>, <<old>>, <<ca, server("readable", FALSE), [other("none") EXCEPT !.pem = FALSE]>>,
      <<ca, [other("readable") EXCEPT !.pem = FALSE], server("readable", FALSE)>>, <<Certificate("ca", "Root", TRUE, TRUE, "none", TRUE), server("readable", FALSE)>>,
      <<ca, Certificate("server", "S", TRUE, FALSE, "readable", FALSE)>>}
     \cup {<<old, ca, server(k, d)>> : k \in {"none", "readable", "unreadable"}, d \in BOOLEAN}
     \cup {<<ca, server("readable", TRUE), other(k)>> : k \in {"readable", "unreadable"}}
LdapTables ==
  {<<>>} \cup {<<Ldap("AD One", e, r, c, t)>> : e, r, c, t \in BOOLEAN}
  \cup {<<Ldap("ad.two", TRUE, TRUE, TRUE, TRUE), Ldap("AD One", e, TRUE, FALSE, FALSE)>> : e \in BOOLEAN}
RealmTables ==
  {<<>>, <<Realm("Corp.net", "proxy", TRUE, FALSE)>>, <<Realm("guest", "reject", TRUE, TRUE)>>,
   <<Realm("Corp.net", "proxy", TRUE, TRUE), Realm("DEFAULT", "local", TRUE, TRUE)>>,
   <<Realm("Corp.net", "proxy", FALSE, FALSE), Realm("guest", "proxy", TRUE, TRUE)>>}
ClientTables == {<<[name |-> "core switch", shortname |-> n, virtual_server |-> v, enabled |-> e, readable |-> r]>> :
                   n \in {"", "core"}, v \in {"", "default", "lab"}, e, r \in BOOLEAN}
Breaks == {{}, {"eap"}, {"ldap"}, {"python"}, {"default"}, {"inner-tunnel"}, {"eap", "python"}}
MCDatabases ==
  {[certs |-> c, ldap |-> l, realms |-> r, clients |-> <<>>, override |-> o, installed |-> i, broken |-> b] :
     c \in CertTables, l \in LdapTables, r \in RealmTables,
     o \in {"yes", "no", "unset"}, i \in {FALSE}, b \in Breaks}
  \cup {[certs |-> <<>>, ldap |-> <<>>, realms |-> r, clients |-> c, override |-> "unset",
         installed |-> TRUE, broken |-> {}] : r \in RealmTables, c \in ClientTables}

MCNormalMac == <<"aa:01">> :> <<"aa:01">> @@ <<"AA-01">> :> <<"aa:01">> @@ <<"aa:02">> :> <<"aa:02">>
MCInstant == <<"2030Z">> :> 2030 @@ <<"2030+00:00">> :> 2030
MCIso == 2030 :> <<"2030+00:00">>
MCWidth == "name" :> 4 @@ "device_type" :> 1

Device(mac, name, vlan, expiry, enabled) ==
  [mac_address |-> Text(mac), name |-> name, description |-> Null, device_type |-> Text(<<"printer">>),
   assigned_vlan_id |-> vlan, expiry_date |-> expiry, enabled |-> enabled]
Devices(mac) == {Device(mac, n, v, e, on) :
                   n \in {Null, Text(<<"_">>), Text(<<"A", "_", "b", "_">>), Text(<<"7">>)},
                   v \in {Null, <<"num", 7>>}, e \in {Null, <<"time", 2030>>}, on \in BOOLEAN}
MacTables == {{}} \cup {{d} : d \in Devices(<<"aa:01">>)}
             \cup {{Device(<<"aa:01">>, Null, Null, Null, TRUE), d} : d \in Devices(<<"aa:02">>)}

Lines == {<<>>, <<<<"_">>, <<>>, <<>>>>, <<<<"AA-01">>, <<"_", "A">>, <<"7">>>>, <<<<"aa:01">>, <<"b">>>>,
          <<<<"aa:02">>, <<>>, <<"x">>>>, <<<<"aa:02">>, <<"b">>, <<"0">>>>, <<<<"zz">>, <<>>, <<"1">>>>,
          <<<<"aa:02">>, <<>>, <<"1">>, <<"rack">>>>,
          <<<<"aa:02">>, <<"a", "b", "a", "b", "a">>>>}
Header3 == <<<<"MAC">>, <<"name">>, <<"assigned_vlan_id">>>>
MCFiles == {[header |-> h, lines |-> <<l1, l2, l3>>] :
              h \in {Header3, <<<<"_", "mac_address">>, <<"name">>, <<"assigned_vlan_id">>>>,
                     <<<<"mac_address">>, <<"name">>, <<"name">>>>},
              l1, l2, l3 \in Lines}
MCCsvFiles == {[file |-> f, table |-> t] : f \in {[header |-> <<>>, lines |-> <<>>]}, t \in MacTables}
              \cup {[file |-> f, table |-> t] :
                      f \in MCFiles, t \in {{}, {Device(<<"aa:01">>, Null, <<"num", 7>>, Null, FALSE)}}}
=============================================================================
