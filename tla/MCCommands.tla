----------------------------- MODULE MCCommands -----------------------------
(* Two sessions of one MAC whose user names contain each other, one of them  *)
(* at a NAS without a vendor and one without a nas_ip; two ports of which    *)
(* one belongs to a switch without a vendor; one device.  A plan mixes calls *)
(* that meet at a session or a port.                                         *)
EXTENDS Commands

CONSTANTS s1, s2, mac, p1, p2, d1

MCMacOf  == [s \in {s1, s2} |-> mac]
MCUserOf == [s \in {s1, s2} |-> IF s = s1 THEN "bob" ELSE "bobby"]
MCContains == {<<"bob", "bob">>, <<"bob", "bobby">>, <<"bobby", "bobby">>}

Coa(by, key, action) == [to |-> "coa", by |-> by, key |-> key, action |-> action, vlan_id |-> "none", acl_name |-> "none"]
Acl(key, name) == [Coa("session_id", key, "apply_acl") EXCEPT !.acl_name = name]
SetVlan(p, v) == [to |-> "vlan", port |-> p, vlan |-> v]
Create(d) == [to |-> "poll", device |-> d]

Bulk     == <<Coa("username", "bob", "disconnect"), Coa("username", "bobby", "disconnect")>>
OneMac   == <<Coa("mac_address", mac, "disconnect")>>
Again    == <<Coa("mac_address", mac, "reauthenticate")>>
NoVlan   == <<Coa("username", "bob", "vlan_change")>>
ToVlan   == <<[Coa("session_id", s2, "vlan_change") EXCEPT !.vlan_id = "some"]>>
Bounce   == <<Coa("session_id", s1, "bounce_port")>>
Overlong == <<Acl(s1, "overlong")>>
Nameless == <<Acl(s1, "none")>>
First20  == <<SetVlan(p1, 20)>>
Then30   == <<SetVlan(p1, 30)>>
NoVendor == <<SetVlan(p2, 20)>>
Added    == <<Create(d1)>>

MCCall  == {Bulk, OneMac, Again, NoVlan, ToVlan, Bounce, Overlong, Nameless, First20, Then30, NoVendor, Added}
Plan(calls, f, s) == [calls |-> calls, faults |-> f, starts |-> s]
MCPlans == {Plan({Bulk}, 2, 1), Plan({OneMac, Overlong}, 1, 1), Plan({Again, NoVlan}, 1, 1), Plan({ToVlan, Nameless}, 1, 1),
            Plan({Bounce}, 0, 1), Plan({First20, Then30}, 2, 1), Plan({First20, NoVendor}, 1, 1), Plan({Added}, 1, 1)}
=============================================================================
