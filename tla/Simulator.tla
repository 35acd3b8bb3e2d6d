----------------------------- MODULE Simulator -----------------------------
(* The second copy of the evaluator, shared/orw_common/policy_evaluator.py,  *)
(* with which the gateway simulates policies, and the templates it offers.   *)
(* Only what is Python's (Str, Truthy, PyEqual, float) is taken from         *)
(* Evaluator; what the copy's text says is translated again.                 *)
EXTENDS Evaluator

\* A mistake: blanks around a text are kept.
SimNormalizeUnstripped(v) ==
  LET w == IF IsA("text", v) THEN Lower(v[2]) ELSE <<>> IN
  IF ~IsA("text", v) THEN v
  ELSE IF w \in Yes \cup No THEN Bool(w \in Yes) ELSE Text(w)

SimNormalize(v) ==
  LET w == IF IsA("text", v) THEN Strip(Lower(v[2])) ELSE <<>> IN
  IF ~IsA("text", v) THEN v
  ELSE IF w \in Yes \cup No THEN Bool(w \in Yes) ELSE Text(w)

SimEquals(a, b) ==
  \/ a = Null /\ b = Null
  \/ /\ a # Null /\ b # Null
     /\ IF IsA("text", a) /\ IsA("text", b) THEN Lower(a[2]) = Lower(b[2])
        ELSE IF IsA("bool", a) \/ IsA("bool", b) THEN Truthy(a) = Truthy(b)
        ELSE PyEqual(a, b)

\* The operators that find something: each disjunct one branch of the match.
SimFinds(a, op, e) ==
  LET an == SimNormalize(a)  en == SimNormalize(e)
      Set(v) == {SimNormalize(x) : x \in Elements(v)}
      Meets(x, S) == \E y \in S : PyEqual(x, y)
  IN \/ op = "equals" /\ SimEquals(an, en)
     \/ op = "in" /\ IsA("list", e) /\ Meets(an, Set(e))
     \/ op = "in" /\ ~IsA("list", e) /\ Truthy(an) /\ Within(Str(an), Str(en))
     \/ op = "contains" /\ Truthy(a) /\ Within(Lower(Str(en)), Lower(Str(a)))
     \/ op = "starts_with" /\ Truthy(a) /\ StartsWith(Lower(Str(a)), Lower(Str(en)))
     \/ op = "ends_with" /\ Truthy(a) /\ EndsWith(Lower(Str(a)), Lower(Str(en)))
     \/ op = "regex" /\ Truthy(a) /\ ~BadPattern(e) /\ Within(Str(e), Str(a))
     \/ op = "is_empty" /\ (a = Null \/ a = Text(<<>>) \/ a = <<"list", <<>>>>)
     \/ op = "exists" /\ a # Null
     \/ /\ op = "is_member_of" /\ IsA("list", a)
        /\ IF IsA("list", e)
           THEN /\ \A x \in Set(a) \cup Set(e) : ~IsA("list", x)
                /\ \E x \in Set(a) : Meets(x, Set(e))
           ELSE Meets(en, Set(a))
     \/ op = "matches_oui" /\ Truthy(a) /\ Truthy(en) /\ Oui(Lower(Str(a))) = Oui(Lower(Str(en)))

\* The comparisons of numbers; what float() refuses is no match.
SimOrders(a, op, e) ==
  \/ /\ IsOrdered(a) /\ IsOrdered(e)
     /\ LET d == NumberOf(a) - NumberOf(e) IN
        \/ op = "gt" /\ d > 0
        \/ op = "gte" /\ d >= 0
        \/ op = "lt" /\ d < 0
        \/ op = "lte" /\ d <= 0
  \/ /\ op = "between" /\ IsA("list", e) /\ Len(e[2]) = 2 /\ IsOrdered(a)
     /\ \A x \in Elements(e) : IsOrdered(x) /\ x \notin {Null, Text(<<>>), <<"list", <<>>>>}
     /\ NumberOf(a) \in NumberOf(e[2][1]) .. NumberOf(e[2][2])

Opposite == [not_equals |-> "equals", not_in |-> "in", not_contains |-> "contains",
             not_exists |-> "exists", is_not_empty |-> "is_empty"]

SimCompare(a, op, e) ==
  IF op = "regex" /\ Truthy(a) /\ BadPattern(e) THEN "raises"
  ELSE IF IF op \in DOMAIN Opposite THEN ~SimFinds(a, Opposite[op], e)
          ELSE SimFinds(a, op, e) \/ SimOrders(a, op, e)
       THEN "yes" ELSE "no"

\* _resolve_field of the copy: the first of the lookups that applies.
SimResolve(f, ctx) ==
  LET column == IF f.name \in Direct THEN f.name ELSE Alias[f.name]
      dotted == Len(f.parts) = 2 /\ f.parts[1] \in DOMAIN ctx.properties
  IN IF f.name = "" THEN Null
     ELSE IF f.name \in Direct \cup DOMAIN Alias THEN Get(ctx.columns, column)
     ELSE IF f.under \in DOMAIN ctx.columns THEN Get(ctx.columns, f.under)
     ELSE IF f.parts[1] = "time" THEN TimeField(f.name, ctx.clock)
     ELSE IF dotted THEN Get(ctx.properties[f.parts[1]], f.parts[2]) ELSE Null

\* evaluate_with_details(): every condition is asked, whatever came before.
Details(conditions, ctx) ==
  LET Answer(i) == SimCompare(SimResolve(conditions[i].field, ctx),
                              conditions[i].operator, conditions[i].value)
  IN [raises  |-> \E i \in DOMAIN conditions : Answer(i) = "raises",
      matched |-> \A i \in DOMAIN conditions : Answer(i) = "yes"]

\* A mistake: the actions of a match whatever was found.
WouldExecuteMatch(policy, ctx) == policy.match

\* What simulate_policy says the engine would do with one policy.
WouldExecute(policy, ctx) ==
  IF Details(policy.conditions, ctx).matched THEN policy.match ELSE policy.no_match

\* simulate_all_policies: the first, in order of priority, that matched; 0 if none.
Winner(policies, ctx) ==
  LET matched == {i \in DOMAIN policies : Details(policies[i].conditions, ctx).matched} IN
  IF matched = {} THEN 0 ELSE CHOOSE i \in matched : \A j \in matched : i <= j

Field(name, under, parts) == [name |-> name, under |-> under, parts |-> parts]
Condition(f, op, v) == [field |-> f, operator |-> op, value |-> v]
Words(ws) == <<"list", [i \in DOMAIN ws |-> Text(<<ws[i]>>)]>>

AuthMethod   == Field("auth.method", "auth_method", <<"auth", "method">>)
Dot1x        == Field("auth.802_1x", "auth_802_1x", <<"auth", "802_1x">>)
UserGroup    == Field("user.group", "user_group", <<"user", "group">>)
DeviceType   == Field("device.type", "device_type", <<"device", "type">>)
RiskScore    == Field("device.risk_score", "device_risk_score", <<"device", "risk_score">>)
Antivirus    == Field("compliance.antivirus", "compliance_antivirus", <<"compliance", "antivirus">>)
Overall      == Field("compliance.overall", "compliance_overall", <<"compliance", "overall">>)
WorkingHours == Field("time.is_business_hours", "time_is_business_hours", <<"time", "is_business_hours">>)

Template(priority, conditions, match, no_match) ==
  [priority |-> priority, conditions |-> conditions, match |-> match, no_match |-> no_match]

\* POLICY_TEMPLATES, in list_templates' order of priority; of an action its
\* type and the parameter that matters.
Templates == <<
  \* high_risk_quarantine
  Template(50, <<Condition(RiskScore, "gte", <<"num", 70>>)>>,
           <<<<"vlan_assign", 99>>, <<"notify", "high_risk">>>>, <<>>),
  \* corporate_802.1x
  Template(100, <<Condition(AuthMethod, "in", Words(<<"PEAP", "EAP-TLS">>)),
                  Condition(UserGroup, "is_member_of", Words(<<"Domain Users">>)),
                  Condition(Antivirus, "equals", Text(<<"up_to_date">>))>>,
           <<<<"vlan_assign", 10>>, <<"acl_apply", "permit-all">>>>, <<<<"vlan_assign", 99>>>>),
  \* ip_phone
  Template(150, <<Condition(DeviceType, "in", Words(<<"ip_phone", "voip">>))>>,
           <<<<"vlan_assign", 100>>, <<"qos_apply", 46>>>>, <<>>),
  \* printer_auto
  Template(200, <<Condition(DeviceType, "equals", Text(<<"printer">>))>>,
           <<<<"vlan_assign", 40>>, <<"acl_apply", "printer-restricted">>>>, <<>>),
  \* business_hours
  Template(250, <<Condition(UserGroup, "is_member_of", Words(<<"Contractors">>)),
                  Condition(WorkingHours, "equals", Bool(FALSE))>>,
           <<<<"reject", "hours">>, <<"notify", "after_hours">>>>, <<>>),
  \* iot_isolation
  Template(300, <<Condition(DeviceType, "in", Words(<<"iot", "ip_camera", "sensor", "access_point">>))>>,
           <<<<"vlan_assign", 30>>, <<"acl_apply", "iot-restricted">>>>, <<>>),
  \* non_compliant
  Template(400, <<Condition(Dot1x, "equals", Bool(TRUE)), Condition(Overall, "equals", Text(<<"fail">>))>>,
           <<<<"vlan_assign", 98>>, <<"captive_portal", "/remediation">>>>, <<>>),
  \* guest_byod
  Template(500, <<Condition(AuthMethod, "equals", Text(<<"MAB">>)),
                  Condition(DeviceType, "equals", Text(<<"unknown">>))>>,
           <<<<"vlan_assign", 20>>, <<"captive_portal", "/guest/register">>>>, <<>>),
  \* default_deny
  Template(9999, <<>>, <<<<"vlan_assign", 99>>, <<"log", "warning">>>>, <<>>) >>

\* The subjects of ACTION_TYPES, by the type of the action.
ActionTypes == {"vlan_assign", "acl_apply", "quarantine", "reject", "coa", "bounce_port",
                "captive_portal", "notify", "create_incident", "tag_device", "qos_apply", "log"}
=============================================================================
