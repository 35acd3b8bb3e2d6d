----------------------------- MODULE Evaluator -----------------------------
(* The conditions of a policy, as the policy engine decides them             *)
(* (services/policy_engine/evaluator.py).                                    *)
(*                                                                           *)
(* A value is what JSON and the database yield in Python: <<"none">>,        *)
(* <<"bool", b>>, <<"num", n>>, <<"text", w>> or <<"list", vs>>.  A text is  *)
(* a sequence of tokens; Fold is lower(), Numeral the texts float() reads    *)
(* (an infinity is an integer beyond the others), Nan those it reads as nan, *)
(* Blank what strip() removes and Unbalanced a token no regular expression   *)
(* may hold.  Any other token stands for itself in a pattern.                *)
EXTENDS Integers, Sequences, TLC

CONSTANTS
  Fold, Numeral, Nan, Blank, Unbalanced, OuiLength,
  Token,   \* tokens of texts
  Nested   \* what lists within lists hold, which nothing looks at

\* Lower case is lower case already; float() yields numbers, of no blank.
ASSUME FoldAssumption    == \A t \in DOMAIN Fold : Fold[t] \notin DOMAIN Fold
ASSUME NumeralAssumption == \A t \in DOMAIN Numeral : t \notin Nan \cup {Blank} /\ Numeral[t] \in Int

Null   == <<"none">>
Text(w) == <<"text", w>>
Bool(b) == <<"bool", b>>
IsA(kind, v) == v[1] = kind

Atom  == {Null} \cup ({"bool"} \X BOOLEAN) \cup ({"num"} \X Int) \cup ({"text"} \X Seq(Token))
Item  == Atom \cup ({"list"} \X Seq(Nested))
Value == Atom \cup ({"list"} \X Seq(Item))

\* if v: ...
Truthy(v) == CASE IsA("none", v) -> FALSE
               [] IsA("bool", v) -> v[2]
               [] IsA("num", v)  -> v[2] # 0
               [] OTHER          -> v[2] # <<>>

Lower(w) == [i \in DOMAIN w |-> IF w[i] \in DOMAIN Fold THEN Fold[w[i]] ELSE w[i]]

Strip(w) ==
  LET kept == {i \in DOMAIN w : w[i] # Blank} IN
  IF kept = {} THEN <<>>
  ELSE SubSeq(w, CHOOSE i \in kept : \A j \in kept : i <= j,
                 CHOOSE i \in kept : \A j \in kept : j <= i)

\* str(v); of a list's repr only the elements and the commas between them.
Str(v) ==
  LET Scalar(x) == CASE IsA("none", x) -> <<"None">>
                     [] IsA("bool", x) -> IF x[2] THEN <<"True">> ELSE <<"False">>
                     [] IsA("num", x)  -> <<CHOOSE t \in DOMAIN Numeral : Numeral[t] = x[2]>>
                     [] OTHER          -> x[2]
      join[n \in Nat] == IF n = 0 THEN <<>>
                         ELSE join[n - 1] \o <<",">> \o Scalar(v[2][n])
  IN IF IsA("list", v) THEN join[Len(v[2])] ELSE Scalar(v)

Within(u, w) == \E i \in 0 .. Len(w) - Len(u) : SubSeq(w, i + 1, i + Len(u)) = u
StartsWith(w, u) == Len(u) <= Len(w) /\ SubSeq(w, 1, Len(u)) = u
EndsWith(w, u) == Len(u) <= Len(w) /\ SubSeq(w, Len(w) - Len(u) + 1, Len(w)) = u
Oui(w) == SubSeq(w, 1, IF Len(w) < OuiLength THEN Len(w) ELSE OuiLength)

\* float(v or 0), where it does not raise; nan is ordered with no number.
IsNumber(v) == \/ ~Truthy(v) \/ v[1] \in {"bool", "num"}
               \/ IsA("text", v) /\ \E t \in DOMAIN Numeral \cup Nan : Strip(v[2]) = <<t>>
IsNan(v) == IsA("text", v) /\ \E t \in Nan : Strip(v[2]) = <<t>>
IsOrdered(v) == IsNumber(v) /\ ~IsNan(v)
NumberOf(v) == CASE ~Truthy(v) -> 0
                 [] IsA("bool", v) /\ Truthy(v) -> 1
                 [] IsA("num", v) /\ Truthy(v) -> v[2]
                 [] OTHER -> Numeral[Strip(v[2])[1]]

\* Python's ==: True is 1.
PyEqual(a, b) ==
  LET Scalar(v) == v[1] \in {"bool", "num"}
      Same(x, y) == IF Scalar(x) /\ Scalar(y) THEN NumberOf(x) = NumberOf(y) ELSE x = y
  IN IF IsA("list", a) /\ IsA("list", b)
     THEN Len(a[2]) = Len(b[2]) /\ \A i \in DOMAIN a[2] : Same(a[2][i], b[2][i])
     ELSE Same(a, b)

Yes == {<<"true">>, <<"yes">>, <<"1">>}
No  == {<<"false">>, <<"no">>, <<"0">>}

Normalize(v) ==
  IF ~IsA("text", v) THEN v
  ELSE LET w == Strip(Lower(v[2])) IN
       CASE w \in Yes -> Bool(TRUE) [] w \in No -> Bool(FALSE) [] OTHER -> Text(w)

\* A mistake: only an actual bool is compared by truth.
EqualsOneSided(a, b) ==
  CASE Null \in {a, b} -> a = b
    [] Null \notin {a, b} /\ IsA("bool", a) -> Truthy(a) = Truthy(b)
    [] OTHER -> PyEqual(a, b)

\* A bool is compared by truth with whatever is on the other side.
Equals(a, b) ==
  CASE Null \in {a, b} -> a = b
    [] Null \notin {a, b} /\ "bool" \in {a[1], b[1]} -> Truthy(a) = Truthy(b)
    [] OTHER -> PyEqual(a, b)

Elements(v) == {v[2][i] : i \in DOMAIN v[2]}
Listed(x, v) == \E e \in Elements(v) : PyEqual(x, Normalize(e))
\* a set of normalized elements can be built: none of them is a list
Hashable(v) == \A e \in Elements(v) : ~IsA("list", e)

Ops == {"equals", "not_equals", "in", "not_in", "contains", "not_contains",
        "starts_with", "ends_with", "gt", "gte", "lt", "lte", "between", "regex",
        "exists", "not_exists", "is_empty", "is_not_empty", "is_member_of",
        "matches_oui", "unknown"}

\* What a text operator finds, by name; the actual text is not stripped.
TextMatch(op, a, e) ==
  LET actual == Lower(Str(a))  expected == Lower(Str(Normalize(e))) IN
  CASE op = "contains"    -> Within(expected, actual)
    [] op = "starts_with" -> StartsWith(actual, expected)
    [] op = "ends_with"   -> EndsWith(actual, expected)
    [] op = "matches_oui" -> Oui(actual) = Oui(expected)

NumberMatch(op, x, y) == CASE op = "gt"  -> x > y
                           [] op = "gte" -> x >= y
                           [] op = "lt"  -> x < y
                           [] op = "lte" -> x <= y

\* A bound, unlike the value, is read without "or 0".
IsBound(x) == IsOrdered(x) /\ (Truthy(x) \/ x[1] \in {"num", "bool"})

Between(a, e) ==
  /\ IsA("list", e) /\ Len(e[2]) = 2 /\ IsOrdered(a)
  /\ \A x \in Elements(e) : IsBound(x)
  /\ NumberOf(e[2][1]) <= NumberOf(a) /\ NumberOf(a) <= NumberOf(e[2][2])

Member(a, e) ==
  /\ IsA("list", a)
  /\ IF IsA("list", e)
     THEN /\ Hashable(a) /\ Hashable(e)
          /\ \E x \in Elements(a) : Listed(Normalize(x), e)
     ELSE Listed(Normalize(e), a)

In(a, e) == IF IsA("list", e) THEN Listed(Normalize(a), e)
            ELSE /\ Truthy(Normalize(a))
                 /\ Within(Str(Normalize(a)), Str(Normalize(e)))

Empty(v) == v \in {Null, Text(<<>>), <<"list", <<>>>>}

\* _compare.  A ValueError or TypeError is "no"; the error of an invalid
\* regular expression is neither and leaves evaluate().
Matches(a, op, e) ==
  CASE op = "equals"       -> Equals(Normalize(a), Normalize(e))
    [] op = "not_equals"   -> ~Equals(Normalize(a), Normalize(e))
    [] op = "in"           -> In(a, e)
    [] op = "not_in"       -> ~In(a, e)
    [] op = "not_contains" -> ~(Truthy(a) /\ TextMatch("contains", a, e))
    [] op = "matches_oui"  -> Truthy(a) /\ Truthy(Normalize(e)) /\ TextMatch(op, a, e)
    [] op \in {"contains", "starts_with", "ends_with"} -> Truthy(a) /\ TextMatch(op, a, e)
    [] op \in {"gt", "gte", "lt", "lte"} ->
         IsOrdered(a) /\ IsOrdered(e) /\ NumberMatch(op, NumberOf(a), NumberOf(e))
    [] op = "between"      -> Between(a, e)
    [] op = "regex"        -> Truthy(a) /\ Within(Str(e), Str(a))
    [] op = "exists"       -> a # Null
    [] op = "not_exists"   -> a = Null
    [] op = "is_empty"     -> Empty(a)
    [] op = "is_not_empty" -> ~Empty(a)
    [] op = "is_member_of" -> Member(a, e)
    [] OTHER               -> FALSE

\* A pattern is a text: patterns that are lists are not considered.
BadPattern(e) == \E i \in DOMAIN Str(e) : Str(e)[i] = Unbalanced

Compare(a, op, e) ==
  IF op = "regex" /\ Truthy(a) /\ BadPattern(e) THEN "raises"
  ELSE IF Matches(a, op, e) THEN "yes" ELSE "no"

\* Names of the concepts of the editor that differ from the column's name.
Alias ==
  "device.type" :> "device_type" @@ "device.os" :> "os_family" @@
  "device.os_version" :> "os_version" @@ "device.vendor" :> "vendor" @@
  "device.mac" :> "mac_address" @@ "device.ip" :> "ip_address" @@
  "device.hostname" :> "hostname" @@ "device.status" :> "status" @@
  "device.risk_score" :> "risk_score" @@ "auth.method" :> "auth_method" @@
  "auth.username" :> "username" @@ "auth.802_1x" :> "is_dot1x" @@
  "auth.mab" :> "is_mab" @@ "network.nas_ip" :> "nas_ip" @@
  "network.nas_port" :> "nas_port" @@ "network.switch_ip" :> "nas_ip" @@
  "network.port" :> "nas_port_id" @@ "network.vlan" :> "current_vlan" @@
  "network.ssid" :> "ssid" @@ "user.name" :> "username" @@
  "user.domain" :> "user_domain" @@ "user.group" :> "ad_groups" @@
  "user.department" :> "ad_department" @@ "user.email" :> "user_email"

Direct == {"mac_address", "ip_address", "hostname", "device_type", "os_family",
           "os_version", "vendor", "model", "status", "risk_score",
           "first_seen", "last_seen"}

Get(dict, key) == IF key \in DOMAIN dict THEN dict[key] ELSE Null

\* is_business_hours ends with the last minute of hour 17.
TimeField(name, clock) ==
  CASE name = "time.hour"              -> <<"num", clock.hour>>
    [] name = "time.minute"            -> <<"num", clock.minute>>
    [] name = "time.weekday"           -> <<"num", clock.weekday>>
    [] name = "time.day_of_month"      -> <<"num", clock.day>>
    [] name = "time.month"             -> <<"num", clock.month>>
    [] name = "time.date"              -> Text(clock.date)
    [] name = "time.is_business_hours" ->
         Bool(9 <= clock.hour /\ clock.hour <= 17 /\ clock.weekday < 5)
    [] name = "time.is_weekend"        -> Bool(clock.weekday >= 5)
    [] OTHER                           -> Null

\* A field has a name, the name with dots made underscores, and the parts
\* between its dots; the columns and the properties [category -> [key -> value]]
\* of a context are dicts, the clock is the engine's.
ResolveField(f, ctx) ==
  IF f.name = "" THEN Null
  ELSE IF f.name \in Direct THEN Get(ctx.columns, f.name)
  ELSE IF f.name \in DOMAIN Alias THEN Get(ctx.columns, Alias[f.name])
  ELSE IF f.under \in DOMAIN ctx.columns THEN ctx.columns[f.under]
  ELSE IF f.parts[1] = "time" THEN TimeField(f.name, ctx.clock)
  ELSE IF Len(f.parts) = 2 /\ f.parts[1] \in DOMAIN ctx.properties
       THEN Get(ctx.properties[f.parts[1]], f.parts[2])
       ELSE Null

\* evaluate(): conditions in order, up to the first that does not match.
Evaluate(conditions, ctx) ==
  LET Answer(i) == Compare(ResolveField(conditions[i].field, ctx),
                           conditions[i].operator, conditions[i].value)
      stops == {i \in DOMAIN conditions : Answer(i) # "yes"}
  IN IF stops = {} THEN "yes" ELSE Answer(CHOOSE i \in stops : \A j \in stops : i <= j)

\* What the engine executes for one policy.
Actions(policy, ctx) ==
  IF Evaluate(policy.conditions, ctx) = "yes" THEN policy.match ELSE policy.no_match
=============================================================================
