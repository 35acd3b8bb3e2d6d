------------------------ MODULE PureFunctions -----------------------------
(* The pure functions of the system on enumerated inputs: the two copies of  *)
(* the policy evaluator, the templates, the codec of the packets of a change *)
(* of authorization, the generator of the RADIUS server's configuration and  *)
(* the CSV files of the whitelist.  A state holds one input; deciding it is  *)
(* a step.                                                                   *)
EXTENDS Simulator, RadiusPacket, Generator, MabDevices, FiniteSets

CONSTANTS
  Comparisons,  \* <<actual, operator, expected>>
  Situations,   \* <<policies by priority, context>>
  Requests,     \* calls of a manager, and the identifier it used last
  Datagrams,    \* byte strings a network delivers
  Secret,       \* a shared secret
  Databases,    \* the tables a configuration is generated from
  CsvFiles      \* [file, table]: a file to import and the table it meets

\* What the callers hand over.
ASSUME ComparisonsAssumption == Comparisons \subseteq Value \X Ops \X Value
ASSUME SituationsAssumption ==
  \A s \in Situations :
    /\ \A i \in DOMAIN s[1] :
         s[1][i].conditions \in
           Seq([field : [name : STRING, under : STRING, parts : Seq(STRING)], operator : Ops, value : Value])
    /\ \A k \in DOMAIN s[2].columns : s[2].columns[k] \in Value
    /\ \A c \in DOMAIN s[2].properties :
         \A k \in DOMAIN s[2].properties[c] : s[2].properties[c][k] \in Value
    /\ s[2].clock \in [hour : Nat, minute : Nat, weekday : Nat, day : Nat, month : Nat, date : Seq(Token)]
ASSUME RequestsAssumption ==
  Requests \subseteq [do : {"disconnect", "reauthenticate", "vlan_change", "apply_acl"}, id : Byte, vendor : STRING,
                     sid : Seq(Byte), mac : Seq(Byte), value : Seq(Byte)]
\* An MD5 digest has sixteen bytes.
ASSUME DigestAssumption == \A c \in Requests : Md5(Signed(Request(c), Secret)) \in [1 .. 16 -> Byte]
ASSUME DatagramsAssumption == Datagrams \subseteq Seq(Byte)
\* The certificates are numbered in the order of the loader.
ASSUME DatabasesAssumption == \A db \in Databases : DOMAIN db.certs \in SUBSET Nat
\* mac_address is a key of the table.
ASSUME CsvAssumption ==
  \A c \in CsvFiles :
    /\ c.file \in [header : Seq(Seq(Token)), lines : Seq(Seq(Seq(Token)))]
    /\ IsFiniteSet(c.table)
    /\ \A d \in c.table : MabDevice(d)
    /\ \A d, e \in c.table : d["mac_address"] = e["mac_address"] => d = e

VARIABLES asked, test, decided

asking == <<asked, test, decided>>

Inputs == [comparison |-> Comparisons, situation |-> Situations,
           request |-> Requests, datagram |-> Datagrams,
           database |-> Databases, csv |-> CsvFiles]

Given == /\ asked \in DOMAIN Inputs
         /\ test \in Inputs[asked]
         /\ decided = "open"

\* What the function returns on this input.
Decide ==
  /\ decided = "open"
  /\ decided' = CASE asked = "comparison" -> Compare(test[1], test[2], test[3])
                  [] asked = "situation"  -> IF Winner(test[1], test[2]) = 0 THEN "nothing" ELSE "policy"
                  [] asked = "request"    -> IF Encodable(Request(test)) THEN "sent" ELSE "raises"
                  [] asked = "datagram"   -> Outcome(test)
                  [] asked = "database"   -> IF Raises(test) THEN "raises" ELSE "generated"
                  [] asked = "csv"        -> IF ImportCsv(test.file, test.table).errors = {}
                                            THEN "imported" ELSE "errors"
  /\ UNCHANGED <<asked, test>>

Functions == Given /\ [][Decide]_asking

-----------------------------------------------------------------------------
\* The engine and the gateway decide every condition alike, although each has
\* its own copy of _compare: no simulated answer misleads the operator.
CopiesAgree ==
  asked = "comparison" => Compare(test[1], test[2], test[3]) = SimCompare(test[1], test[2], test[3])

\* The comparisons hang together whatever Python types meet: a condition means
\* the same with field and value exchanged (_equals, the orderings), a value is
\* never on both sides of another, and on one of them if float() reads both,
\* unless as nan, which no ordering holds of; a value is "between" itself and
\* any bound above it.
ComparisonsConsistent ==
  asked = "comparison" =>
    LET a == test[1]  e == test[3]  x == Normalize(a)  y == Normalize(e)
        holds(op) == Matches(a, op, e)  mirrored(op) == Matches(e, op, a)
        ordered == IsNumber(a) /\ IsNumber(e) /\ ~IsNan(a) /\ ~IsNan(e) IN
    /\ Equals(x, y) = Equals(y, x)
    /\ holds("gt") = mirrored("lt") /\ holds("gte") = mirrored("lte")
    /\ ~(holds("gt") /\ holds("lte")) /\ ~(holds("lt") /\ holds("gte"))
    /\ ordered = (holds("gt") \/ holds("lte")) /\ ordered = (holds("lt") \/ holds("gte"))
    /\ IsBound(a) /\ IsBound(e) /\ holds("gte") => Matches(a, "between", <<"list", <<e, a>>>>)

\* What simulate_policy announces is what the engine executes for the same
\* context, unless the simulation raises; the engine, which stops at the first
\* condition that fails, raises only where the simulation does.
SimulationTrue ==
  asked = "situation" =>
    \A i \in DOMAIN test[1] :
      LET p == test[1][i]  seen == Details(p.conditions, test[2]) IN
      /\ ~seen.raises => WouldExecute(p, test[2]) = Actions(p, test[2])
      /\ Evaluate(p.conditions, test[2]) = "raises" => seen.raises

\* The attributes a NAS acts on: the session, and the VLAN or the ACL of the order.
Ordered(c) ==
  {a \in {<<AcctSession, c.sid>>, <<CallingStation, c.mac>>} : a[2] # <<>>}
  \cup CASE c.do = "vlan_change" -> {<<TunnelGroup, <<0>> \o c.value>>}
         [] c.do = "apply_acl"   -> {<<FilterId, c.value>>}
         [] OTHER                -> {}

\* A request whose attributes fit can be sent however many were sent before
\* it (the identifier wraps); a NAS decodes from it what the manager built, and
\* in that the session and the value of the order as they were given.
RoundTrip ==
  asked = "request" =>
    LET p == Request(test) IN
    /\ (\A i \in DOMAIN p.attributes : Len(p.attributes[i][2]) <= 253) => Encodable(p)
    /\ Encodable(p) => Decode(Encode(p, Secret)) = p
    /\ Ordered(test) \subseteq ToSet(p.attributes)

\* "# Tunnel-Type = VLAN (13), tagged with tag byte ... tag(1) + value(3) = 4
\* bytes" (coa_manager.py:161, :164): what a NAS reads of the tunnel in a change of VLAN.
TunnelIsVlan ==
  asked = "request" /\ test.do = "vlan_change" /\ Encodable(Request(test)) =>
    \A a \in ToSet(Decode(Encode(Request(test), Secret)).attributes) :
      /\ a[1] = TunnelType => Untagged(a[2]) = 13
      /\ a[1] = TunnelMedium => Untagged(a[2]) = 6

\* Nothing a peer sends is misread: parsing loses bytes only at the end (the
\* attributes read encode to a prefix of the datagram), and the cause reported
\* to the operator is a whole 4-byte Error-Cause of the answer, never one that
\* a malformed attribute cut short.
NothingMisread ==
  asked = "datagram" =>
    /\ IsPrefix(Section(Parse(test)), test)
    /\ ~TooShort(test) =>
         LET p == Decode(test) IN
         Cause(p) # 0 => \E i \in DOMAIN p.attributes :
                           /\ p.attributes[i][1] = ErrorCause
                           /\ IsPrefix(Word(Cause(p)), p.attributes[i][2])

\* Why the tables leave a certificate's file unwritten: no certificate, no key,
\* DH parameters of a CA or of a row without PEM data, or a server key that
\* cannot be decrypted, which ends the writing of all but server.pem.
Unwritten(db, file) ==
  LET rows(type) == {db.certs[i] : i \in OfType(db, type)}
      certs(type) == {c \in rows(type) : c.pem}
      unreadable == \E c \in certs("server") : c.key = "unreadable"
  IN \/ file = Path("server.pem") /\ certs("server") = {}
     \/ file = Path("server.key") /\ \A c \in certs("server") : c.key # "readable"
     \/ file = Path("ca.pem") /\ certs("ca") = {}
     \/ file = Path("dh.pem") /\ \E c \in rows("ca") \cup rows("server") : c.dh /\ (c.type = "ca" \/ ~c.pem)
     \/ file[1] = "file" /\ file # Path("server.pem") /\ unreadable

\* radiusd finds what a generated file names, whichever templates fail and
\* whatever is enabled: each module, server and pool is declared by a file of
\* the same generation, and write_cert_files, which computes its own paths,
\* writes each certificate the tables have.  The exceptions: the pool of a
\* realm of type "reject" and the server check-eap-tls, which nothing declares,
\* the inner tunnel's site when its template fails, and a server named in the
\* free text of a client, which nothing checks.
ReferencesResolve ==
  asked = "database" /\ ~Raises(test) =>
    LET failed == IF Rendered(test, "inner-tunnel") THEN {} ELSE {Server("inner-tunnel")}
        missing == {<<"pool", "reject">>, Server("check-eap-tls")} \cup failed \cup ClientServers(test)
    IN \A u \in Used(test) \ (Declared(test) \cup missing) : Unwritten(test, u)

\* An export is imported into an empty table without an error and restores
\* every device but for its blanks and "enabled".
ExportComesBack(table) ==
  LET trim(v) == IF IsA("text", v) /\ Strip(v[2]) = <<>> THEN Null
                 ELSE IF IsA("text", v) THEN Text(Strip(v[2])) ELSE v
  IN \A file \in {ExportCsv(table)} : \A back \in {ImportCsv(file, {})} :
       /\ back.errors = {}
       /\ back.table = {[c \in DOMAIN d |-> IF c = "enabled" THEN TRUE ELSE trim(d[c])] : d \in table}

\* A file never changes devices that exist and counts those it adds, and
\* imported again it changes nothing and counts no device.
ImportOnlyAdds(file, table) ==
  \A once \in {ImportCsv(file, table)} : \A twice \in {ImportCsv(file, once.table)} :
    /\ table \subseteq once.table
    /\ once.created = Cardinality(once.table \ table)
    /\ twice.table = once.table /\ twice.created = 0

\* The CSV files of the whitelist may be exported, edited and imported, again
\* and again: an export comes back, and an import only adds.
CsvRoundTrip ==
  asked = "csv" => ExportComesBack(test.table) /\ ImportOnlyAdds(test.file, test.table)
=============================================================================
