---------------------------- MODULE RadiusPacket ----------------------------
(* The packets of a change of authorization (RFC 5176), as                   *)
(* services/auth/coa_manager.py builds, encodes and decodes them.  A byte    *)
(* string is a sequence of 0 .. 255, an attribute <<type, bytes>>.           *)
EXTENDS Integers, Sequences, SequencesExt

CONSTANTS
  Md5(_),          \* the 16 bytes of a digest
  Reauthenticate,  \* the bytes of "subscriber:command=reauthenticate"
  AuditSession,    \* of "audit-session-id="
  DefinedAcl       \* of "ACS:CiscoSecure-Defined-ACL=#"

Byte == 0 .. 255

ASSUME WordsAssumption == {Reauthenticate, AuditSession, DefinedAcl} \subseteq Seq(Byte)

DisconnectRequest == 40
CoaRequest        == 43

UserName == 1
NasPort == 5
FilterId == 11
VendorSpecific == 26
CallingStation == 31
AcctSession == 44
TunnelType == 64
TunnelMedium == 65
TunnelGroup == 81
ServiceType == 6
ErrorCause == 101
CiscoVendor == 9
CiscoAvPair == 1

\* struct.pack("!I", n)
Word(n) ==
  LET high == n \div 256  higher == high \div 256 IN <<higher \div 256, higher % 256, high % 256, n % 256>>

\* add_string leaves an attribute out only if its caller does.
OptionalAttr(type, value) == IF value = <<>> THEN <<>> ELSE <<<<type, value>>>>

\* tag and value are packed into five bytes of which the first four are kept,
\* without the last of the value; of four a NAS reads the last three as a number.
Tagged(tag, n) == SubSeq(<<tag>> \o Word(n), 1, 4)
Untagged(value) == 256 * (256 * value[2] + value[3]) + value[4]

TunnelVlan(vlan) ==
  << <<TunnelType, Tagged(0, 13)>>,
     <<TunnelMedium, Tagged(0, 6)>>,
     <<TunnelGroup, <<0>> \o vlan>> >>

\* The inner length is packed into one byte: a longer pair is refused there.
CiscoPair(pair) ==
  << <<VendorSpecific, Word(CiscoVendor) \o <<CiscoAvPair, Len(pair) + 2>> \o pair>> >>

NextId(id) == (id + 1) % 256

Packet(code, id, attributes) == [code |-> code, id |-> NextId(id), attributes |-> attributes]

Session(sid, mac) == OptionalAttr(AcctSession, sid) \o OptionalAttr(CallingStation, mac)

\* disconnect_session; its two callers give no user name and no port.
Disconnect(id, sid, mac) == Packet(DisconnectRequest, id, Session(sid, mac))

\* reauthenticate_session: Juniper takes Service-Type = Authorize-Only.
Reauthentication(id, sid, mac, vendor) ==
  Packet(CoaRequest, id, Session(sid, mac) \o
         IF vendor = "juniper" THEN << <<ServiceType, Word(17)>> >>
         ELSE CiscoPair(Reauthenticate))

\* change_vlan; the VLAN's digits are a byte string.
VlanChange(id, sid, mac, vendor, vlan) ==
  Packet(CoaRequest, id, Session(sid, mac) \o TunnelVlan(vlan) \o
         IF vendor = "cisco" THEN CiscoPair(AuditSession \o sid) \o CiscoPair(Reauthenticate) ELSE <<>>)

\* apply_acl
AclChange(id, sid, mac, acl) ==
  Packet(CoaRequest, id, Session(sid, mac) \o << <<FilterId, acl>> >> \o CiscoPair(DefinedAcl \o acl))

\* _execute_coa: what is sent for a call.
Request(c) ==
  CASE c.do = "disconnect"     -> Disconnect(c.id, c.sid, c.mac)
    [] c.do = "reauthenticate" -> Reauthentication(c.id, c.sid, c.mac, c.vendor)
    [] c.do = "vlan_change"    -> VlanChange(c.id, c.sid, c.mac, c.vendor, c.value)
    [] c.do = "apply_acl"      -> AclChange(c.id, c.sid, c.mac, c.value)

\* struct.pack("B", n) raises unless n is a byte.
Encodable(p) ==
  /\ p.id \in Byte
  /\ \A i \in DOMAIN p.attributes :
       LET a == p.attributes[i] IN
       Len(a[2]) + 2 \in Byte /\ \A j \in DOMAIN a[2] : a[2][j] \in Byte

\* A mistake: the length leaves out the two bytes before the value.
TlvShort(a) == <<a[1], Len(a[2])>> \o a[2]

Tlv(a) == <<a[1], Len(a[2]) + 2>> \o a[2]

Section(attributes) == FlattenSeq([i \in DOMAIN attributes |-> Tlv(attributes[i])])

\* encode(): the authenticator signs the packet with sixteen zeros in its place.
Preamble(p) ==
  LET length == 20 + Len(Section(p.attributes)) IN <<p.code, p.id, length \div 256, length % 256>>
Signed(p, secret) == Preamble(p) \o [i \in 1 .. 16 |-> 0] \o Section(p.attributes) \o secret
Encode(p, secret) == Preamble(p) \o Md5(Signed(p, secret)) \o Section(p.attributes)

\* The attributes from an offset on, up to the first that is malformed.
Parse(data) ==
  LET from[pos \in 0 .. Len(data)] ==
        IF pos + 2 > Len(data) \/ data[pos + 2] < 2 \/ pos + data[pos + 2] > Len(data)
        THEN <<>>
        ELSE << <<data[pos + 1], SubSeq(data, pos + 3, pos + data[pos + 2])>> >>
             \o from[pos + data[pos + 2]]
  IN from[0]

\* decode(): the authenticator is kept, never verified.
TooShort(data) == Len(data) < 20
Decode(data) ==
  LET length == 256 * data[3] + data[4]
      end    == IF length < Len(data) THEN length ELSE Len(data)
  IN [code |-> data[1], id |-> data[2], attributes |-> Parse(SubSeq(data, 21, end))]

\* _send_packet: what an answer comes to.  Any acknowledgement is a success;
\* neither the identifier nor the authenticator is compared.
Codes == 1 .. 5 \cup 40 .. 45
Outcome(data) ==
  CASE TooShort(data) -> "raises"
    [] ~TooShort(data) /\ Decode(data).code \in {41, 44} -> "success"
    [] ~TooShort(data) /\ Decode(data).code \in Codes \ {41, 44} -> "rejected"
    [] OTHER -> "raises"

\* A mistake: an Error-Cause may be cut short.
CauseShort(p) ==
  LET found == {i \in DOMAIN p.attributes : p.attributes[i][1] = ErrorCause /\ Len(p.attributes[i][2]) >= 2}
      first == p.attributes[CHOOSE i \in found : \A j \in found : i <= j][2]
  IN IF found = {} THEN 0 ELSE first[1] * 256 + first[2]

\* get_error_cause: of the first Error-Cause with at least four bytes; 0 for None.
Cause(p) ==
  LET found == {i \in DOMAIN p.attributes : p.attributes[i][1] = ErrorCause /\ Len(p.attributes[i][2]) >= 4}
      first == p.attributes[CHOOSE i \in found : \A j \in found : i <= j][2]
  IN IF found = {} THEN 0
     ELSE 256 * (256 * (256 * first[1] + first[2]) + first[3]) + first[4]
=============================================================================
