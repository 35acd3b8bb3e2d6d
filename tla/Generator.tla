------------------------------ MODULE Generator ------------------------------
(* What FreeRADIUSConfigManager makes of the tables: the files it generates, *)
(* each as the names it declares and the names it uses, and the files it     *)
(* writes for the certificates.  radiusd refuses a configuration that uses a *)
(* name nothing declares.  The rows of a table come in the order of the      *)
(* loaders' ORDER BY; the wording of the files is left out.                  *)
EXTENDS Sequences, SequencesExt

CONSTANTS
  SafeName,    \* lower case, with "_" for " ", "-" and "."
  Truncated    \* the first 31 characters of a name

Module(name) == <<"module", name>>
LdapModule(server) == <<"module", "ldap", SafeName[server.name]>>
Pool(realm) == <<"pool", SafeName[realm.name]>>
HomeServer(realm) == <<"home_server", SafeName[realm.name]>>
Server(name) == <<"server", name>>
Path(name) == <<"file", name>>
LdapCa(server) == <<"file", "ldap", SafeName[server.name]>>

\* A generated file, for the references between files.
File(declares, uses) == [declares |-> declares, uses |-> uses]

-----------------------------------------------------------------------------
\* The loaders: rows that are enabled, certificates that are active as well,
\* these by their place in the table.
Enabled(rows) == {r \in ToSet(rows) : r.enabled}
ActiveCerts(db) == {i \in DOMAIN db.certs : db.certs[i].active /\ db.certs[i].enabled}
OfType(db, type) == {i \in ActiveCerts(db) : db.certs[i].type = type}

ProxyRealms(db) == {r \in Enabled(db.realms) : r.type = "proxy"}

\* decrypt_secret raises on text it cannot read: the whole generation fails.
Raises(db) ==
  \E r \in Enabled(db.ldap) \cup ProxyRealms(db) \cup Enabled(db.clients) : ~r.readable

\* _rlm_python3_available: the environment decides, else the file's presence.
Rlm_python3_available(db) == db.override = "yes" \/ (db.override = "unset" /\ db.installed)

-----------------------------------------------------------------------------
\* The first server certificate, else the first CA, has the DH parameters.
HasDh(db) ==
  LET has(type) == \E i \in OfType(db, type) : db.certs[i].dh /\ \A j \in OfType(db, type) : i <= j
  IN has("server") \/ has("ca")

\* eap is generated without certificates too: only their paths are written.
\* No file of the repository declares the server check-eap-tls.
EapConfig(db) ==
  File({Module("eap")},
       {Server("inner-tunnel"), Server("check-eap-tls"),
        Path("ca.pem"), Path("server.pem"), Path("server.key")}
       \cup (IF HasDh(db) THEN {Path("dh.pem")} ELSE {}))

\* One file declares a module for every server.
LdapConfig(db) ==
  LET servers == Enabled(db.ldap)
  IN File({LdapModule(s) : s \in servers}, {LdapCa(s) : s \in {s \in servers : s.ca /\ s.tls}})

\* What each realm is routed to; a realm of type "reject" names a pool of that
\* name, which is declared nowhere.
ProxyConfig(db) ==
  LET realms == Enabled(db.realms)
      names  == {r.name : r \in realms}
      rejects == {r \in realms : r.type = "reject"}
      default == IF names \cap {"DEFAULT", "default", "*"} = {} THEN {"DEFAULT", "NULL"} ELSE {}
  IN File({Pool(r) : r \in ProxyRealms(db)} \cup {HomeServer(r) : r \in ProxyRealms(db)}
          \cup {<<"realm", n>> : n \in names \cup default},
          {Pool(r) : r \in ProxyRealms(db)} \cup {HomeServer(r) : r \in ProxyRealms(db)}
          \cup {<<"pool", "reject">> : r \in rejects})

\* virtual_server is free text of the row, "" for none; the name goes into the
\* file as it is.
ClientServers(db) == {Server(c.virtual_server) : c \in {c \in Enabled(db.clients) : c.virtual_server # ""}}

ClientName(c) == IF c.shortname # "" THEN c.shortname ELSE Truncated[c.name]
ClientsConfig(db) ==
  File({<<"client", ClientName(c)>> : c \in Enabled(db.clients)}
       \cup {<<"client", "localhost">>, <<"client", "localhost_ipv6">>},
       ClientServers(db))

-----------------------------------------------------------------------------
\* A template that fails to render yields "", and no file.
Rendered(db, template) == template \notin db.broken
HasEap(db) == Rendered(db, "eap")
HasPython(db) == Rlm_python3_available(db) /\ Rendered(db, "python")
LdapModules(db) == IF Rendered(db, "ldap") THEN {LdapModule(s) : s \in Enabled(db.ldap)}
                   ELSE {}

\* A mistake: the name of the file instead of the modules in it.
CalledFile(db) == (IF LdapModules(db) = {} THEN {} ELSE {Module("ldap_orw")})
                  \cup (IF HasPython(db) THEN {Module("orw")} ELSE {})

\* The modules a site calls, by the capabilities that were generated.
Called(db) == LdapModules(db) \cup (IF HasPython(db) THEN {Module("orw")} ELSE {})

SiteDefault(db) == File({Server("default")},
                        Called(db) \cup (IF HasEap(db) THEN {Module("eap")} ELSE {}))
SiteInnerTunnel(db) == File({Server("inner-tunnel")}, Called(db) \cup {Module("eap")})

\* generate_all_configs: the files by path.
Generated(db) ==
  LET made == {"proxy.conf", "clients.conf"}
              \cup (IF HasEap(db) THEN {"eap"} ELSE {})
              \cup (IF Enabled(db.ldap) # {} /\ Rendered(db, "ldap") THEN {"ldap_orw"} ELSE {})
              \cup (IF HasPython(db) THEN {"python"} ELSE {})
              \cup (IF Rendered(db, "default") THEN {"default"} ELSE {})
              \cup (IF HasEap(db) /\ Rendered(db, "inner-tunnel") THEN {"inner-tunnel"} ELSE {})
  IN [path \in made |-> CASE path = "eap"          -> EapConfig(db)
                          [] path = "ldap_orw"     -> LdapConfig(db)
                          [] path = "python"       -> File({Module("orw")}, {})
                          [] path = "proxy.conf"   -> ProxyConfig(db)
                          [] path = "clients.conf" -> ClientsConfig(db)
                          [] path = "default"      -> SiteDefault(db)
                          [] path = "inner-tunnel" -> SiteInnerTunnel(db)]

\* write_cert_files goes through the certificates in order, passes over those
\* without PEM data, and ends at a key that cannot be decrypted, which leaves
\* the rest, the CAs of the LDAP servers included, unwritten.  The copies of
\* the CAs in trusted-cas/ are left out: eap names only their directory.
CertFiles(db) ==
  LET certs   == {i \in ActiveCerts(db) : db.certs[i].pem}
      failed  == {i \in certs : db.certs[i].type = "server" /\ db.certs[i].key = "unreadable"}
      tried   == {db.certs[i] : i \in {i \in certs : \A j \in failed : i <= j}}
      cas     == {c \in tried : c.type = "ca"}
      servers == {c \in tried : c.type = "server"}
      written == {c \in servers : c.key # "unreadable"}
  IN {Path("ca.pem") : c \in cas}
     \cup {Path("server.pem") : c \in servers}
     \cup {Path("server.key") : c \in {c \in written : c.key = "readable"}}
     \cup {Path("dh.pem") : c \in {c \in written : c.dh}}
     \cup {LdapCa(s) : s \in {s \in Enabled(db.ldap) : s.ca /\ failed = {}}}

Declared(db) == CertFiles(db) \cup
                UNION {Generated(db)[p].declares : p \in DOMAIN Generated(db)}
Used(db) == UNION {Generated(db)[p].uses : p \in DOMAIN Generated(db)}
=============================================================================
