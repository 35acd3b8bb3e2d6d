-------------------------- MODULE MCCertificates --------------------------
(* The tables to start from: a CA, a server certificate in use and an      *)
(* imported one in reserve; the same with no server certificate in use.    *)
(* In reserve, too: a CA that was imported without its key.                *)
EXTENDS Certificates

CONSTANTS ca, k1, s1, i1   \* of CA, of Keyless, of Server \ Imported, of Imported

Table(in_use, reserve) ==
  [c \in Cert |-> IF c \in in_use THEN "active"
                  ELSE IF c \in reserve THEN "inactive" ELSE "absent"]

MCInitial == {Table({ca, s1}, {i1, k1}), Table({ca}, {s1, i1, k1})}
=============================================================================
