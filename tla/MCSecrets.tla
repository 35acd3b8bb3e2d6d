------------------------------ MODULE MCSecrets ------------------------------
(* Rows under one key, and rows from before the encryption: in plain, in      *)
(* plain but looking encrypted, encrypted, NULL, empty.                       *)
EXTENDS Secrets

CONSTANTS k1, k2, s1, s2, e

MCCell == {<<"bind_password", 1>>, <<"bind_password", 2>>, <<"secret", 1>>, <<"key_pem", 1>>, <<"proxy_secret", 1>>,
           <<"snmp_community", 1>>, <<"coa_secret", 1>>, <<"ssh_password", 1>>}
MCInitial ==
  { [c \in MCCell |-> CASE c = <<"bind_password", 2>> -> Absent
                        [] c[1] = "bind_password"      -> Cipher(k1, s1)
                        [] c[1] = "secret"             -> Cipher(Plain, s1)
                        [] OTHER                       -> Absent],
    [c \in MCCell |-> CASE c[1] = "secret"                                      -> Absent
                        [] c[1] = "proxy_secret"                                -> Null
                        [] c[1] = "key_pem"                                     -> Cipher(Plain, s2)
                        [] c[1] = "coa_secret"                                  -> Cipher(Plain, e)
                        [] c \in {<<"bind_password", 2>>, <<"ssh_password", 1>>} -> Cipher(k1, s1)
                        [] OTHER                                                -> Cipher(Plain, s1)] }
=============================================================================
