------------------------------ MODULE MCAccess ------------------------------
(* Instances of Access for TLC.  Threads, and connection objects, are        *)
(* interchangeable in the safety run.                                        *)
EXTENDS Access, TLC

MCSymmetry == Permutations(Thread) \cup Permutations(Conn)
=============================================================================
