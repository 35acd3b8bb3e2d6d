------------------------ MODULE ConfigSyncRefinement ------------------------
(* ConfigSync implements ConfigService.                                     *)
EXTENDS ConfigSync

\* A version is read as its text; a file that is missing or torn as Unloaded.
TextOf(i, v) == IF v \in Version THEN Content[i][v] ELSE None

Service == INSTANCE ConfigService WITH
  Unloaded <- None,
  database <- [i \in Item |-> Content[i][db[i]]],
  held     <- [i \in Item |-> {Content[i][v] : v \in 0 .. db[i]}],
  served   <- [i \in Item |-> TextOf(i, running[i])],
  degraded <- Harm # {}

\* radiusd runs only on texts some transaction committed, and ends up with the
\* committed configuration: the copies, hashes, messages and passes in between
\* are an implementation of ConfigService.
ServiceSpec == Service!Spec
=============================================================================
