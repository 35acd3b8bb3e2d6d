---------------------------- MODULE MCConfigSync ----------------------------
(* Instances of ConfigSync for TLC.                                         *)
EXTENDS ConfigSyncRefinement

CONSTANTS f1, f2, a, b

\* Every second edit restores the text before it.
MCFlipText == [i \in Item |-> [v \in Version |-> IF v % 2 = 0 THEN a ELSE b]]

\* Bound: of a failure that did harm, which nothing undoes, what follows is
\* explored where no message has been published.
HarmOrMessages == Harm = {} \/ log = 0
=============================================================================
