---------------------------- MODULE ConfigService ----------------------------
(***************************************************************************)
(* What configuration synchronisation promises, without saying how: the    *)
(* administrator commits configuration texts, radiusd loads them.  radiusd *)
(* never runs on a text that was not committed, and once the commits stop  *)
(* it runs on the last ones, until a failure degrades the service.         *)
(***************************************************************************)
CONSTANTS
  Item,      \* configuration items
  Text,      \* their texts
  Absent,    \* the configuration has no such item
  Unloaded   \* what radiusd has of an item it could not load

VARIABLES
  database,  \* database[i]: committed text
  held,      \* held[i]: every text committed so far
  served,    \* served[i]: what radiusd loaded last
  degraded   \* the promise is off

vars == <<database, held, served, degraded>>

TextOrAbsent == Text \cup {Absent}

Init ==
  /\ database \in [Item -> TextOrAbsent]
  /\ held = [i \in Item |-> {database[i]}]
  /\ served = [i \in Item |-> Unloaded]
  /\ degraded = FALSE

Commit(i, t) ==
  /\ database' = [database EXCEPT ![i] = t]
  /\ held' = [held EXCEPT ![i] = @ \cup {t}]
  /\ UNCHANGED <<served, degraded>>

\* A reload may find some items as they were, and some unreadable.
Load ==
  /\ served' \in [Item -> (UNION {held[i] : i \in Item}) \cup {Unloaded}]
  /\ \A i \in Item : served'[i] \in held[i] \cup {served[i], Unloaded}
  /\ degraded' \in {degraded, TRUE}
  /\ UNCHANGED <<database, held>>

Degrade ==
  /\ degraded' = TRUE
  /\ UNCHANGED <<database, held, served>>

Next == Load \/ Degrade \/ \E i \in Item, t \in TextOrAbsent : Commit(i, t)

\* radiusd never runs on a text that was not committed.
Safety == Init /\ [][Next]_vars

\* Once the commits have stopped, radiusd serves what was committed.
Delivers ==
  <>[](degraded \/ \A i \in Item : database[i] \in {Absent, served[i]})

Spec == Safety /\ Delivers
=============================================================================
