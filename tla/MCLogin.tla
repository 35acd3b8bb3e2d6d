------------------------------ MODULE MCLogin ------------------------------
(* Four logins with a wrong password for one spelling of a name, or two      *)
(* administrators who log in and act on one another's and third accounts.     *)
EXTENDS Login, TLC

CONSTANTS a1, a2, a3, a4, good, other, cap, x1, x2, i1, i2, i3, i4, bob, Bob, eve, pw, wrong

MCAttempt == {a1, a2, a3, a4, good, other, cap}
MCFrom == [a \in MCAttempt |-> IF a \in {a1, a2, a3} THEN x1 ELSE x2]
MCAs   == [a \in MCAttempt |-> IF a = other THEN eve ELSE IF a = cap THEN Bob ELSE bob]
MCWith == [a \in MCAttempt |-> IF a \in {good, other, cap} THEN pw ELSE wrong]
MCFold == (bob :> bob) @@ (Bob :> bob) @@ (eve :> eve)
MCUsers == [i \in {i1, i2, i3, i4} |->
  IF i = i1 THEN [name |-> bob, password |-> pw, role |-> "admin", enabled |-> TRUE]
  ELSE IF i = i2 THEN [name |-> eve, password |-> pw, role |-> "admin", enabled |-> TRUE]
  ELSE NoRow]

Delete(i) == [do |-> "delete", id |-> i]
Create(i, n) == [do |-> "create", id |-> i, name |-> n, password |-> pw, role |-> "operator"]
Demote == [do |-> "update", id |-> i1, role |-> "viewer", enabled |-> FALSE]
Reset  == [do |-> "reset", id |-> i1, password |-> wrong]
Change == [do |-> "change", current |-> pw, new |-> wrong]
Ownership == [do |-> "own"]

Plan(requests, f) == [requests |-> requests, faults |-> f]
MCPlans == {Plan({a1, a2, a3, a4}, 0), Plan({a1, a2, a4, good}, 1), Plan({a1, a3, cap}, 1),
            Plan({good, other, Delete(i1), Delete(i2), Ownership}, 0),
            Plan({good, other, Delete(i1), Create(i3, bob), Create(i4, bob)}, 0),
            Plan({a1, good, Demote, Reset, Change}, 0)}
=============================================================================
