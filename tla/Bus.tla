-------------------------------- MODULE Bus --------------------------------
(* The message bus as shared/orw_common/nats_client.py uses it: one stream  *)
(* without limits and, for every durable subscription, a consumer that is   *)
(* given the messages of its subject in order, one callback at a time.      *)
(*                                                                          *)
(* A message is a record whose field "to" names the consumer of its         *)
(* subject; messages nobody subscribes to are not kept.                     *)
EXTENDS Integers, Sequences, FiniteSets

CONSTANT Consumer

VARIABLES
  stream,    \* the messages published so far
  reached,   \* by consumer: the last message given to it for the first time
  again,     \* by consumer: the messages to be given to it once more, in order
  current    \* by consumer: the message its callback is handling, 0 if none

busVars == <<stream, reached, again, current>>

BusInit ==
  /\ stream = <<>>
  /\ reached = [c \in Consumer |-> 0]
  /\ again = [c \in Consumer |-> <<>>]
  /\ current = [c \in Consumer |-> 0]

Index == DOMAIN stream

\* publish
Publish(m) == stream' = Append(stream, m)

\* The messages of its own a consumer has not been given.
Ahead(c) == {i \in Index : i > reached[c] /\ stream[i].to = c}
First(c, i) == i \in Ahead(c) /\ \A j \in Ahead(c) : i <= j
Repeat(c, i) == again[c] # <<>> /\ i = Head(again[c])

Waits(c, i) == \E k \in DOMAIN again[c] : again[c][k] = i
Requeue(c, i) == again' = [again EXCEPT ![c] = IF Waits(c, i) THEN @ ELSE Append(@, i)]

\* The next callback: in the order of the stream, and in between whatever was
\* refused or expired.
Take(c, i) ==
  /\ current[c] = 0
  /\ current' = [current EXCEPT ![c] = i]
  /\ \/ /\ First(c, i)
        /\ reached' = [reached EXCEPT ![c] = i]
        /\ UNCHANGED again
     \/ /\ Repeat(c, i)
        /\ again' = [again EXCEPT ![c] = Tail(@)]
        /\ UNCHANGED reached

\* The callback returned.
Ack(c) == /\ current' = [current EXCEPT ![c] = 0]
          /\ UNCHANGED <<reached, again>>

\* The callback raised: the message comes back, at once and without limit.
Nak(c) == /\ current' = [current EXCEPT ![c] = 0]
          /\ Requeue(c, current[c])
          /\ UNCHANGED reached

\* The callback outlasted ack_wait: the message is given again after it.
Expire(c) == /\ Requeue(c, current[c])
             /\ UNCHANGED <<reached, current>>

\* A service starts: subscribe() deletes its durable consumers and the new ones
\* begin with the first message of the stream.
Subscribe(C) ==
  /\ reached' = [c \in Consumer |-> IF c \in C THEN 0 ELSE reached[c]]
  /\ again'   = [c \in Consumer |-> IF c \in C THEN <<>> ELSE again[c]]
  /\ current' = [c \in Consumer |-> IF c \in C THEN 0 ELSE current[c]]

\* Every delivery of the message to its consumer has been answered.
Settled(i) == LET c == stream[i].to IN reached[c] >= i /\ ~Waits(c, i) /\ current[c] # i

BusTypeOK ==
  /\ \A i \in Index : stream[i].to \in Consumer
  /\ reached \in [Consumer -> 0 .. Len(stream)]
  /\ again \in [Consumer -> Seq(Index)]
  /\ current \in [Consumer -> {0} \cup Index]
=============================================================================
