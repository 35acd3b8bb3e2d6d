------------------------------ MODULE Bus_proofs ------------------------------
(* What every operation on the bus keeps, whoever uses it: lemmas for the    *)
(* proofs about the services that Commands and Pipeline describe.            *)
EXTENDS Bus, SequenceTheorems, TLAPS

\* A message of the consumer's own, the given number or an earlier one.
Own(c, i, last) == i \in Index /\ stream[i].to = c /\ i <= last

\* Consumers are given only messages of their own, and none before its turn.
BusInv ==
  /\ BusTypeOK
  /\ \A c \in Consumer : current[c] # 0 => Own(c, current[c], reached[c])
  /\ \A c \in Consumer : \A k \in DOMAIN again[c] : Own(c, again[c][k], reached[c])

\* The stream keeps what it has, and what it gets is for a consumer.
Grown(M) ==
  /\ stream \in Seq(M) /\ stream' \in Seq(M)
  /\ Index \subseteq Index'
  /\ \A i \in Index : stream'[i] = stream[i]

\* A consumer is where it was.
Rests(c) ==
  /\ reached'[c] = reached[c] /\ current'[c] = current[c]
  /\ \A j : Waits(c, j)' <=> Waits(c, j)

\* A stream that is left alone has grown by nothing.
LEMMA Standing ==
  ASSUME NEW M, stream \in Seq(M), UNCHANGED stream
  PROVE  Grown(M)
BY DEF Grown, Index

\* A publish adds one message, the last.
LEMMA Publishing ==
  ASSUME NEW M, stream \in Seq(M), NEW m \in M, Publish(m)
  PROVE  /\ Grown(M)
         /\ Index' = Index \cup {Len(stream) + 1}
         /\ stream'[Len(stream) + 1] = m
BY DEF Publish, Grown, Index

\* Nothing a consumer has in hand is affected by what is published meanwhile.
LEMMA OwnKept ==
  ASSUME NEW M, Grown(M), NEW c, NEW i, NEW last, NEW more, last \in Int, more \in Int, last <= more, Own(c, i, last)
  PROVE  i \in Index' /\ stream'[i].to = c /\ i <= more
BY DEF Grown, Own, Index

\* What is left to show of a step: each number a consumer holds is one of its own.
LEMMA BusStep ==
  ASSUME NEW M, \A m \in M : m.to \in Consumer, BusInv, Grown(M),
         reached' \in [Consumer -> Int], current' \in [Consumer -> Int], again' \in [Consumer -> Seq(Int)],
         \A c \in Consumer : reached'[c] \in {0} \cup Index,
         \A c \in Consumer : current'[c] = 0 \/ Own(c, current'[c], reached'[c]),
         \A c \in Consumer : \A k \in DOMAIN again'[c] : Own(c, again'[c][k], reached'[c])
  PROVE  BusInv'
<1>1. /\ stream \in Seq(M) /\ stream' \in Seq(M) /\ Index = 1 .. Len(stream) /\ Index' = 1 .. Len(stream')
      /\ Len(stream) \in Nat /\ Len(stream') \in Nat /\ Len(stream) <= Len(stream')
  BY DEF Grown, Index
<1>2. \A i \in Index' : stream'[i].to \in Consumer
  BY <1>1
<1>3. reached' \in [Consumer -> 0 .. Len(stream')]
  BY <1>1
<1>4. current' \in [Consumer -> {0} \cup Index']
  BY <1>1 DEF Own
<1>5. \A c \in Consumer : again'[c] \in Seq(Index')
  <2> TAKE c \in Consumer
  <2>1. again'[c] \in [1 .. Len(again'[c]) -> Index'] /\ Len(again'[c]) \in Nat
    BY <1>1 DEF Own
  <2> QED BY <2>1, SeqDef
<1>6. BusTypeOK'
  BY <1>2, <1>3, <1>4, <1>5 DEF BusTypeOK
<1> QED BY <1>6, <1>1 DEF BusInv, Own, Grown

\* The numbers a consumer holds are integers.
LEMMA BusNumbers ==
  ASSUME NEW M, stream \in Seq(M), BusInv
  PROVE  /\ reached \in [Consumer -> Int] /\ current \in [Consumer -> Int] /\ again \in [Consumer -> Seq(Int)]
         /\ \A c \in Consumer : reached[c] \in {0} \cup Index /\ current[c] \in {0} \cup Index
         /\ Index \subseteq Nat \ {0} /\ 0 \notin Index
<1>1. Index = 1 .. Len(stream) /\ Len(stream) \in Nat
  BY DEF Index
<1>2. \A c \in Consumer : again[c] \in Seq(Int)
  <2> TAKE c \in Consumer
  <2>1. again[c] \in [1 .. Len(again[c]) -> Int] /\ Len(again[c]) \in Nat
    BY <1>1 DEF BusInv, BusTypeOK
  <2> QED BY <2>1, SeqDef
<1>3. again \in [Consumer -> Seq(Int)]
  BY <1>2 DEF BusInv, BusTypeOK
<1> QED BY <1>1, <1>3 DEF BusInv, BusTypeOK

\* A step that gives no message to anyone.
LEMMA BusRests ==
  ASSUME NEW M, \A m \in M : m.to \in Consumer, BusInv, Grown(M), UNCHANGED <<reached, again, current>>
  PROVE  BusInv' /\ \A c \in Consumer : Rests(c)
<1>1. stream \in Seq(M)
  BY DEF Grown
<1> QED BY <1>1, BusNumbers, BusStep DEF BusInv, Rests, Waits

\* A message handled without a callback: the consumer is only further on.
LEMMA BusSkip ==
  ASSUME NEW M, \A m \in M : m.to \in Consumer, BusInv, Grown(M), NEW c \in Consumer, NEW i \in Index, First(c, i),
         reached' = [reached EXCEPT ![c] = i], UNCHANGED <<again, current>>
  PROVE  BusInv' /\ \A d \in Consumer \ {c} : Rests(d)
<1>1. stream \in Seq(M)
  BY DEF Grown
<1>2. /\ reached \in [Consumer -> Int] /\ current \in [Consumer -> Int] /\ again \in [Consumer -> Seq(Int)]
      /\ \A d \in Consumer : reached[d] \in {0} \cup Index /\ Index \subseteq Nat \ {0}
  BY <1>1, BusNumbers
<1>3. reached[c] < i
  BY DEF First, Ahead
<1>4. \A d \in Consumer : current'[d] = 0 \/ Own(d, current'[d], reached'[d])
  BY <1>2, <1>3 DEF BusInv, Own
<1>5. \A d \in Consumer : \A k \in DOMAIN again'[d] : Own(d, again'[d][k], reached'[d])
  BY <1>2, <1>3 DEF BusInv, Own
<1>6. reached' \in [Consumer -> Int] /\ \A d \in Consumer : reached'[d] \in {0} \cup Index
  BY <1>2
<1>7. BusInv'
  BY <1>2, <1>4, <1>5, <1>6, BusStep
<1> QED BY <1>2, <1>7 DEF Rests, Waits

\* The next callback: a new message, or one to be given once more.
LEMMA BusTake ==
  ASSUME NEW M, \A m \in M : m.to \in Consumer, BusInv, Grown(M), NEW c \in Consumer, NEW i \in Index, Take(c, i)
  PROVE  /\ BusInv' /\ current'[c] = i /\ Own(c, i, reached'[c])
         /\ \/ First(c, i) /\ reached'[c] = i
            \/ Waits(c, i) /\ reached'[c] = reached[c]
         /\ \A j : Waits(c, j) => Waits(c, j)' \/ j = i
         /\ \A j : Waits(c, j)' => Waits(c, j)
         /\ \A d \in Consumer \ {c} : Rests(d)
<1>1. stream \in Seq(M)
  BY DEF Grown
<1>n. /\ reached \in [Consumer -> Int] /\ current \in [Consumer -> Int] /\ again \in [Consumer -> Seq(Int)]
      /\ \A d \in Consumer : reached[d] \in {0} \cup Index /\ Index \subseteq Nat \ {0}
  BY <1>1, BusNumbers
<1>c. current' = [current EXCEPT ![c] = i]
  BY DEF Take
<1>2. CASE First(c, i) /\ reached' = [reached EXCEPT ![c] = i] /\ UNCHANGED again
  <2>1. reached[c] < i /\ stream[i].to = c
    BY <1>2 DEF First, Ahead
  <2>2. \A d \in Consumer : current'[d] = 0 \/ Own(d, current'[d], reached'[d])
    BY <1>2, <1>c, <1>n, <2>1 DEF BusInv, Own
  <2>3. \A d \in Consumer : \A k \in DOMAIN again'[d] : Own(d, again'[d][k], reached'[d])
    BY <1>2, <1>n, <2>1 DEF BusInv, Own
  <2>4. /\ reached' \in [Consumer -> Int] /\ current' \in [Consumer -> Int] /\ again' \in [Consumer -> Seq(Int)]
        /\ \A d \in Consumer : reached'[d] \in {0} \cup Index
    BY <1>2, <1>c, <1>n
  <2>5. BusInv'
    BY <2>2, <2>3, <2>4, BusStep
  <2> QED BY <1>2, <1>c, <1>n, <2>1, <2>5 DEF Waits, Own, Rests
<1>3. CASE Repeat(c, i) /\ again' = [again EXCEPT ![c] = Tail(@)] /\ UNCHANGED reached
  <2>1. /\ Len(again[c]) \in Nat \ {0} /\ i = again[c][1]
        /\ again'[c] = Tail(again[c]) /\ Tail(again[c]) \in Seq(Int) /\ Len(Tail(again[c])) = Len(again[c]) - 1
        /\ \A k \in 1 .. Len(again[c]) - 1 : Tail(again[c])[k] = again[c][k + 1]
    BY <1>3, <1>n DEF Repeat
  <2>2. Own(c, i, reached[c])
    BY <2>1 DEF BusInv
  <2>3. \A d \in Consumer : current'[d] = 0 \/ Own(d, current'[d], reached'[d])
    BY <1>3, <1>c, <1>n, <2>2 DEF BusInv
  <2>4. \A d \in Consumer : \A k \in DOMAIN again'[d] : Own(d, again'[d][k], reached'[d])
    <3> TAKE d \in Consumer
    <3>1. CASE d = c
      <4> TAKE k \in DOMAIN again'[d]
      <4>1. k \in 1 .. Len(again[c]) - 1 /\ k + 1 \in DOMAIN again[c] /\ again'[d][k] = again[c][k + 1]
        BY <2>1, <3>1, <1>n
      <4> QED BY <4>1, <3>1, <1>3 DEF BusInv
    <3>2. CASE d # c
      BY <3>2, <1>3, <1>n DEF BusInv
    <3> QED BY <3>1, <3>2
  <2>5. /\ reached' \in [Consumer -> Int] /\ current' \in [Consumer -> Int] /\ again' \in [Consumer -> Seq(Int)]
        /\ \A d \in Consumer : reached'[d] \in {0} \cup Index
    BY <1>3, <1>c, <1>n, <2>1
  <2>6. BusInv'
    BY <2>3, <2>4, <2>5, BusStep
  <2>7. \A d \in Consumer : \A j : Waits(d, j) => Waits(d, j)' \/ (d = c /\ j = i)
    <3> TAKE d \in Consumer
    <3> TAKE j
    <3> SUFFICES ASSUME Waits(d, j), d = c, j # i PROVE Waits(d, j)'
      BY <1>3, <1>n DEF Waits
    <3>1. PICK k \in DOMAIN again[c] : again[c][k] = j
      BY DEF Waits
    <3>2. k - 1 \in 1 .. Len(again[c]) - 1 /\ again'[c][k - 1] = j
      BY <3>1, <2>1, <1>n
    <3> QED BY <3>2, <2>1 DEF Waits
  <2>8. \A d \in Consumer : \A j : Waits(d, j)' => Waits(d, j)
    <3> TAKE d \in Consumer
    <3> TAKE j
    <3> SUFFICES ASSUME Waits(d, j)', d = c PROVE Waits(d, j)
      BY <1>3, <1>n DEF Waits
    <3>1. PICK k \in DOMAIN again'[c] : again'[c][k] = j
      BY DEF Waits
    <3>2. k + 1 \in DOMAIN again[c] /\ again[c][k + 1] = j
      BY <3>1, <2>1, <1>n
    <3> QED BY <3>2 DEF Waits
  <2>9. Waits(c, i)
    <3>1. again[c] \in Seq(Int) /\ 1 \in DOMAIN again[c]
      BY <2>1, <1>n
    <3> QED BY <3>1, <2>1 DEF Waits
  <2> QED BY <1>3, <1>c, <1>n, <2>2, <2>6, <2>7, <2>8, <2>9 DEF Rests
<1> QED BY <1>2, <1>3 DEF Take

\* A message of the consumer's own is put among those to be given once more.
LEMMA BusRequeue ==
  ASSUME NEW M, \A m \in M : m.to \in Consumer, BusInv, stream \in Seq(M),
         NEW c \in Consumer, current[c] # 0, Requeue(c, current[c])
  PROVE  /\ again' \in [Consumer -> Seq(Int)]
         /\ \A d \in Consumer : \A k \in DOMAIN again'[d] : Own(d, again'[d][k], reached[d])
         /\ \A d \in Consumer : \A j : Waits(d, j)' <=> Waits(d, j) \/ (d = c /\ j = current[c])
<1> DEFINE i == current[c]
<1>n. /\ reached \in [Consumer -> Int] /\ current \in [Consumer -> Int] /\ again \in [Consumer -> Seq(Int)]
      /\ Own(c, i, reached[c])
  BY BusNumbers DEF BusInv
<1>1. CASE Waits(c, i)
  <2>1. again' = [again EXCEPT ![c] = again[c]] /\ again' = again
    BY <1>1, <1>n DEF Requeue
  <2> QED BY <2>1, <1>1, <1>n DEF BusInv, Waits
<1>2. CASE ~Waits(c, i)
  <2>1. again' = [again EXCEPT ![c] = Append(again[c], i)]
    BY <1>2 DEF Requeue
  <2>2. /\ again'[c] \in Seq(Int) /\ Len(again[c]) \in Nat /\ Len(again'[c]) = Len(again[c]) + 1
        /\ again'[c][Len(again[c]) + 1] = i /\ \A k \in 1 .. Len(again[c]) : again'[c][k] = again[c][k]
    BY <2>1, <1>n
  <2>d. DOMAIN again'[c] = DOMAIN again[c] \cup {Len(again[c]) + 1} /\ DOMAIN again[c] = 1 .. Len(again[c])
    BY <2>2, <1>n
  <2>3. \A d \in Consumer \ {c} : again'[d] = again[d]
    BY <2>1, <1>n
  <2>4. again' \in [Consumer -> Seq(Int)]
    BY <2>1, <2>2, <1>n
  <2>5. \A d \in Consumer : \A k \in DOMAIN again'[d] : Own(d, again'[d][k], reached[d])
    <3> TAKE d \in Consumer
    <3>1. CASE d = c
      <4> TAKE k \in DOMAIN again'[d]
      <4>1. k \in DOMAIN again[c] \cup {Len(again[c]) + 1}
        BY <2>d, <3>1
      <4>2. CASE k \in DOMAIN again[c]
        <5>1. again'[d][k] = again[d][k] /\ k \in DOMAIN again[d]
          BY <4>2, <3>1, <2>d, <2>2
        <5> QED BY <5>1 DEF BusInv
      <4>3. CASE k = Len(again[c]) + 1
        BY <4>3, <3>1, <2>2, <1>n
      <4> QED BY <4>1, <4>2, <4>3
    <3> QED BY <3>1, <2>3 DEF BusInv
  <2>6. \A d \in Consumer : \A j : Waits(d, j)' <=> Waits(d, j) \/ (d = c /\ j = current[c])
    <3> TAKE d \in Consumer
    <3> TAKE j
    <3>1. CASE d = c
      <4>1. Waits(d, j)' <=> \E k \in DOMAIN again[c] \cup {Len(again[c]) + 1} : again'[c][k] = j
        BY <2>d, <3>1 DEF Waits
      <4>2. \A k \in DOMAIN again[c] : again'[c][k] = again[c][k]
        BY <2>d, <2>2
      <4> QED BY <4>1, <4>2, <3>1, <2>2 DEF Waits
    <3> QED BY <3>1, <2>3 DEF Waits
  <2> QED BY <2>4, <2>5, <2>6
<1> QED BY <1>1, <1>2

\* The callback returned.
LEMMA BusAck ==
  ASSUME NEW M, \A m \in M : m.to \in Consumer, BusInv, Grown(M), NEW c \in Consumer, Ack(c)
  PROVE  /\ BusInv' /\ current'[c] = 0 /\ reached'[c] = reached[c]
         /\ \A j : Waits(c, j)' <=> Waits(c, j)
         /\ \A d \in Consumer \ {c} : Rests(d)
<1>1. stream \in Seq(M)
  BY DEF Grown
<1>2. /\ reached \in [Consumer -> Int] /\ again \in [Consumer -> Seq(Int)] /\ current \in [Consumer -> Int]
      /\ \A d \in Consumer : reached[d] \in {0} \cup Index
  BY <1>1, BusNumbers
<1>3. UNCHANGED <<reached, again>> /\ current' = [current EXCEPT ![c] = 0]
  BY DEF Ack
<1>4. current' \in [Consumer -> Int] /\ \A d \in Consumer : current'[d] = 0 \/ Own(d, current'[d], reached'[d])
  BY <1>2, <1>3 DEF BusInv
<1>5. BusInv'
  BY <1>2, <1>3, <1>4, BusStep DEF BusInv
<1> QED BY <1>2, <1>3, <1>5 DEF Waits, Rests

\* The callback raised: its message is to be given once more.
LEMMA BusNak ==
  ASSUME NEW M, \A m \in M : m.to \in Consumer, BusInv, Grown(M), NEW c \in Consumer, current[c] # 0, Nak(c)
  PROVE  /\ BusInv' /\ current'[c] = 0 /\ reached'[c] = reached[c]
         /\ \A j : Waits(c, j)' <=> Waits(c, j) \/ j = current[c]
         /\ \A d \in Consumer \ {c} : Rests(d)
<1>1. stream \in Seq(M) /\ Requeue(c, current[c]) /\ UNCHANGED reached /\ current' = [current EXCEPT ![c] = 0]
  BY DEF Grown, Nak
<1>2. /\ again' \in [Consumer -> Seq(Int)]
      /\ \A d \in Consumer : \A k \in DOMAIN again'[d] : Own(d, again'[d][k], reached[d])
      /\ \A d \in Consumer : \A j : Waits(d, j)' <=> Waits(d, j) \/ (d = c /\ j = current[c])
  BY <1>1, BusRequeue
<1>n. /\ reached \in [Consumer -> Int] /\ current \in [Consumer -> Int]
      /\ \A d \in Consumer : reached[d] \in {0} \cup Index
  BY <1>1, BusNumbers
<1>3. current' \in [Consumer -> Int] /\ \A d \in Consumer : current'[d] = 0 \/ Own(d, current'[d], reached'[d])
  BY <1>n, <1>1 DEF BusInv
<1>4. BusInv'
  BY <1>1, <1>2, <1>3, <1>n, BusStep
<1> QED BY <1>1, <1>2, <1>4, <1>n DEF Rests

\* The callback outlasted the wait: its message is to be given once more.
LEMMA BusExpire ==
  ASSUME NEW M, \A m \in M : m.to \in Consumer, BusInv, Grown(M), NEW c \in Consumer, current[c] # 0, Expire(c)
  PROVE  /\ BusInv' /\ current'[c] = current[c] /\ reached'[c] = reached[c]
         /\ \A j : Waits(c, j)' <=> Waits(c, j) \/ j = current[c]
         /\ \A d \in Consumer \ {c} : Rests(d)
<1>1. stream \in Seq(M) /\ Requeue(c, current[c]) /\ UNCHANGED <<reached, current>>
  BY DEF Grown, Expire
<1>2. /\ again' \in [Consumer -> Seq(Int)]
      /\ \A d \in Consumer : \A k \in DOMAIN again'[d] : Own(d, again'[d][k], reached[d])
      /\ \A d \in Consumer : \A j : Waits(d, j)' <=> Waits(d, j) \/ (d = c /\ j = current[c])
  BY <1>1, BusRequeue
<1>3. BusInv'
  BY <1>1, <1>2, BusNumbers, BusStep DEF BusInv
<1> QED BY <1>1, <1>2, <1>3 DEF Rests

\* A consumer begins anew, and nothing it had is left.
LEMMA BusSubscribe ==
  ASSUME NEW M, \A m \in M : m.to \in Consumer, BusInv, Grown(M), NEW C \in SUBSET Consumer, Subscribe(C)
  PROVE  /\ BusInv'
         /\ \A c \in C : reached'[c] = 0 /\ current'[c] = 0 /\ \A j : ~Waits(c, j)'
         /\ \A d \in Consumer \ C : Rests(d)
<1>1. stream \in Seq(M)
  BY DEF Grown
<1>n. /\ reached \in [Consumer -> Int] /\ current \in [Consumer -> Int] /\ again \in [Consumer -> Seq(Int)]
      /\ \A d \in Consumer : reached[d] \in {0} \cup Index
  BY <1>1, BusNumbers
<1>2. \A d \in Consumer :
        /\ d \in C => reached'[d] = 0 /\ current'[d] = 0 /\ again'[d] = <<>>
        /\ d \notin C => reached'[d] = reached[d] /\ current'[d] = current[d] /\ again'[d] = again[d]
  BY DEF Subscribe
<1>3. reached' \in [Consumer -> Int] /\ current' \in [Consumer -> Int] /\ again' \in [Consumer -> Seq(Int)]
  BY <1>n DEF Subscribe
<1>4. \A d \in Consumer : \A k \in DOMAIN again'[d] : Own(d, again'[d][k], reached'[d])
  BY <1>2 DEF BusInv
<1>5. BusInv'
  BY <1>2, <1>3, <1>4, <1>n, BusStep DEF BusInv
<1> QED BY <1>2, <1>5 DEF Waits, Rests

\* In the beginning nothing was published.
LEMMA BusStarts ==
  ASSUME BusInit
  PROVE  BusInv
<1>1. Index = {}
  BY DEF BusInit, Index
<1> QED BY <1>1 DEF BusInit, BusInv, BusTypeOK

-----------------------------------------------------------------------------
(* Which messages a step settles.                                            *)

\* None but the one given, new messages included.
Settles(x) == \A i \in Index' : Settled(i)' => i \in Index /\ (Settled(i) \/ i = x)

\* What is new is ahead of its consumer; of the rest it is enough to look at
\* those their consumers are past.
LEMMA SettlesOnly ==
  ASSUME NEW M, \A m \in M : m.to \in Consumer, BusInv, Grown(M), NEW x,
         \A c \in Consumer : reached'[c] \in {0} \cup Index,
         \A c \in Consumer : \A i \in Index :
           stream[i].to = c /\ i <= reached'[c] /\ ~Waits(c, i)' /\ current'[c] # i => Settled(i) \/ i = x
  PROVE  Settles(x)
<1>1. /\ Index = 1 .. Len(stream) /\ Len(stream) \in Nat /\ Index' = 1 .. Len(stream') /\ Len(stream') \in Nat
      /\ Index \subseteq Index' /\ \A i \in Index' : stream'[i].to \in Consumer
  BY DEF Grown, Index
<1> SUFFICES ASSUME NEW i, i \in Index', Settled(i)', NEW c, c = stream'[i].to
             PROVE  i \in Index /\ (Settled(i) \/ i = x)
  BY DEF Settles
<1>2. c \in Consumer /\ i <= reached'[c] /\ ~Waits(c, i)' /\ current'[c] # i
  <2>1. \A d : d = stream'[i].to => reached'[d] >= i /\ ~Waits(d, i)' /\ current'[d] # i
    BY DEF Settled
  <2> QED BY <1>1, <2>1
<1>3. i \in Index
  BY <1>1, <1>2
<1>4. stream[i].to = c
  BY <1>3 DEF Grown
<1> QED BY <1>2, <1>3, <1>4

\* Nothing is given and nothing answered.
LEMMA SettlesResting ==
  ASSUME NEW M, \A m \in M : m.to \in Consumer, BusInv, Grown(M), UNCHANGED <<reached, again, current>>
  PROVE  Settles(0)
<1>1. \A c \in Consumer : reached[c] \in {0} \cup Index
  BY BusNumbers DEF Grown
<1> QED BY <1>1, SettlesOnly DEF Settled, Waits

\* A message that is given is not answered yet, and those it was given ahead of
\* are not of its consumer.
LEMMA SettlesTake ==
  ASSUME NEW M, \A m \in M : m.to \in Consumer, BusInv, Grown(M), NEW c \in Consumer, NEW i \in Index, Take(c, i)
  PROVE  Settles(0)
<1>1. /\ \A d \in Consumer : reached[d] \in {0} \cup Index
      /\ Index \subseteq Nat \ {0}
  BY BusNumbers DEF Grown
<1>2. /\ BusInv' /\ current'[c] = i /\ current[c] = 0
      /\ \/ First(c, i) /\ reached'[c] = i
         \/ Waits(c, i) /\ reached'[c] = reached[c]
      /\ \A j : Waits(c, j) => Waits(c, j)' \/ j = i
      /\ \A d \in Consumer \ {c} : Rests(d)
  BY BusTake DEF Take
<1>3. ASSUME NEW d \in Consumer, NEW j \in Index,
             stream[j].to = d, j <= reached'[d], ~Waits(d, j)', current'[d] # j
      PROVE  Settled(j)
  <2>1. CASE d # c
    BY <1>2, <1>3, <2>1 DEF Rests, Settled
  <2>2. CASE d = c
    <3>1. j # i /\ ~Waits(c, j) /\ current[c] # j
      BY <1>1, <1>2, <1>3, <2>2
    <3>2. j <= reached[c]
      BY <1>1, <1>2, <1>3, <2>2, <3>1 DEF First, Ahead
    <3> QED BY <1>3, <2>2, <3>1, <3>2 DEF Settled
  <2> QED BY <2>1, <2>2
<1>4. \A d \in Consumer : reached'[d] \in {0} \cup Index
  BY <1>1, <1>2 DEF Rests
<1> QED BY <1>3, <1>4, SettlesOnly

\* An answer settles the message in hand.
LEMMA SettlesAck ==
  ASSUME NEW M, \A m \in M : m.to \in Consumer, BusInv, Grown(M), NEW c \in Consumer, Ack(c)
  PROVE  Settles(current[c])
<1>1. /\ \A d \in Consumer : reached[d] \in {0} \cup Index
      /\ current \in [Consumer -> Int]
  BY BusNumbers DEF Grown
<1>2. reached'[c] = reached[c] /\ (\A j : Waits(c, j)' <=> Waits(c, j)) /\ \A d \in Consumer \ {c} : Rests(d)
  BY BusAck
<1>3. \A d \in Consumer : reached'[d] = reached[d]
  BY <1>2 DEF Rests
<1>4. ASSUME NEW d \in Consumer, NEW j \in Index,
             stream[j].to = d, j <= reached'[d], ~Waits(d, j)', current'[d] # j
      PROVE  Settled(j) \/ j = current[c]
  <2>1. CASE d # c
    BY <1>2, <1>4, <2>1 DEF Rests, Settled
  <2>2. CASE d = c
    BY <1>2, <1>4, <2>2 DEF Settled
  <2> QED BY <2>1, <2>2
<1> QED BY <1>1, <1>3, <1>4, SettlesOnly

\* A refusal or the end of the wait settles nothing: the message comes back.
LEMMA SettlesBack ==
  ASSUME NEW M, \A m \in M : m.to \in Consumer, BusInv, Grown(M), NEW c \in Consumer, current[c] # 0,
         Nak(c) \/ Expire(c)
  PROVE  Settles(0)
<1>1. \A d \in Consumer : reached[d] \in {0} \cup Index
  BY BusNumbers DEF Grown
<1>2. /\ reached'[c] = reached[c] /\ (\A j : Waits(c, j)' <=> Waits(c, j) \/ j = current[c])
      /\ \A d \in Consumer \ {c} : Rests(d)
  <2>1. CASE Nak(c) BY <2>1, BusNak
  <2>2. CASE Expire(c) BY <2>2, BusExpire
  <2> QED BY <2>1, <2>2
<1>3. \A d \in Consumer : reached'[d] = reached[d]
  BY <1>2 DEF Rests
<1>4. ASSUME NEW d \in Consumer, NEW j \in Index,
             stream[j].to = d, j <= reached'[d], ~Waits(d, j)', current'[d] # j
      PROVE  Settled(j)
  <2>1. CASE d # c
    BY <1>2, <1>4, <2>1 DEF Rests, Settled
  <2>2. CASE d = c
    BY <1>2, <1>4, <2>2 DEF Settled
  <2> QED BY <2>1, <2>2
<1> QED BY <1>1, <1>3, <1>4, SettlesOnly

\* A consumer that begins anew has settled nothing.
LEMMA SettlesSubscribe ==
  ASSUME NEW M, \A m \in M : m.to \in Consumer, BusInv, Grown(M), NEW C \in SUBSET Consumer, Subscribe(C)
  PROVE  Settles(0)
<1>1. /\ \A d \in Consumer : reached[d] \in {0} \cup Index
      /\ Index \subseteq Nat \ {0}
  BY BusNumbers DEF Grown
<1>2. (\A c \in C : reached'[c] = 0) /\ \A d \in Consumer \ C : Rests(d)
  BY BusSubscribe
<1>3. \A d \in Consumer : reached'[d] \in {0} \cup Index
  BY <1>1, <1>2 DEF Rests
<1>4. ASSUME NEW d \in Consumer, NEW j \in Index,
             stream[j].to = d, j <= reached'[d], ~Waits(d, j)', current'[d] # j
      PROVE  Settled(j)
  <2>1. d \notin C
    BY <1>1, <1>2, <1>4
  <2> QED BY <1>2, <1>4, <2>1 DEF Rests, Settled
<1> QED BY <1>3, <1>4, SettlesOnly
===============================================================================
