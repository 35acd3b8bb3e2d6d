--------------------------- MODULE Pipeline_proofs ---------------------------
(* What the scans, the rows of the devices and the evaluations on record are *)
(* to one another, for any devices, policies and messages, any number of     *)
(* faults and of starts.                                                     *)
EXTENDS Pipeline, Bus_proofs

-----------------------------------------------------------------------------
(* Types, and what a callback has in hand.                                   *)

ScanT ==
  /\ scan \in [pc : {"idle", "publish"}, done : Nat]
  /\ scan.pc = "idle" <=> current["discovery"] = 0

\* A report is announced for the device it was merged into.
MergeT ==
  /\ merging \in [pc : {"idle", "merge", "announce"}, id : 0 .. ids]
  /\ merging.pc = "idle" <=> current["inventory"] = 0
  /\ merging.pc = "announce" => merging.id # 0 /\ Merging.mac # Unknown

\* The engine records for a device it has read.
EngineT ==
  /\ engine \in [pc : {"idle", "read", "record", "done"}, mac : Mac \cup {NoRow}, id : Nat, facts : Facts \cup {NoRow},
                 at : 0 .. edits, todo : SUBSET [policy : Policy, body : Body],
                 rows : SUBSET [policy : Policy, matched : BOOLEAN]]
  /\ engine.pc = "idle" <=> current["policy"] = 0
  /\ engine.pc \in {"read", "record"} => engine.mac \in Mac /\ engine.facts \in Facts /\ engine.id \in 1 .. ids
  /\ engine.pc # "record" => engine.rows = {} /\ engine.todo = {}

RowT ==
  /\ row \in [Mac -> [id : 1 .. ids, facts : Facts, by : {0} \cup Index] \cup {NoRow}] /\ ids \in Nat
  /\ policy \in [Policy -> [body : Body, at : 1 .. edits, since : 1 .. edits] \cup {NoRow}] /\ edits \in Nat
  /\ open \subseteq [request : Request, at : 1 .. edits]

ResultT ==
  /\ DOMAIN result \subseteq (1 .. ids) \X Policy
  /\ \A k \in DOMAIN result : result[k] \in [matched : BOOLEAN, at : 0 .. edits]

RestT == wanted \subseteq Request /\ seen \subseteq Mac /\ accepts \in BOOLEAN /\ faults \in Nat /\ starts \in Nat

TypeInv == stream \in Seq(Message) /\ BusInv /\ ScanT /\ MergeT /\ EngineT /\ RowT /\ ResultT /\ RestT

-----------------------------------------------------------------------------
(* The inductive invariants.                                                 *)

\* Of the scan in hand the hosts counted are on the bus.
Reported(i, k) == \E j \in Index : j > i /\ stream[j] = Report(Found(stream[i])[k])
ScanInv ==
  /\ scan.pc = "publish" =>
       /\ scan.done <= Len(Found(Scanning))
       /\ \A k \in 1 .. scan.done : Reported(current["discovery"], k)
  /\ ArpScanComplete

\* An identity is one device's; the report that changed a device last is about
\* it, is announced by its identity, and is not settled before.
Distinct == \A m \in Mac, n \in Mac : row[m] # NoRow /\ row[n] # NoRow /\ m # n => row[m].id # row[n].id
Changed(m) == row[m] # NoRow /\ row[m].by # 0
Announced(m) == \E j \in Index : j > row[m].by /\ stream[j] = [to |-> "policy", mac |-> m, id |-> row[m].id]
ByReport(m) ==
  /\ stream[row[m].by].to = "inventory" /\ stream[row[m].by].mac = m
  /\ merging.pc = "announce" /\ current["inventory"] = row[m].by => merging.id = row[m].id
  /\ ~Settled(row[m].by) \/ Announced(m)
DeviceInv == Distinct /\ \A m \in Mac : Changed(m) => ByReport(m)

\* What the engine has in hand is what a policy no change of which was committed
\* since its transaction began says, each enabled one is among it, and what is on record is no later.
Busy == engine.pc \in {"read", "record"}
Untouched(p) == policy[p] # NoRow /\ policy[p].since <= engine.at
Whose == Busy => \A m \in Mac : row[m] # NoRow /\ row[m].id = engine.id => m = engine.mac
InHand ==
  engine.pc = "record" =>
    /\ \A p \in Policy : Untouched(p) /\ policy[p].body.enabled =>
         (\E e \in engine.todo : e.policy = p) \/ (\E r \in engine.rows : r.policy = p)
    /\ \A e \in engine.todo : Untouched(e.policy) => e.body = policy[e.policy].body /\ e.body.enabled
    /\ \A r \in engine.rows :
         /\ policy[r.policy] # NoRow
         /\ Untouched(r.policy) => /\ policy[r.policy].body.enabled
                                   /\ r.matched = Matches(policy[r.policy].body, engine.facts)
OnRecord ==
  \A k \in DOMAIN result :
    /\ policy[k[2]] # NoRow
    /\ result[k].at >= policy[k[2]].since => policy[k[2]].body.enabled
    /\ engine.pc # "idle" => result[k].at <= engine.at
EngineInv == Whose /\ InHand /\ OnRecord

\* A device a report changed last: the report is not settled, or a message asks
\* for an evaluation that will see the device as it is, or what is on record is
\* so and stays so.
Seen(m) == Busy /\ engine.mac = m /\ engine.id = row[m].id => engine.facts = row[m].facts
Fresh(m) == Busy /\ engine.mac = m /\ engine.id = row[m].id /\ engine.facts = row[m].facts
Due(m) ==
  \E j \in Index : /\ stream[j] = [to |-> "policy", mac |-> m, id |-> row[m].id]
                   /\ ~Settled(j) /\ (current["policy"] = j => Fresh(m))
True(m, p) ==
  <<row[m].id, p>> \in DOMAIN result /\ result[<<row[m].id, p>>].at >= policy[p].since =>
    result[<<row[m].id, p>>].matched = Matches(policy[p].body, row[m].facts)
Current(m) == ~Settled(row[m].by) \/ Due(m) \/ (Seen(m) /\ \A p \in Policy : True(m, p))
CurrentInv == \A m \in Mac : Changed(m) => Current(m)

IInv == TypeInv /\ ScanInv /\ DeviceInv /\ EngineInv /\ CurrentInv

-----------------------------------------------------------------------------
(* What messages are, and what a step leaves alone.                          *)

\* Every message is for one of the consumers.
LEMMA MessageShape ==
  /\ \A m \in Message :
       /\ m.to \in Consumer
       /\ m.to = "discovery" => m.type \in ScanType /\ m.hosts \in Hosts
       /\ m.to = "inventory" => m.mac \in Mac \cup {Unknown} /\ m.facts \in Facts
       /\ m.to = "policy" => m.mac \in Mac /\ m.id \in Nat \ {0}
  /\ "discovery" \in Consumer /\ "inventory" \in Consumer /\ "policy" \in Consumer
BY ConsumersAssumption DEF Message

\* What the types say of the bus.
LEMMA OnBus ==
  ASSUME TypeInv
  PROVE  /\ stream \in Seq(Message) /\ BusInv
         /\ reached \in [Consumer -> Int] /\ current \in [Consumer -> Int]
         /\ \A c \in Consumer : reached[c] \in {0} \cup Index /\ current[c] \in {0} \cup Index
         /\ \A c \in Consumer : current[c] # 0 => current[c] \in Index /\ stream[current[c]].to = c
         /\ \A i \in Index : stream[i] \in Message
         /\ Index = 1 .. Len(stream) /\ Len(stream) \in Nat
<1>1. stream \in Seq(Message) /\ BusInv
  BY DEF TypeInv
<1>2. /\ reached \in [Consumer -> Int] /\ current \in [Consumer -> Int]
      /\ \A c \in Consumer : reached[c] \in {0} \cup Index /\ current[c] \in {0} \cup Index
  BY <1>1, BusNumbers
<1> QED BY <1>1, <1>2 DEF BusInv, Own, Index

\* A step that gives nothing to anyone and takes nothing from anyone.
LEMMA Resting ==
  ASSUME TypeInv, Grown(Message), UNCHANGED <<reached, again, current>>
  PROVE  BusInv' /\ Settles(0) /\ \A c \in Consumer : Rests(c)
BY OnBus, MessageShape, BusRests, SettlesResting

\* A message given to a consumer.
LEMMA Taking ==
  ASSUME TypeInv, NEW c \in Consumer, NEW i \in Index, Take(c, i), UNCHANGED stream
  PROVE  /\ Grown(Message) /\ BusInv' /\ Settles(0)
         /\ current[c] = 0 /\ current'[c] = i /\ i # 0 /\ stream[i].to = c
         /\ \A d \in Consumer \ {c} : Rests(d)
<1>1. Grown(Message)
  BY Standing, OnBus
<1>2. /\ BusInv' /\ current'[c] = i /\ Own(c, i, reached'[c]) /\ \A d \in Consumer \ {c} : Rests(d)
  BY <1>1, OnBus, MessageShape, BusTake
<1>3. Settles(0)
  BY <1>1, OnBus, MessageShape, SettlesTake
<1> QED BY <1>1, <1>2, <1>3, OnBus DEF Take, Own

\* A callback that returned.
LEMMA Acking ==
  ASSUME TypeInv, Grown(Message), NEW c \in Consumer, Ack(c)
  PROVE  BusInv' /\ Settles(current[c]) /\ current'[c] = 0 /\ \A d \in Consumer \ {c} : Rests(d)
BY OnBus, MessageShape, BusAck, SettlesAck

\* A callback that raised.
LEMMA Nakking ==
  ASSUME TypeInv, NEW c \in Consumer, current[c] # 0, Nak(c), UNCHANGED stream
  PROVE  Grown(Message) /\ BusInv' /\ Settles(0) /\ current'[c] = 0 /\ \A d \in Consumer \ {c} : Rests(d)
<1>1. Grown(Message)
  BY Standing, OnBus
<1> QED BY <1>1, OnBus, MessageShape, BusNak, SettlesBack

\* A callback that outlasted the wait.
LEMMA Expiring ==
  ASSUME TypeInv, NEW c \in Consumer, current[c] # 0, Expire(c), UNCHANGED stream
  PROVE  Grown(Message) /\ BusInv' /\ Settles(0) /\ current'[c] = current[c] /\ \A d \in Consumer \ {c} : Rests(d)
<1>1. Grown(Message)
  BY Standing, OnBus
<1> QED BY <1>1, OnBus, MessageShape, BusExpire, SettlesBack

\* A service that starts.
LEMMA Subscribing ==
  ASSUME TypeInv, NEW c \in Consumer, Subscribe({c}), UNCHANGED stream
  PROVE  Grown(Message) /\ BusInv' /\ Settles(0) /\ current'[c] = 0 /\ \A d \in Consumer \ {c} : Rests(d)
<1>1. Grown(Message) /\ {c} \in SUBSET Consumer
  BY Standing, OnBus
<1> QED BY <1>1, OnBus, MessageShape, BusSubscribe, SettlesSubscribe

\* What a service has in hand does not change behind its back.
LEMMA ScanTRests ==
  ASSUME ScanT, Rests("discovery"), UNCHANGED scan
  PROVE  ScanT'
BY DEF ScanT, Rests

\* The inventory's locals keep their types while its message rests.
LEMMA MergeTRests ==
  ASSUME TypeInv, Grown(Message), Rests("inventory"), UNCHANGED merging, ids' \in Nat, ids <= ids'
  PROVE  MergeT'
<1>1. merging' \in [pc : {"idle", "merge", "announce"}, id : 0 .. ids']
  BY DEF TypeInv, MergeT, RowT
<1>2. current["inventory"] # 0 => Merging' = Merging
  BY OnBus, MessageShape DEF Merging, Rests, Grown
<1> QED BY <1>1, <1>2 DEF TypeInv, MergeT, Rests

\* So do the engine's.
LEMMA EngineTRests ==
  ASSUME EngineT, RowT, Rests("policy"), UNCHANGED engine, ids' \in Nat, ids <= ids', edits' \in Nat, edits <= edits'
  PROVE  EngineT'
BY DEF EngineT, RowT, Rests

\* The rows hold what they held, of a stream that is longer.
LEMMA RowTRests ==
  ASSUME TypeInv, Grown(Message), UNCHANGED rowVars
  PROVE  RowT'
<1>1. Index \subseteq Index'
  BY DEF Grown
<1> QED BY <1>1 DEF TypeInv, RowT, rowVars

\* Evaluations keep their types as the ids and the clock grow.
LEMMA ResultTRests ==
  ASSUME ResultT, RowT, UNCHANGED result, ids' \in Nat, ids <= ids', edits' \in Nat, edits <= edits'
  PROVE  ResultT'
BY DEF ResultT, RowT

-----------------------------------------------------------------------------
(* Every step keeps the types; with them goes what it does on the bus.       *)

\* The types hold, the stream has only grown, and no other message is settled.
Moves(x) == TypeInv' /\ Grown(Message) /\ Settles(x)

\* All but the scanner's own.
LEMMA ScannerMoves ==
  ASSUME TypeInv, Grown(Message), BusInv', Rests("inventory"), Rests("policy"), ScanT', RestT',
         UNCHANGED <<rowVars, merging, engine, result>>
  PROVE  TypeInv'
<1>1. ids \in Nat /\ edits \in Nat
  BY DEF TypeInv, RowT
<1>2. UNCHANGED <<ids, edits, merging, engine, result>>
  BY DEF rowVars
<1>3. MergeT' /\ EngineT' /\ ResultT'
  BY <1>1, <1>2, MergeTRests, EngineTRests, ResultTRests DEF TypeInv
<1>4. RowT'
  BY RowTRests
<1> QED BY <1>3, <1>4 DEF TypeInv, Grown

\* A request is one of those a plan may have.
LEMMA WantMoves ==
  ASSUME RestT, NEW kind, NEW r, Want(kind, r)
  PROVE  r \in Request /\ r.do = kind /\ wanted' \subseteq Request
BY DEF RestT, Want

\* Hear: nothing moves on the bus.
LEMMA HearMoves ==
  ASSUME TypeInv, NEW r \in wanted, Hear(r)
  PROVE  Moves(0) /\ \A c \in Consumer : Rests(c)
<1>1. Grown(Message)
  BY Standing, OnBus DEF Hear, busVars
<1>2. BusInv' /\ Settles(0) /\ \A c \in Consumer : Rests(c)
  BY <1>1, Resting DEF Hear, busVars
<1>3. r \in Request /\ r.do = "hear" /\ wanted' \subseteq Request
  BY WantMoves DEF Hear, TypeInv
<1>4. r.mac \in Mac
  BY <1>3 DEF Request
<1>5. RestT' /\ ScanT'
  BY <1>2, <1>3, <1>4, ScanTRests, MessageShape DEF Hear, TypeInv, RestT
<1> QED BY <1>1, <1>2, <1>5, ScannerMoves, MessageShape DEF Moves, Hear

\* Forget: likewise.
LEMMA ForgetMoves ==
  ASSUME TypeInv, NEW m \in Mac, Forget(m)
  PROVE  Moves(0) /\ \A c \in Consumer : Rests(c)
<1>1. Grown(Message)
  BY Standing, OnBus DEF Forget, busVars
<1>2. BusInv' /\ Settles(0) /\ \A c \in Consumer : Rests(c)
  BY <1>1, Resting DEF Forget, busVars
<1>3. RestT' /\ ScanT'
  BY <1>2, ScanTRests, MessageShape DEF Forget, TypeInv, RestT
<1> QED BY <1>1, <1>2, <1>3, ScannerMoves, MessageShape DEF Moves, Forget

\* RequestScan appends a message.
LEMMA RequestScanMoves ==
  ASSUME TypeInv, NEW r \in wanted, RequestScan(r)
  PROVE  Moves(0) /\ \A c \in Consumer : Rests(c)
<1>1. r \in Request /\ r.do = "scan" /\ wanted' \subseteq Request
  BY WantMoves DEF RequestScan, TypeInv
<1>2. [to |-> "discovery", type |-> r.type, hosts |-> r.hosts] \in Message
  BY <1>1 DEF Request, Message
<1>3. Grown(Message)
  BY <1>2, Publishing, OnBus DEF RequestScan
<1>4. BusInv' /\ Settles(0) /\ \A c \in Consumer : Rests(c)
  BY <1>3, Resting DEF RequestScan
<1>5. RestT' /\ ScanT'
  BY <1>1, <1>4, ScanTRests, MessageShape DEF RequestScan, TypeInv, RestT, scanVars
<1> QED BY <1>3, <1>4, <1>5, ScannerMoves, MessageShape DEF Moves, RequestScan

\* ScanBegin takes a message.
LEMMA ScanBeginMoves ==
  ASSUME TypeInv, NEW i \in Index, ScanBegin(i)
  PROVE  Moves(0) /\ Rests("inventory") /\ Rests("policy")
<1>1. /\ Grown(Message) /\ BusInv' /\ Settles(0) /\ current'["discovery"] # 0
      /\ Rests("inventory") /\ Rests("policy")
  BY Taking, MessageShape DEF ScanBegin
<1>2. ScanT' /\ RestT'
  BY <1>1 DEF ScanBegin, TypeInv, ScanT, RestT, OnlyScan
<1> QED BY <1>1, <1>2, ScannerMoves DEF Moves, ScanBegin, OnlyScan

\* The scan in hand: hosts counted are hosts.
LEMMA ScanInHand ==
  ASSUME TypeInv, scan.pc = "publish"
  PROVE  /\ current["discovery"] \in Index /\ Scanning \in Message /\ Scanning.to = "discovery"
         /\ Found(Scanning) \in Hosts /\ Len(Found(Scanning)) \in Nat
         /\ \A k \in 1 .. Len(Found(Scanning)) : Report(Found(Scanning)[k]) \in Message
<1>1. current["discovery"] \in Index /\ Scanning \in Message /\ Scanning.to = "discovery"
  BY OnBus, MessageShape DEF TypeInv, ScanT, Scanning
<1>2. Found(Scanning) \in Hosts
  <2>1. Scanning.hosts \in Hosts
    BY <1>1, MessageShape
  <2>2. <<>> \in Hosts
    BY EmptySeq DEF Hosts
  <2> QED BY <2>1, <2>2 DEF Found
<1>3. ASSUME NEW k \in 1 .. Len(Found(Scanning)) PROVE Report(Found(Scanning)[k]) \in Message
  <2>1. Found(Scanning)[k] \in [mac : Mac \cup {Unknown}, facts : Facts]
    <3> DEFINE S == [mac : Mac \cup {Unknown}, facts : Facts]
    <3>1. Found(Scanning) \in Seq(S)
      BY <1>2 DEF Hosts
    <3> HIDE DEF S
    <3>2. Found(Scanning)[k] \in S
      BY <3>1, ElementOfSeq
    <3> QED BY <3>2 DEF S
  <2> QED BY <2>1 DEF Report, Message
<1> QED BY <1>1, <1>2, <1>3 DEF Hosts

\* ScanPublish appends a report.
LEMMA ScanPublishMoves ==
  ASSUME TypeInv, ScanPublish
  PROVE  Moves(0) /\ \A c \in Consumer : Rests(c)
<1>1. scan \in [pc : {"idle", "publish"}, done : Nat] /\ scan.pc = "publish"
  BY DEF TypeInv, ScanT, ScanPublish
<1>2. scan.done + 1 \in 1 .. Len(Found(Scanning))
  BY <1>1, ScanInHand DEF ScanPublish
<1>3. Grown(Message)
  BY <1>1, <1>2, ScanInHand, Publishing, OnBus DEF ScanPublish
<1>4. BusInv' /\ Settles(0) /\ \A c \in Consumer : Rests(c)
  BY <1>3, Resting DEF ScanPublish
<1>5. [scan EXCEPT !.done = @ + 1] = [pc |-> "publish", done |-> scan.done + 1]
  BY <1>1
<1>6. scan' \in [pc : {"idle", "publish"}, done : Nat] /\ scan'.pc = "publish"
  BY <1>1, <1>5 DEF ScanPublish
<1>7. ScanT' /\ RestT'
  BY <1>1, <1>4, <1>6, MessageShape DEF ScanPublish, TypeInv, ScanT, RestT, OnlyScan, Rests
<1> QED BY <1>3, <1>4, <1>7, ScannerMoves, MessageShape DEF Moves, ScanPublish, OnlyScan

\* The scanner has nothing in hand.
LEMMA ScanRestsIdle ==
  ASSUME current'["discovery"] = 0, scan' = NoScan
  PROVE  ScanT'
BY DEF ScanT, NoScan

\* ScanFails settles no ARP scan.
LEMMA ScanFailsMoves ==
  ASSUME TypeInv, ScanFails
  PROVE  /\ Moves(0) \/ (Moves(current["discovery"]) /\ Scanning.type # "arp")
         /\ Rests("inventory") /\ Rests("policy")
<1>1. scan.pc = "publish" /\ current["discovery"] # 0 /\ scan' = NoScan /\ UNCHANGED stream /\ RestT'
  BY ScanInHand, OnBus, MessageShape DEF ScanFails, TypeInv, ScanT, RestT, OnlyScan, Fault
<1>2. CASE Nak("discovery")
  <2>1. Grown(Message) /\ BusInv' /\ Settles(0) /\ current'["discovery"] = 0 /\ Rests("inventory") /\ Rests("policy")
    BY <1>1, <1>2, Nakking, MessageShape
  <2>2. TypeInv'
    BY <1>1, <2>1, ScanRestsIdle, ScannerMoves DEF ScanFails, OnlyScan
  <2> QED BY <2>1, <2>2 DEF Moves
<1>3. CASE Scanning.type \in {"snmp", "nmap"} /\ Ack("discovery")
  <2>1. Grown(Message)
    BY <1>1, Standing, OnBus
  <2>2. /\ BusInv' /\ Settles(current["discovery"]) /\ current'["discovery"] = 0
        /\ Rests("inventory") /\ Rests("policy")
    BY <1>3, <2>1, Acking, MessageShape
  <2>3. TypeInv'
    BY <1>1, <2>1, <2>2, ScanRestsIdle, ScannerMoves DEF ScanFails, OnlyScan
  <2> QED BY <1>3, <2>1, <2>2, <2>3 DEF Moves
<1> QED BY <1>2, <1>3 DEF ScanFails

\* ScanOutlasts gives the message back while its callback runs on.
LEMMA ScanOutlastsMoves ==
  ASSUME TypeInv, ScanOutlasts
  PROVE  Moves(0) /\ current'["discovery"] = current["discovery"] /\ Rests("inventory") /\ Rests("policy")
<1>1. scan.pc = "publish" /\ current["discovery"] # 0 /\ UNCHANGED stream /\ RestT'
  BY ScanInHand, OnBus, MessageShape DEF ScanOutlasts, TypeInv, ScanT, RestT, OnlyScan, Fault
<1>2. /\ Grown(Message) /\ BusInv' /\ Settles(0) /\ current'["discovery"] = current["discovery"]
      /\ Rests("inventory") /\ Rests("policy")
  BY <1>1, Expiring, MessageShape DEF ScanOutlasts
<1>3. ScanT'
  BY <1>2 DEF ScanOutlasts, TypeInv, ScanT
<1> QED BY <1>1, <1>2, <1>3, ScannerMoves DEF Moves, ScanOutlasts, OnlyScan

\* ScanDone settles the scan in hand.
LEMMA ScanDoneMoves ==
  ASSUME TypeInv, ScanDone
  PROVE  Moves(current["discovery"]) /\ Rests("inventory") /\ Rests("policy")
<1>1. scan' = NoScan /\ UNCHANGED stream /\ RestT'
  BY DEF ScanDone, TypeInv, RestT, OnlyScan
<1>2. Grown(Message)
  BY <1>1, Standing, OnBus
<1>3. /\ BusInv' /\ Settles(current["discovery"]) /\ current'["discovery"] = 0
      /\ Rests("inventory") /\ Rests("policy")
  BY <1>2, Acking, MessageShape DEF ScanDone
<1> QED BY <1>1, <1>2, <1>3, ScanRestsIdle, ScannerMoves DEF Moves, ScanDone, OnlyScan

\* ScannerStart settles nothing, and begins with no scan.
LEMMA ScannerStartMoves ==
  ASSUME TypeInv, ScannerStart
  PROVE  Moves(0) /\ Rests("inventory") /\ Rests("policy")
<1>1. scan' = NoScan /\ UNCHANGED stream /\ RestT'
  BY DEF ScannerStart, TypeInv, RestT
<1>2. /\ Grown(Message) /\ BusInv' /\ Settles(0) /\ current'["discovery"] = 0
      /\ Rests("inventory") /\ Rests("policy")
  BY <1>1, Subscribing, MessageShape DEF ScannerStart
<1> QED BY <1>1, <1>2, ScanRestsIdle, ScannerMoves DEF Moves, ScannerStart

\* All but the inventory's own, while the devices are left alone.
LEMMA InventoryMoves ==
  ASSUME TypeInv, Grown(Message), BusInv', Rests("discovery"), Rests("policy"), MergeT', RestT',
         UNCHANGED <<rowVars, scan, engine, result>>
  PROVE  TypeInv'
<1>1. ids \in Nat /\ edits \in Nat /\ UNCHANGED <<ids, edits>>
  BY DEF TypeInv, RowT, rowVars
<1>2. ScanT' /\ EngineT' /\ ResultT'
  BY <1>1, ScanTRests, EngineTRests, ResultTRests DEF TypeInv
<1>3. RowT'
  BY RowTRests
<1> QED BY <1>2, <1>3 DEF TypeInv, Grown

\* The inventory has nothing in hand.
LEMMA MergeRestsIdle ==
  ASSUME TypeInv, UNCHANGED ids, current'["inventory"] = 0, merging' = NoMerge
  PROVE  MergeT'
BY DEF TypeInv, RowT, MergeT, NoMerge

\* MergeBegin takes a message.
LEMMA MergeBeginMoves ==
  ASSUME TypeInv, NEW i \in Index, MergeBegin(i)
  PROVE  Moves(0) /\ current["inventory"] = 0 /\ current'["inventory"] = i /\ Rests("discovery") /\ Rests("policy")
<1>1. /\ Grown(Message) /\ BusInv' /\ Settles(0) /\ current["inventory"] = 0 /\ current'["inventory"] = i /\ i # 0
      /\ Rests("discovery") /\ Rests("policy")
  BY Taking, MessageShape DEF MergeBegin
<1>2. UNCHANGED <<rowVars, scan, engine, result>> /\ RestT'
  BY DEF MergeBegin, TypeInv, RestT, OnlyMerge, rowVars, scanVars
<1>3. MergeT'
  BY <1>1 DEF MergeBegin, TypeInv, MergeT, RowT
<1> QED BY <1>1, <1>2, <1>3, InventoryMoves DEF Moves

\* The inventory is done with its report.
LEMMA MergeSkipMoves ==
  ASSUME TypeInv, MergeSkip
  PROVE  Moves(current["inventory"]) /\ current'["inventory"] = 0 /\ Rests("discovery") /\ Rests("policy")
<1>1. Grown(Message)
  BY Standing, OnBus DEF MergeSkip
<1>2. /\ BusInv' /\ Settles(current["inventory"]) /\ current'["inventory"] = 0
      /\ Rests("discovery") /\ Rests("policy")
  BY <1>1, Acking, MessageShape DEF MergeSkip
<1>3. UNCHANGED <<rowVars, scan, engine, result>> /\ RestT'
  BY DEF MergeSkip, TypeInv, RestT, OnlyMerge, rowVars, scanVars
<1>4. MergeT'
  BY <1>2, MergeRestsIdle DEF MergeSkip
<1> QED BY <1>1, <1>2, <1>3, <1>4, InventoryMoves DEF Moves

\* A merge or its announcement that fails gives its report back.
LEMMA MergeRefusedMoves ==
  ASSUME TypeInv, MergeRaises \/ AnnounceFails
  PROVE  Moves(0) /\ current'["inventory"] = 0 /\ merging' = NoMerge /\ Rests("discovery") /\ Rests("policy")
<1>1. /\ current["inventory"] # 0 /\ Nak("inventory") /\ merging' = NoMerge
      /\ UNCHANGED <<stream, ids, rowVars, scan, engine, result>> /\ RestT'
  BY DEF MergeRaises, AnnounceFails, TypeInv, MergeT, RestT, OnlyMerge, rowVars, scanVars, Fault
<1>2. /\ Grown(Message) /\ BusInv' /\ Settles(0) /\ current'["inventory"] = 0
      /\ Rests("discovery") /\ Rests("policy")
  BY <1>1, Nakking, MessageShape
<1>3. MergeT'
  BY <1>1, <1>2, MergeRestsIdle
<1> QED BY <1>1, <1>2, <1>3, InventoryMoves DEF Moves

\* InventoryStart settles nothing, and begins with no report.
LEMMA InventoryStartMoves ==
  ASSUME TypeInv, InventoryStart
  PROVE  Moves(0) /\ current'["inventory"] = 0 /\ merging' = NoMerge /\ Rests("discovery") /\ Rests("policy")
<1>1. merging' = NoMerge /\ UNCHANGED <<stream, ids, rowVars, scan, engine, result>> /\ RestT'
  BY DEF InventoryStart, TypeInv, RestT, rowVars, scanVars
<1>2. /\ Grown(Message) /\ BusInv' /\ Settles(0) /\ current'["inventory"] = 0
      /\ Rests("discovery") /\ Rests("policy")
  BY <1>1, Subscribing, MessageShape DEF InventoryStart
<1>3. MergeT'
  BY <1>1, <1>2, MergeRestsIdle
<1> QED BY <1>1, <1>2, <1>3, InventoryMoves DEF Moves

-----------------------------------------------------------------------------
(* Rows of devices.                                                          *)

\* Coalescing makes columns of columns, and leaves none blank that was known.
LEMMA Coalescing ==
  ASSUME NEW a \in Facts, NEW b \in Facts
  PROVE  /\ Coalesce(a, b) \in Facts
         /\ \A f \in Field : b[f] # Unknown => Coalesce(a, b)[f] # Unknown
BY DEF Coalesce, Facts

\* A device that is known: its row.
LEMMA KnownRow ==
  ASSUME TypeInv, NEW m \in Mac, row[m] # NoRow
  PROVE  /\ row[m] \in [id : 1 .. ids, facts : Facts, by : {0} \cup Index]
         /\ row[m].id \in 1 .. ids /\ row[m].facts \in Facts /\ row[m].by \in {0} \cup Index
BY DEF TypeInv, RowT

\* A row of a report or of a device the gateway wrote is no NoRow.
LEMMA RowIsOne ==
  ASSUME NEW id \in Nat \ {0}, NEW facts \in Facts, NEW by \in Nat
  PROVE  [id |-> id, facts |-> facts, by |-> by] # NoRow
BY NoRowAssumption DEF Row

\* One device's row is written, or a new one is, under the next identity.
Wrote(m, id, facts, by) ==
  /\ row' = [row EXCEPT ![m] = [id |-> id, facts |-> facts, by |-> by]]
  /\ m \in Mac /\ facts \in Facts /\ by \in {0} \cup Index
  /\ \/ row[m] = NoRow /\ id = ids + 1 /\ ids' = ids + 1
     \/ /\ row[m] # NoRow /\ id = row[m].id /\ ids' = ids
        /\ \A f \in Field : row[m].facts[f] # Unknown => facts[f] # Unknown

\* What a write leaves: a typed row for one MAC, the others as they were.
LEMMA WroteType ==
  ASSUME TypeInv, Grown(Message), UNCHANGED <<policy, open, edits>>, NEW m, NEW id, NEW facts, NEW by, Wrote(m, id, facts, by)
  PROVE  /\ RowT' /\ ids' \in Nat /\ ids <= ids' /\ id \in 1 .. ids'
         /\ m \in Mac /\ row'[m] = [id |-> id, facts |-> facts, by |-> by] /\ row'[m] # NoRow
         /\ \A n \in Mac \ {m} : row'[n] = row[n]
<1>1. ids \in Nat /\ (row[m] # NoRow => row[m].id \in 1 .. ids) /\ m \in Mac
  BY KnownRow DEF Wrote, TypeInv, RowT
<1>2. ids' \in Nat /\ ids <= ids' /\ id \in 1 .. ids'
  BY <1>1 DEF Wrote
<1>3. Index \subseteq Index' /\ Index \subseteq Nat
  BY OnBus DEF Grown
<1>4. row'[m] = [id |-> id, facts |-> facts, by |-> by] /\ \A n \in Mac \ {m} : row'[n] = row[n]
  BY DEF Wrote, TypeInv, RowT
<1>5. row' \in [Mac -> [id : 1 .. ids', facts : Facts, by : {0} \cup Index'] \cup {NoRow}]
  <2>1. ASSUME NEW n \in Mac PROVE row'[n] \in [id : 1 .. ids', facts : Facts, by : {0} \cup Index'] \cup {NoRow}
    <3>1. CASE n = m
      BY <1>2, <1>3, <1>4, <3>1 DEF Wrote
    <3>2. CASE n # m
      <4>1. row[n] \in [id : 1 .. ids, facts : Facts, by : {0} \cup Index] \cup {NoRow}
        BY DEF TypeInv, RowT
      <4>2. 1 .. ids \subseteq 1 .. ids'
        BY <1>1, <1>2
      <4> QED BY <1>3, <1>4, <3>2, <4>1, <4>2
    <3> QED BY <3>1, <3>2
  <2>2. DOMAIN row' = Mac
    BY DEF Wrote, TypeInv, RowT
  <2>3. row' = [n \in Mac |-> row'[n]]
    BY <2>2 DEF Wrote, TypeInv, RowT
  <2> QED BY <2>1, <2>3
<1>6. row'[m] # NoRow
  <2>1. id \in Nat \ {0} /\ facts \in Facts /\ by \in Nat
    BY <1>2, <1>3 DEF Wrote
  <2> QED BY <2>1, <1>4, RowIsOne
<1>7. /\ policy' \in [Policy -> [body : Body, at : 1 .. edits', since : 1 .. edits'] \cup {NoRow}] /\ edits' \in Nat
      /\ open' \subseteq [request : Request, at : 1 .. edits']
  BY DEF TypeInv, RowT
<1> QED BY <1>1, <1>2, <1>4, <1>5, <1>6, <1>7 DEF RowT

\* A merge writes a row in the name of the report in hand.
LEMMA MergeWrites ==
  ASSUME TypeInv, Merge
  PROVE  \E id, facts : /\ Wrote(Merging.mac, id, facts, current["inventory"])
                        /\ merging' = [pc |-> "announce", id |-> id]
<1>1. /\ current["inventory"] \in Index /\ Merging \in Message /\ Merging.to = "inventory"
      /\ Merging.mac \in Mac /\ Merging.facts \in Facts
  <2>1. current["inventory"] \in Index /\ Merging \in Message /\ Merging.to = "inventory"
    BY OnBus, MessageShape DEF TypeInv, MergeT, Merging, Merge
  <2> QED BY <2>1, MessageShape DEF Merge
<1> DEFINE m == Merging.mac
           new == row[m] = NoRow
           id == IF new THEN ids + 1 ELSE row[m].id
           facts == IF new THEN Merging.facts ELSE Coalesce(Merging.facts, row[m].facts)
<1>2. /\ ids' = IF new THEN ids + 1 ELSE ids
      /\ row' = [row EXCEPT ![m] = [id |-> id, facts |-> facts, by |-> current["inventory"]]]
      /\ merging' = [pc |-> "announce", id |-> id]
  BY DEF Merge
<1>3. facts \in Facts /\ (~new => \A f \in Field : row[m].facts[f] # Unknown => facts[f] # Unknown)
  BY <1>1, KnownRow, Coalescing
<1>4. Wrote(m, id, facts, current["inventory"])
  <2>1. CASE new BY <1>1, <1>2, <1>3, <2>1 DEF Wrote
  <2>2. CASE ~new BY <1>1, <1>2, <1>3, <2>2 DEF Wrote
  <2> QED BY <2>1, <2>2
<1> QED BY <1>2, <1>4

\* Merge writes a row and leaves the bus alone.
LEMMA MergeMoves ==
  ASSUME TypeInv, Merge
  PROVE  Moves(0) /\ \A c \in Consumer : Rests(c)
<1>1. Grown(Message)
  BY Standing, OnBus DEF Merge, busVars
<1>2. BusInv' /\ Settles(0) /\ \A c \in Consumer : Rests(c)
  BY <1>1, Resting DEF Merge, busVars
<1>3. PICK id, facts : /\ Wrote(Merging.mac, id, facts, current["inventory"])
                       /\ merging' = [pc |-> "announce", id |-> id]
  BY MergeWrites
<1>4. UNCHANGED <<policy, open, edits, scan, engine, result>> /\ RestT'
  BY DEF Merge, TypeInv, RestT, OnlyMerge, scanVars
<1>5. RowT' /\ ids' \in Nat /\ ids <= ids' /\ id \in 1 .. ids'
  BY <1>1, <1>3, <1>4, WroteType
<1>6. edits' \in Nat /\ edits <= edits'
  BY <1>4 DEF TypeInv, RowT
<1>7. ScanT' /\ EngineT' /\ ResultT'
  BY <1>2, <1>4, <1>5, <1>6, MessageShape, ScanTRests, EngineTRests, ResultTRests DEF TypeInv
<1>8. MergeT'
  <2>1. merging.pc = "merge" /\ Merging.mac # Unknown /\ current["inventory"] # 0 /\ Merging' = Merging
    BY DEF Merge, TypeInv, MergeT, Merging, busVars
  <2> QED BY <1>2, <1>3, <1>5, <2>1, MessageShape DEF MergeT, Rests
<1> QED BY <1>1, <1>2, <1>5, <1>7, <1>8, <1>4 DEF Moves, TypeInv, Grown

\* The message that asks for the evaluation of the device just merged.
Asking == [to |-> "policy", mac |-> Merging.mac, id |-> merging.id]

\* Announce appends the message for the engine and settles the report.
LEMMA AnnounceMoves ==
  ASSUME TypeInv, Announce
  PROVE  /\ Moves(current["inventory"]) /\ current'["inventory"] = 0 /\ Rests("discovery") /\ Rests("policy")
         /\ Merging.mac \in Mac /\ Index' = Index \cup {Len(stream) + 1} /\ stream'[Len(stream) + 1] = Asking
<1>1. /\ current["inventory"] \in Index /\ Merging \in Message /\ Merging.to = "inventory"
      /\ merging.id \in Nat \ {0} /\ Merging.mac # Unknown
  BY OnBus, MessageShape DEF TypeInv, MergeT, RowT, Merging, Announce
<1>2. Merging.mac \in Mac /\ Asking \in Message
  <2>1. Merging.mac \in Mac
    BY <1>1, MessageShape
  <2> QED BY <1>1, <2>1 DEF Asking, Message
<1>3. Grown(Message) /\ Index' = Index \cup {Len(stream) + 1} /\ stream'[Len(stream) + 1] = Asking
  BY <1>2, Publishing, OnBus DEF Announce, Asking
<1>4. /\ BusInv' /\ Settles(current["inventory"]) /\ current'["inventory"] = 0
      /\ Rests("discovery") /\ Rests("policy")
  BY <1>3, Acking, MessageShape DEF Announce
<1>5. UNCHANGED <<rowVars, ids, scan, engine, result>> /\ RestT'
  BY DEF Announce, TypeInv, RestT, OnlyMerge, rowVars, scanVars
<1>6. MergeT'
  BY <1>4, <1>5, MergeRestsIdle DEF Announce
<1> QED BY <1>2, <1>3, <1>4, <1>5, <1>6, InventoryMoves DEF Moves

-----------------------------------------------------------------------------
(* The policy engine.                                                        *)

\* All but the engine's own.
LEMMA EngineMoves ==
  ASSUME TypeInv, Grown(Message), BusInv', Rests("discovery"), Rests("inventory"), EngineT', ResultT', RestT',
         UNCHANGED <<rowVars, scan, merging>>
  PROVE  TypeInv'
<1>1. ids \in Nat /\ UNCHANGED ids
  BY DEF TypeInv, RowT, rowVars
<1>2. ScanT' /\ MergeT' /\ RowT'
  BY <1>1, ScanTRests, MergeTRests, RowTRests DEF TypeInv
<1> QED BY <1>2 DEF TypeInv, Grown

\* The engine has nothing in hand.
LEMMA EngineRestsIdle ==
  ASSUME TypeInv, UNCHANGED <<ids, edits>>, current'["policy"] = 0, engine' = NoEngine
  PROVE  EngineT'
BY DEF TypeInv, RowT, EngineT, NoEngine

\* The fields of the engine.
LEMMA EngineFields ==
  ASSUME TypeInv
  PROVE  /\ engine = [pc |-> engine.pc, mac |-> engine.mac, id |-> engine.id, facts |-> engine.facts, at |-> engine.at,
                      todo |-> engine.todo, rows |-> engine.rows]
         /\ engine.pc \in {"idle", "read", "record", "done"} /\ engine.at \in 0 .. edits
         /\ engine.mac \in Mac \cup {NoRow} /\ engine.id \in Nat /\ engine.facts \in Facts \cup {NoRow}
         /\ engine.todo \subseteq [policy : Policy, body : Body]
         /\ engine.rows \subseteq [policy : Policy, matched : BOOLEAN]
BY DEF TypeInv, EngineT

\* EvaluateBegin takes a message.
LEMMA EvaluateBeginMoves ==
  ASSUME TypeInv, NEW i \in Index, EvaluateBegin(i)
  PROVE  Moves(0) /\ current["policy"] = 0 /\ current'["policy"] = i /\ Rests("discovery") /\ Rests("inventory")
<1>1. /\ Grown(Message) /\ BusInv' /\ Settles(0) /\ current["policy"] = 0 /\ current'["policy"] = i /\ i # 0
      /\ Rests("discovery") /\ Rests("inventory") /\ stream[i].to = "policy"
  BY Taking, MessageShape DEF EvaluateBegin, OnlyEngine
<1>2. UNCHANGED <<rowVars, ids, edits, scan, merging, result>> /\ RestT'
  BY DEF EvaluateBegin, TypeInv, RestT, OnlyEngine, rowVars, scanVars
<1>3. stream[i].mac \in Mac /\ stream[i].id \in Nat
  BY <1>1, OnBus, MessageShape
<1>4. EngineT'
  <2>1. edits \in Nat /\ ids \in Nat
    BY DEF TypeInv, RowT
  <2>2. CASE row[stream[i].mac] # NoRow /\ row[stream[i].mac].id = stream[i].id
    <3>1. row[stream[i].mac].facts \in Facts /\ stream[i].id \in 1 .. ids
      BY <1>3, <2>2, KnownRow
    <3>2. engine' = [pc |-> "read", mac |-> stream[i].mac, id |-> stream[i].id, facts |-> row[stream[i].mac].facts,
                     at |-> edits, todo |-> {}, rows |-> {}]
      BY <2>2 DEF EvaluateBegin
    <3> QED BY <1>1, <1>2, <1>3, <2>1, <3>1, <3>2 DEF EngineT
  <2>3. CASE ~(row[stream[i].mac] # NoRow /\ row[stream[i].mac].id = stream[i].id)
    <3>1. engine' = [pc |-> "done", mac |-> stream[i].mac, id |-> stream[i].id, facts |-> NoRow,
                     at |-> edits, todo |-> {}, rows |-> {}]
      BY <2>3 DEF EvaluateBegin
    <3> QED BY <1>1, <1>2, <1>3, <2>1, <3>1 DEF EngineT
  <2> QED BY <2>2, <2>3
<1>5. ResultT'
  BY <1>2, ResultTRests DEF TypeInv, RowT
<1> QED BY <1>1, <1>2, <1>4, <1>5, EngineMoves DEF Moves

\* The policies read are the enabled ones.
LEMMA Reading ==
  ASSUME TypeInv, ReadPolicies
  PROVE  engine' = [pc |-> "record", mac |-> engine.mac, id |-> engine.id, facts |-> engine.facts, at |-> engine.at,
                    todo |-> {[policy |-> p, body |-> policy[p].body] : p \in Enabled}, rows |-> {}]
<1> DEFINE todo == {[policy |-> p, body |-> policy[p].body] : p \in Enabled}
<1> HIDE DEF todo
<1>1. engine.pc = "read" /\ engine.rows = {} /\ engine' = [engine EXCEPT !.pc = "record", !.todo = todo]
  BY DEF ReadPolicies, TypeInv, EngineT, todo
<1>2. engine' = [pc |-> "record", mac |-> engine.mac, id |-> engine.id, facts |-> engine.facts, at |-> engine.at,
                 todo |-> todo, rows |-> {}]
  BY <1>1, EngineFields
<1> QED BY <1>2 DEF todo

\* ReadPolicies leaves the bus alone.
LEMMA ReadPoliciesMoves ==
  ASSUME TypeInv, ReadPolicies
  PROVE  Moves(0) /\ \A c \in Consumer : Rests(c)
<1>1. Grown(Message)
  BY Standing, OnBus DEF ReadPolicies, OnlyEngine
<1>2. BusInv' /\ Settles(0) /\ \A c \in Consumer : Rests(c)
  BY <1>1, Resting DEF ReadPolicies
<1>3. UNCHANGED <<rowVars, ids, edits, scan, merging, result>> /\ RestT'
  BY DEF ReadPolicies, TypeInv, RestT, OnlyEngine, rowVars, scanVars
<1>4. {[policy |-> p, body |-> policy[p].body] : p \in Enabled} \subseteq [policy : Policy, body : Body]
  BY DEF Enabled, TypeInv, RowT
<1>5. EngineT'
  <2>1. engine.pc = "read" /\ engine.mac \in Mac /\ engine.facts \in Facts /\ engine.id \in 1 .. ids /\ current["policy"] # 0
        /\ engine.at \in 0 .. edits
    BY DEF ReadPolicies, TypeInv, EngineT
  <2>2. engine'.pc = "record" /\ engine'.mac = engine.mac /\ engine'.id = engine.id /\ engine'.facts = engine.facts
    BY Reading
  <2>3. engine' \in [pc : {"idle", "read", "record", "done"}, mac : Mac \cup {NoRow}, id : Nat, facts : Facts \cup {NoRow},
                     at : 0 .. edits', todo : SUBSET [policy : Policy, body : Body],
                     rows : SUBSET [policy : Policy, matched : BOOLEAN]]
    BY <1>3, <1>4, <2>1, Reading, EngineFields
  <2> QED BY <1>2, <1>3, <2>1, <2>2, <2>3, MessageShape DEF EngineT, Rests
<1>6. ResultT'
  BY <1>3, ResultTRests DEF TypeInv, RowT
<1> QED BY <1>1, <1>2, <1>3, <1>5, <1>6, EngineMoves, MessageShape DEF Moves

\* A row is recorded for the policy that is done.
LEMMA Recording ==
  ASSUME TypeInv, NEW e \in engine.todo, Record(e)
  PROVE  /\ engine' = [pc |-> "record", mac |-> engine.mac, id |-> engine.id, facts |-> engine.facts, at |-> engine.at,
                       todo |-> engine.todo \ {e},
                       rows |-> engine.rows \cup {[policy |-> e.policy, matched |-> Matches(e.body, engine.facts)]}]
         /\ e.policy \in Policy /\ e.body \in Body /\ engine.pc = "record"
<1> DEFINE todo == engine.todo \ {e}
           rows == engine.rows \cup {[policy |-> e.policy, matched |-> Matches(e.body, engine.facts)]}
<1> HIDE DEF todo, rows
<1>1. engine.pc = "record" /\ engine' = [engine EXCEPT !.todo = todo, !.rows = rows]
  BY DEF Record, todo, rows
<1>2. engine' = [pc |-> "record", mac |-> engine.mac, id |-> engine.id, facts |-> engine.facts, at |-> engine.at,
                 todo |-> todo, rows |-> rows]
  BY <1>1, EngineFields
<1> QED BY <1>1, <1>2, EngineFields DEF todo, rows

\* Record leaves the bus alone.
LEMMA RecordMoves ==
  ASSUME TypeInv, NEW e \in engine.todo, Record(e)
  PROVE  Moves(0) /\ \A c \in Consumer : Rests(c)
<1>1. Grown(Message)
  BY Standing, OnBus DEF Record, OnlyEngine
<1>2. BusInv' /\ Settles(0) /\ \A c \in Consumer : Rests(c)
  BY <1>1, Resting DEF Record
<1>3. UNCHANGED <<rowVars, ids, edits, scan, merging, result>> /\ RestT'
  BY DEF Record, TypeInv, RestT, OnlyEngine, rowVars, scanVars
<1>5. EngineT'
  <2>1. engine.pc = "record" /\ engine.mac \in Mac /\ engine.facts \in Facts /\ engine.id \in 1 .. ids /\ current["policy"] # 0
        /\ engine.at \in 0 .. edits
    BY DEF Record, TypeInv, EngineT
  <2>2. engine'.pc = "record" /\ engine'.mac = engine.mac /\ engine'.id = engine.id /\ engine'.facts = engine.facts
    BY Recording
  <2>3. [policy |-> e.policy, matched |-> Matches(e.body, engine.facts)] \in [policy : Policy, matched : BOOLEAN]
    BY Recording DEF Matches
  <2>4. engine' \in [pc : {"idle", "read", "record", "done"}, mac : Mac \cup {NoRow}, id : Nat, facts : Facts \cup {NoRow},
                     at : 0 .. edits', todo : SUBSET [policy : Policy, body : Body],
                     rows : SUBSET [policy : Policy, matched : BOOLEAN]]
    BY <1>3, <2>1, <2>3, Recording, EngineFields
  <2> QED BY <1>2, <1>3, <2>1, <2>2, <2>4, MessageShape DEF EngineT, Rests
<1>6. ResultT'
  BY <1>3, ResultTRests DEF TypeInv, RowT
<1> QED BY <1>1, <1>2, <1>3, <1>5, <1>6, EngineMoves, MessageShape DEF Moves

\* RecordRaises gives the message back.
LEMMA RecordRaisesMoves ==
  ASSUME TypeInv, NEW e \in engine.todo, RecordRaises(e)
  PROVE  Moves(0) /\ current'["policy"] = 0 /\ engine' = NoEngine /\ Rests("discovery") /\ Rests("inventory")
<1>1. /\ current["policy"] # 0 /\ Nak("policy") /\ engine' = NoEngine
      /\ UNCHANGED <<stream, rowVars, ids, edits, scan, merging, result>> /\ RestT'
  BY DEF RecordRaises, TypeInv, EngineT, RestT, OnlyEngine, rowVars, scanVars, Fault
<1>2. /\ Grown(Message) /\ BusInv' /\ Settles(0) /\ current'["policy"] = 0
      /\ Rests("discovery") /\ Rests("inventory")
  BY <1>1, Nakking, MessageShape
<1>3. EngineT' /\ ResultT'
  BY <1>1, <1>2, EngineRestsIdle, ResultTRests DEF TypeInv, RowT
<1> QED BY <1>1, <1>2, <1>3, EngineMoves DEF Moves

\* EngineStart settles nothing, and begins with no evaluation.
LEMMA EngineStartMoves ==
  ASSUME TypeInv, EngineStart
  PROVE  Moves(0) /\ current'["policy"] = 0 /\ engine' = NoEngine /\ Rests("discovery") /\ Rests("inventory")
<1>1. engine' = NoEngine /\ UNCHANGED <<stream, rowVars, ids, edits, scan, merging, result>> /\ RestT'
  BY DEF EngineStart, TypeInv, RestT, rowVars, scanVars
<1>2. /\ Grown(Message) /\ BusInv' /\ Settles(0) /\ current'["policy"] = 0
      /\ Rests("discovery") /\ Rests("inventory")
  BY <1>1, Subscribing, MessageShape DEF EngineStart
<1>3. EngineT' /\ ResultT'
  BY <1>1, <1>2, EngineRestsIdle, ResultTRests DEF TypeInv, RowT
<1> QED BY <1>1, <1>2, <1>3, EngineMoves DEF Moves

\* What the engine commits: for each of its rows the outcome of one of them.
LEMMA Committing ==
  ASSUME TypeInv, EvaluateDone
  PROVE  /\ DOMAIN result' = {<<engine.id, r.policy>> : r \in engine.rows} \cup DOMAIN result
         /\ \A r \in engine.rows : \E o \in engine.rows :
              o.policy = r.policy /\ result'[<<engine.id, r.policy>>] = [matched |-> o.matched, at |-> engine.at]
         /\ \A k \in DOMAIN result : k \notin {<<engine.id, r.policy>> : r \in engine.rows} => result'[k] = result[k]
<1> DEFINE D == {<<engine.id, r.policy>> : r \in engine.rows}
<1>1. DOMAIN Keyed(engine.rows) = D
  BY DEF Keyed
<1>2. /\ DOMAIN result' = D \cup DOMAIN result
      /\ \A k \in D : result'[k] = Keyed(engine.rows)[k]
      /\ \A k \in DOMAIN result \ D : result'[k] = result[k]
  BY <1>1 DEF EvaluateDone, Over
<1>3. ASSUME NEW r \in engine.rows
      PROVE  \E o \in engine.rows :
               o.policy = r.policy /\ result'[<<engine.id, r.policy>>] = [matched |-> o.matched, at |-> engine.at]
  <2> DEFINE o == CHOOSE o \in engine.rows : o.policy = r.policy
  <2>1. o \in engine.rows /\ o.policy = r.policy
    OBVIOUS
  <2>2. <<engine.id, r.policy>> \in D
    OBVIOUS
  <2>3. Keyed(engine.rows)[<<engine.id, r.policy>>] = [matched |-> o.matched, at |-> engine.at]
    BY <2>2 DEF Keyed
  <2> QED BY <1>2, <2>1, <2>2, <2>3
<1> QED BY <1>2, <1>3

\* EvaluateDone settles the message in hand.
LEMMA EvaluateDoneMoves ==
  ASSUME TypeInv, EvaluateDone
  PROVE  Moves(current["policy"]) /\ current'["policy"] = 0 /\ engine' = NoEngine /\ Rests("discovery") /\ Rests("inventory")
<1>1. engine' = NoEngine /\ UNCHANGED <<stream, rowVars, ids, edits, scan, merging>> /\ RestT'
  BY DEF EvaluateDone, TypeInv, RestT, OnlyEngine, rowVars, scanVars
<1>2. Grown(Message)
  BY <1>1, Standing, OnBus
<1>3. /\ BusInv' /\ Settles(current["policy"]) /\ current'["policy"] = 0
      /\ Rests("discovery") /\ Rests("inventory")
  BY <1>2, Acking, MessageShape DEF EvaluateDone
<1>4. EngineT'
  BY <1>1, <1>3, EngineRestsIdle
<1>5. ResultT'
  <2>1. ASSUME NEW r \in engine.rows
        PROVE  r.policy \in Policy /\ r.matched \in BOOLEAN /\ engine.id \in 1 .. ids /\ engine.at \in 0 .. edits
    BY DEF TypeInv, EngineT
  <2>2. DOMAIN result' \subseteq (1 .. ids') \X Policy
    BY <1>1, <2>1, Committing DEF TypeInv, ResultT
  <2>3. ASSUME NEW k \in DOMAIN result' PROVE result'[k] \in [matched : BOOLEAN, at : 0 .. edits']
    <3>1. CASE k \in {<<engine.id, r.policy>> : r \in engine.rows}
      <4>1. PICK r \in engine.rows : k = <<engine.id, r.policy>>
        BY <3>1
      <4>2. PICK o \in engine.rows : result'[k] = [matched |-> o.matched, at |-> engine.at]
        BY <4>1, Committing
      <4> QED BY <1>1, <2>1, <4>2
    <3>2. CASE k \notin {<<engine.id, r.policy>> : r \in engine.rows}
      <4>1. k \in DOMAIN result /\ result'[k] = result[k]
        BY <3>2, Committing
      <4> QED BY <1>1, <4>1 DEF TypeInv, ResultT
    <3> QED BY <3>1, <3>2
  <2> QED BY <2>2, <2>3 DEF ResultT
<1> QED BY <1>1, <1>2, <1>3, <1>4, <1>5, EngineMoves DEF Moves

-----------------------------------------------------------------------------
(* The gateway.                                                              *)

\* The gateway touches nothing the services have in hand.
LEMMA GatewayMoves ==
  ASSUME TypeInv, OnlyGateway, wanted' \subseteq Request, RowT', ResultT', ids <= ids', edits <= edits'
  PROVE  Moves(0) /\ \A c \in Consumer : Rests(c)
<1>1. Grown(Message)
  BY Standing, OnBus DEF OnlyGateway, busVars
<1>2. BusInv' /\ Settles(0) /\ \A c \in Consumer : Rests(c)
  BY <1>1, Resting DEF OnlyGateway, busVars
<1>3. ids' \in Nat /\ edits' \in Nat
  BY DEF RowT
<1>4. UNCHANGED <<scan, merging, engine>> /\ RestT'
  BY DEF OnlyGateway, TypeInv, RestT, scanVars
<1>5. ScanT' /\ MergeT' /\ EngineT'
  BY <1>1, <1>2, <1>3, <1>4, MessageShape, ScanTRests, MergeTRests, EngineTRests DEF TypeInv
<1> QED BY <1>1, <1>2, <1>4, <1>5 DEF Moves, TypeInv, Grown

\* An ingest writes a row in nobody's name.
LEMMA IngestWrites ==
  ASSUME TypeInv, NEW r \in wanted, Ingest(r)
  PROVE  \E id, facts : Wrote(r.mac, id, facts, 0)
<1>1. r \in Request /\ r.do = "ingest"
  BY WantMoves DEF Ingest, TypeInv
<1>2. r.mac \in Mac /\ r.facts \in Facts
  BY <1>1 DEF Request
<1> DEFINE m == r.mac
           new == row[m] = NoRow
           id == IF new THEN ids + 1 ELSE row[m].id
           facts == IF new THEN r.facts
                    ELSE [f \in Field |-> IF f \in Overwritten THEN Coalesce(r.facts, row[m].facts)[f] ELSE row[m].facts[f]]
<1>3. ids' = (IF new THEN ids + 1 ELSE ids) /\ row' = [row EXCEPT ![m] = [id |-> id, facts |-> facts, by |-> 0]]
  BY DEF Ingest, upsert_device
<1>4. CASE new
  BY <1>2, <1>3, <1>4 DEF Wrote
<1>5. CASE ~new
  <2>1. Coalesce(r.facts, row[m].facts) \in Facts /\ row[m].facts \in Facts
        /\ \A f \in Field : row[m].facts[f] # Unknown => Coalesce(r.facts, row[m].facts)[f] # Unknown
    BY <1>2, <1>5, KnownRow, Coalescing
  <2>2. facts \in Facts /\ \A f \in Field : row[m].facts[f] # Unknown => facts[f] # Unknown
    BY <1>5, <2>1 DEF Facts
  <2> QED BY <1>2, <1>3, <1>5, <2>2 DEF Wrote
<1> QED BY <1>4, <1>5

\* Ingest writes a row.
LEMMA IngestMoves ==
  ASSUME TypeInv, NEW r \in wanted, Ingest(r)
  PROVE  Moves(0) /\ \A c \in Consumer : Rests(c)
<1>1. PICK id, facts : Wrote(r.mac, id, facts, 0)
  BY IngestWrites
<1>2. Grown(Message) /\ UNCHANGED <<policy, open, edits, result>> /\ edits \in Nat
  BY Standing, OnBus DEF Ingest, OnlyGateway, busVars, TypeInv, RowT
<1>3. RowT' /\ ids' \in Nat /\ ids <= ids'
  BY <1>1, <1>2, WroteType
<1>4. ResultT'
  BY <1>2, <1>3, ResultTRests DEF TypeInv
<1>5. wanted' \subseteq Request
  BY WantMoves DEF Ingest, TypeInv
<1> QED BY <1>2, <1>3, <1>4, <1>5, GatewayMoves DEF Ingest

\* An edit finds no row, or writes it in nobody's name.
LEMMA UpdateWrites ==
  ASSUME TypeInv, NEW r \in wanted, UpdateDevice(r)
  PROVE  UNCHANGED <<row, ids>> \/ \E id, facts : Wrote(r.mac, id, facts, 0)
<1>1. r \in Request /\ r.do = "update"
  BY WantMoves DEF UpdateDevice, TypeInv
<1>2. r.mac \in Mac /\ r.facts \in Facts
  BY <1>1 DEF Request
<1>3. CASE row[r.mac] = NoRow
  BY <1>3 DEF UpdateDevice, update_device
<1>4. CASE row[r.mac] # NoRow
  <2> DEFINE facts == Coalesce(r.facts, row[r.mac].facts)
  <2> HIDE DEF facts
  <2>1. facts \in Facts /\ \A f \in Field : row[r.mac].facts[f] # Unknown => facts[f] # Unknown
    BY <1>2, <1>4, KnownRow, Coalescing DEF facts
  <2>2. row' = [row EXCEPT ![r.mac] = [id |-> row[r.mac].id, facts |-> facts, by |-> 0]] /\ ids' = ids
    BY <1>4 DEF UpdateDevice, update_device, facts
  <2>6. Wrote(r.mac, row[r.mac].id, facts, 0)
    BY <1>2, <1>4, <2>1, <2>2 DEF Wrote
  <2> QED BY <2>6
<1> QED BY <1>3, <1>4

\* UpdateDevice writes a row, if there is one.
LEMMA UpdateDeviceMoves ==
  ASSUME TypeInv, NEW r \in wanted, UpdateDevice(r)
  PROVE  Moves(0) /\ \A c \in Consumer : Rests(c)
<1>1. Grown(Message) /\ UNCHANGED <<policy, open, edits, result>> /\ edits \in Nat /\ ids \in Nat
  BY Standing, OnBus DEF UpdateDevice, OnlyGateway, busVars, TypeInv, RowT
<1>2. RowT' /\ ids' \in Nat /\ ids <= ids'
  <2>1. CASE UNCHANGED <<row, ids>>
    BY <1>1, <2>1, RowTRests DEF rowVars
  <2>2. CASE \E id, facts : Wrote(r.mac, id, facts, 0)
    BY <1>1, <2>2, WroteType
  <2> QED BY <2>1, <2>2, UpdateWrites
<1>3. ResultT'
  BY <1>1, <1>2, ResultTRests DEF TypeInv
<1>4. wanted' \subseteq Request
  BY WantMoves DEF UpdateDevice, TypeInv
<1> QED BY <1>1, <1>2, <1>3, <1>4, GatewayMoves DEF UpdateDevice

\* What is left on record was on record.
LEMMA Leaving ==
  ASSUME NEW lost, result' = Without(lost)
  PROVE  DOMAIN result' = DOMAIN result \ lost /\ \A k \in DOMAIN result' : result'[k] = result[k]
BY DEF Without

\* DeleteDevice takes a row and its evaluations, and no other.
LEMMA DeleteDeviceMoves ==
  ASSUME TypeInv, NEW r \in wanted, DeleteDevice(r)
  PROVE  /\ Moves(0) /\ (\A c \in Consumer : Rests(c)) /\ row' = [row EXCEPT ![r.mac] = NoRow]
         /\ DOMAIN result' \subseteq DOMAIN result /\ \A k \in DOMAIN result' : result'[k] = result[k]
<1>1. /\ Grown(Message) /\ UNCHANGED <<ids, policy, open, edits>> /\ edits \in Nat /\ ids \in Nat
      /\ row' = [row EXCEPT ![r.mac] = NoRow]
  BY Standing, OnBus DEF DeleteDevice, delete_device, OnlyGateway, busVars, TypeInv, RowT
<1>2. RowT'
  <2>1. Index' = Index
    BY DEF DeleteDevice, OnlyGateway, busVars, Index
  <2> QED BY <1>1, <2>1 DEF TypeInv, RowT
<1>3. DOMAIN result' \subseteq DOMAIN result /\ \A k \in DOMAIN result' : result'[k] = result[k]
  <2>1. CASE row[r.mac] = NoRow
    BY <2>1 DEF DeleteDevice, delete_device
  <2>2. CASE row[r.mac] # NoRow
    <3>1. result' = Without({k \in DOMAIN result : k[1] = row[r.mac].id})
      BY <2>2 DEF DeleteDevice, delete_device
    <3> QED BY <3>1, Leaving
  <2> QED BY <2>1, <2>2
<1>4. ResultT'
  BY <1>1, <1>3 DEF TypeInv, ResultT
<1>5. wanted' \subseteq Request
  BY WantMoves DEF DeleteDevice, TypeInv
<1>6. Moves(0) /\ \A c \in Consumer : Rests(c)
  BY <1>1, <1>2, <1>4, <1>5, GatewayMoves DEF DeleteDevice
<1> QED BY <1>1, <1>3, <1>6

\* The clock goes on, and what it has dated stays in its past.
LEMMA ClockMoves ==
  ASSUME TypeInv, edits' = edits + 1
  PROVE  /\ edits \in Nat /\ edits' \in Nat /\ edits <= edits' /\ 1 .. edits \subseteq 1 .. edits' /\ edits + 1 \in 1 .. edits'
         /\ policy \in [Policy -> [body : Body, at : 1 .. edits', since : 1 .. edits'] \cup {NoRow}]
         /\ open \subseteq [request : Request, at : 1 .. edits']
<1>1. edits \in Nat
  BY DEF TypeInv, RowT
<1>2. edits' \in Nat /\ edits <= edits' /\ 1 .. edits \subseteq 1 .. edits' /\ edits + 1 \in 1 .. edits'
  BY <1>1
<1>3. policy \in [Policy -> [body : Body, at : 1 .. edits', since : 1 .. edits'] \cup {NoRow}]
  BY <1>2 DEF TypeInv, RowT
<1>4. open \subseteq [request : Request, at : 1 .. edits']
  BY <1>2 DEF TypeInv, RowT
<1> QED BY <1>1, <1>2, <1>3, <1>4

\* A transaction begins that will write a policy.
LEMMA OpenMoves ==
  ASSUME TypeInv, NEW r \in wanted, Open(r)
  PROVE  Moves(0) /\ \A c \in Consumer : Rests(c)
<1>1. PICK kind : Want(kind, r)
  BY DEF Open
<1>2. r \in Request /\ wanted' \subseteq Request
  BY <1>1, WantMoves DEF TypeInv
<1>3. /\ UNCHANGED <<row, ids, policy, result, stream>> /\ OnlyGateway /\ edits' = edits + 1
      /\ open' = open \cup {[request |-> r, at |-> edits + 1]} /\ ids \in Nat
  BY DEF Open, OnlyGateway, busVars, TypeInv, RowT
<1>4. edits' \in Nat /\ edits <= edits' /\ open' \subseteq [request : Request, at : 1 .. edits']
      /\ policy' \in [Policy -> [body : Body, at : 1 .. edits', since : 1 .. edits'] \cup {NoRow}]
  BY <1>2, <1>3, ClockMoves
<1>5. RowT'
  <2>1. Index' = Index
    BY <1>3 DEF Index
  <2> QED BY <1>3, <1>4, <2>1 DEF TypeInv, RowT
<1>6. ResultT'
  BY <1>3, <1>4, ResultTRests DEF TypeInv
<1> QED BY <1>2, <1>3, <1>4, <1>5, <1>6, GatewayMoves

\* A policy is written, in a transaction that began a while ago.
Written(p, body, at) ==
  /\ policy' = [policy EXCEPT ![p] = [body |-> body, at |-> at, since |-> edits + 1]]
  /\ edits' = edits + 1 /\ open' \subseteq open

\* A policy that was written has a row, changed last now.
LEMMA WrittenType ==
  ASSUME TypeInv, NEW p \in Policy, NEW body \in Body, NEW at \in 1 .. edits, Written(p, body, at),
         UNCHANGED <<row, ids, stream>>
  PROVE  /\ RowT' /\ edits' = edits + 1 /\ edits \in Nat
         /\ policy'[p] = [body |-> body, at |-> at, since |-> edits + 1] /\ policy'[p] # NoRow
         /\ \A q \in Policy \ {p} : policy'[q] = policy[q]
<1> DEFINE new == [body |-> body, at |-> at, since |-> edits + 1]
<1> HIDE DEF new
<1>1. edits \in Nat /\ edits' = edits + 1 /\ policy' = [policy EXCEPT ![p] = new] /\ DOMAIN policy = Policy
  BY DEF Written, TypeInv, RowT, new
<1>2. policy'[p] = new /\ \A q \in Policy \ {p} : policy'[q] = policy[q]
  BY <1>1
<1>3. new \in Text /\ new \in [body : Body, at : 1 .. edits', since : 1 .. edits']
  BY <1>1, ClockMoves DEF Text, new
<1>4. policy'[p] # NoRow
  BY <1>2, <1>3, NoRowAssumption
<1>5. policy' \in [Policy -> [body : Body, at : 1 .. edits', since : 1 .. edits'] \cup {NoRow}]
  BY <1>1, <1>3, ClockMoves
<1>6. open' \subseteq [request : Request, at : 1 .. edits']
  BY <1>1, ClockMoves DEF Written
<1>7. Index' = Index
  BY DEF Index
<1>8. RowT'
  BY <1>1, <1>5, <1>6, <1>7, ClockMoves DEF TypeInv, RowT
<1> QED BY <1>1, <1>2, <1>4, <1>8 DEF new

\* The requests, and the commits of those that write a policy.
Asked(r) == Hear(r) \/ RequestScan(r) \/ Ingest(r) \/ UpdateDevice(r) \/ DeleteDevice(r) \/ Open(r) \/ DeletePolicy(r)
PolicyCommit == \E o \in open : CreatePolicy(o) \/ ApplyTemplate(o) \/ UpdatePolicy(o)
LEMMA EditCases ==
  ASSUME Edit
  PROVE  PolicyCommit \/ \E r \in wanted : Asked(r)
BY DEF Edit, Asked, PolicyCommit

\* The three of them, as one; a change may find no policy.
LEMMA CommitWrites ==
  ASSUME TypeInv, PolicyCommit
  PROVE  /\ OnlyGateway /\ UNCHANGED <<wanted, row, ids, result>> /\ edits' = edits + 1 /\ open' \subseteq open
         /\ \/ UNCHANGED policy
            \/ \E p \in Policy, body \in Body, at \in 1 .. edits : Written(p, body, at)
<1>1. PICK o \in open : CreatePolicy(o) \/ ApplyTemplate(o) \/ UpdatePolicy(o)
  BY DEF PolicyCommit
<1>2. PICK kind \in {"create", "apply", "change"} : Commits(kind, o)
  BY <1>1 DEF CreatePolicy, ApplyTemplate, UpdatePolicy
<1>3. /\ OnlyGateway /\ UNCHANGED <<wanted, row, ids, result>> /\ edits' = edits + 1 /\ open' \subseteq open
      /\ o.request.do = kind
  BY <1>2 DEF Commits
<1>4. o.request \in Request /\ o.at \in 1 .. edits
  BY DEF TypeInv, RowT
<1>5. o.request.policy \in Policy /\ o.request.body \in Body
  BY <1>2, <1>3, <1>4 DEF Request
<1>6. [o.request.body EXCEPT !.enabled = TRUE] \in Body
  BY <1>5 DEF Body
<1>7. \/ UNCHANGED policy
      \/ Written(o.request.policy, o.request.body, o.at)
      \/ Written(o.request.policy, [o.request.body EXCEPT !.enabled = TRUE], o.at)
  BY <1>1, <1>3 DEF CreatePolicy, ApplyTemplate, UpdatePolicy, insert_policy, update_policy, Written
<1> QED BY <1>3, <1>4, <1>5, <1>6, <1>7

\* They leave the bus, the devices and the evaluations alone.
LEMMA CommitMoves ==
  ASSUME TypeInv, PolicyCommit
  PROVE  Moves(0) /\ \A c \in Consumer : Rests(c)
<1>1. /\ UNCHANGED stream /\ ids \in Nat /\ wanted' \subseteq Request /\ OnlyGateway
      /\ UNCHANGED <<row, ids, result>> /\ edits' = edits + 1 /\ open' \subseteq open
  BY CommitWrites DEF OnlyGateway, busVars, TypeInv, RowT, RestT
<1>2. RowT' /\ edits' \in Nat /\ edits <= edits'
  <2>1. CASE UNCHANGED policy
    <3>1. Index' = Index
      BY <1>1 DEF Index
    <3> QED BY <1>1, <2>1, <3>1, ClockMoves DEF TypeInv, RowT
  <2>2. CASE \E p \in Policy, body \in Body, at \in 1 .. edits : Written(p, body, at)
    <3>1. PICK p \in Policy, body \in Body, at \in 1 .. edits : Written(p, body, at)
      BY <2>2
    <3> QED BY <1>1, <3>1, WrittenType, ClockMoves
  <2> QED BY <2>1, <2>2, CommitWrites
<1>3. ResultT'
  BY <1>1, <1>2, ResultTRests DEF TypeInv
<1> QED BY <1>1, <1>2, <1>3, GatewayMoves

\* DeletePolicy takes a policy and its evaluations, and no other.
LEMMA DeletePolicyMoves ==
  ASSUME TypeInv, NEW r \in wanted, DeletePolicy(r)
  PROVE  /\ Moves(0) /\ (\A c \in Consumer : Rests(c)) /\ r.policy \in Policy
         /\ policy' = [policy EXCEPT ![r.policy] = NoRow] /\ UNCHANGED <<row, ids, open, edits>>
         /\ DOMAIN result' \subseteq DOMAIN result
         /\ \A k \in DOMAIN result' : result'[k] = result[k] /\ k[2] # r.policy
<1>1. r \in Request /\ r.do = "drop" /\ wanted' \subseteq Request
  BY WantMoves DEF DeletePolicy, TypeInv
<1>2. r.policy \in Policy
  BY <1>1 DEF Request
<1>3. /\ policy' = [policy EXCEPT ![r.policy] = NoRow] /\ UNCHANGED <<row, ids, open, edits, stream>> /\ ids \in Nat /\ edits \in Nat
      /\ result' = Without({k \in DOMAIN result : k[2] = r.policy})
  BY DEF DeletePolicy, delete_policy, OnlyGateway, busVars, TypeInv, RowT
<1>4. DOMAIN result' \subseteq DOMAIN result /\ \A k \in DOMAIN result' : result'[k] = result[k] /\ k[2] # r.policy
  <2> DEFINE lost == {k \in DOMAIN result : k[2] = r.policy}
  <2> HIDE DEF lost
  <2>1. result' = Without(lost)
    BY <1>3 DEF lost
  <2>2. DOMAIN result' = DOMAIN result \ lost /\ \A k \in DOMAIN result' : result'[k] = result[k]
    BY <2>1, Leaving
  <2> QED BY <2>2 DEF lost
<1>5. RowT' /\ ResultT'
  BY <1>2, <1>3, <1>4 DEF TypeInv, RowT, ResultT, Index
<1>6. Moves(0) /\ \A c \in Consumer : Rests(c)
  BY <1>1, <1>3, <1>5, GatewayMoves DEF DeletePolicy
<1> QED BY <1>2, <1>3, <1>4, <1>6

\* A request keeps the types.
LEMMA EditMoves ==
  ASSUME TypeInv, Edit
  PROVE  TypeInv'
<1>1. PolicyCommit => TypeInv'
  BY CommitMoves DEF Moves
<1>2. ASSUME NEW r \in wanted, Hear(r) \/ RequestScan(r) PROVE TypeInv'
  BY <1>2, HearMoves, RequestScanMoves DEF Moves
<1>3. ASSUME NEW r \in wanted, Ingest(r) \/ UpdateDevice(r) \/ DeleteDevice(r) PROVE TypeInv'
  BY <1>3, IngestMoves, UpdateDeviceMoves, DeleteDeviceMoves DEF Moves
<1>4. ASSUME NEW r \in wanted, Open(r) \/ DeletePolicy(r) PROVE TypeInv'
  BY <1>4, OpenMoves, DeletePolicyMoves DEF Moves
<1> QED BY <1>1, <1>2, <1>3, <1>4, EditCases DEF Asked

\* Nothing happens.
LEMMA StutterMoves ==
  ASSUME TypeInv, UNCHANGED vars
  PROVE  Moves(0) /\ \A c \in Consumer : Rests(c)
<1>1. Grown(Message)
  BY Standing, OnBus DEF vars, busVars
<1>2. BusInv' /\ Settles(0) /\ \A c \in Consumer : Rests(c)
  BY <1>1, Resting DEF vars, busVars
<1>3. UNCHANGED <<ids, edits, scan, merging, engine, result>> /\ ids \in Nat /\ edits \in Nat /\ RestT'
  BY DEF vars, rowVars, scanVars, TypeInv, RowT, RestT
<1>4. ScanT' /\ MergeT' /\ EngineT' /\ ResultT'
  BY <1>1, <1>2, <1>3, MessageShape, ScanTRests, MergeTRests, EngineTRests, ResultTRests DEF TypeInv
<1>5. RowT'
  BY <1>1, RowTRests DEF vars
<1> QED BY <1>1, <1>2, <1>3, <1>4, <1>5 DEF Moves, TypeInv, Grown

\* Every step keeps the types.
LEMMA TypeStep ==
  ASSUME TypeInv, [Next]_vars
  PROVE  TypeInv'
<1>1. CASE Edit
  BY <1>1, EditMoves
<1>2. CASE Start
  BY <1>2, ScannerStartMoves, InventoryStartMoves, EngineStartMoves DEF Start, Moves
<1>3. CASE Faulty
  BY <1>3, ScanFailsMoves, ScanOutlastsMoves, MergeRefusedMoves DEF Faulty, Moves
<1>4. CASE ScanStep
  BY <1>4, ScanBeginMoves, ScanPublishMoves, ScanDoneMoves DEF ScanStep, Moves
<1>5. CASE MergeStep
  BY <1>5, MergeBeginMoves, MergeSkipMoves, MergeMoves, MergeRefusedMoves, AnnounceMoves DEF MergeStep, Moves
<1>6. CASE EngineStep
  BY <1>6, EvaluateBeginMoves, ReadPoliciesMoves, EvaluateDoneMoves, RecordMoves, RecordRaisesMoves DEF EngineStep, Moves
<1>7. CASE \E m \in Mac : Forget(m)
  BY <1>7, ForgetMoves DEF Moves
<1>8. CASE UNCHANGED vars
  BY <1>8, StutterMoves DEF Moves
<1> QED BY <1>1, <1>2, <1>3, <1>4, <1>5, <1>6, <1>7, <1>8 DEF Next

\* The types hold initially.
LEMMA TypeInit ==
  ASSUME Init
  PROVE  TypeInv
<1>1. stream = <<>> /\ BusInv /\ Index = {}
  BY BusStarts DEF Init, BusInit, Index
<1>2. stream \in Seq(Message)
  BY <1>1, EmptySeq
<1>3. current["discovery"] = 0 /\ current["inventory"] = 0 /\ current["policy"] = 0
  BY MessageShape DEF Init, BusInit
<1>4. ScanT /\ MergeT /\ EngineT
  BY <1>3 DEF Init, ScanT, MergeT, EngineT, NoScan, NoMerge, NoEngine
<1>5. RowT /\ ResultT
  BY DEF Init, RowT, ResultT
<1>6. RestT
  BY PlansAssumption DEF Init, RestT
<1> QED BY <1>1, <1>2, <1>4, <1>5, <1>6 DEF TypeInv

\* Every variable keeps its type, and a callback has locals exactly while its
\* consumer waits for an answer (device_inventory/main.py:37, policy_engine/main.py:19).
THEOREM TypeCorrect == Spec => []TypeOK
<1>1. TypeInv => TypeOK
  BY DEF TypeInv, TypeOK, BusInv, ScanT, MergeT, EngineT, RowT, ResultT, RestT
<1> QED BY <1>1, TypeInit, TypeStep, PTL DEF Spec

-----------------------------------------------------------------------------
(* Scans.                                                                    *)

\* What was reported stays reported.
LEMMA ReportedKept ==
  ASSUME TypeInv, Grown(Message), NEW i \in Index, NEW k, Reported(i, k)
  PROVE  Reported(i, k)'
BY DEF Reported, Grown

\* Settling a message is harmless unless it is an ARP scan with a host to report.
LEMMA ArpKept ==
  ASSUME TypeInv, ArpScanComplete, NEW x, Moves(x),
         x \in Index /\ stream[x].to = "discovery" /\ stream[x].type = "arp" =>
           \A k \in DOMAIN stream[x].hosts : Reported(x, k)
  PROVE  ArpScanComplete'
<1>1. Grown(Message) /\ Settles(x)
  BY DEF Moves
<1> SUFFICES ASSUME NEW i \in Index', stream'[i].to = "discovery", stream'[i].type = "arp", Settled(i)',
                    NEW k \in DOMAIN stream'[i].hosts
             PROVE  \E j \in Index' : j > i /\ stream'[j] = Report(stream'[i].hosts[k])
  BY DEF ArpScanComplete
<1>2. i \in Index /\ (Settled(i) \/ i = x)
  BY <1>1 DEF Settles
<1>3. stream'[i] = stream[i]
  BY <1>1, <1>2 DEF Grown
<1>4. Found(stream[i]) = stream[i].hosts
  BY <1>3 DEF Found
<1>5. \E j \in Index : j > i /\ stream[j] = Report(stream[i].hosts[k])
  BY <1>2, <1>3, <1>4 DEF ArpScanComplete, Reported
<1> QED BY <1>1, <1>3, <1>5 DEF Grown

\* A step of another service.
LEMMA ScanInvRests ==
  ASSUME TypeInv, ScanInv, NEW x, Moves(x), Rests("discovery"), UNCHANGED scan,
         x \in Index => stream[x].to # "discovery"
  PROVE  ScanInv'
<1>1. ArpScanComplete'
  BY ArpKept DEF ScanInv
<1>2. ASSUME scan.pc = "publish"
      PROVE  /\ scan'.done <= Len(Found(Scanning))'
             /\ \A k \in 1 .. scan'.done : Reported(current["discovery"], k)'
  <2>1. current'["discovery"] = current["discovery"] /\ current["discovery"] \in Index /\ Grown(Message)
    BY <1>2, ScanInHand DEF Moves, Rests
  <2>2. Scanning' = Scanning
    BY <2>1 DEF Scanning, Grown
  <2>3. \A k \in 1 .. scan.done : Reported(current["discovery"], k)
    BY <1>2 DEF ScanInv
  <2>4. Found(Scanning)' = Found(Scanning)
    BY <2>2 DEF Found
  <2>5. \A k \in 1 .. scan.done : \E j \in Index : j > current["discovery"] /\ stream[j] = Report(Found(Scanning)[k])
    BY <2>3 DEF Reported, Scanning
  <2>6. \A k \in 1 .. scan.done : \E j \in Index' : j > current'["discovery"] /\ stream'[j] = Report(Found(Scanning)'[k])
    BY <2>1, <2>4, <2>5 DEF Grown
  <2> QED BY <1>2, <2>4, <2>6 DEF ScanInv, Reported, Scanning
<1> QED BY <1>1, <1>2 DEF ScanInv

\* A host more is on the bus.
LEMMA ScanInvPublish ==
  ASSUME TypeInv, ScanInv, ScanPublish
  PROVE  ScanInv'
<1> DEFINE c == current["discovery"]
           n == scan.done
<1>1. Moves(0) /\ Grown(Message) /\ c \in Index /\ 0 \notin Index
  BY ScanPublishMoves, ScanInHand, OnBus DEF Moves, ScanPublish
<1>2. ArpScanComplete'
  BY <1>1, ArpKept DEF ScanInv
<1>3. /\ n \in Nat /\ n < Len(Found(Scanning)) /\ scan.pc = "publish" /\ Len(Found(Scanning)) \in Nat
      /\ scan' = [scan EXCEPT !.done = @ + 1] /\ UNCHANGED current
  BY ScanInHand DEF ScanPublish, TypeInv, ScanT
<1>4. scan'.done = n + 1
  BY <1>3 DEF TypeInv, ScanT
<1>5. stream'[c] = stream[c] /\ Scanning' = Scanning /\ Found(Scanning)' = Found(Scanning)
  BY <1>1, <1>3 DEF Grown, Scanning, Found
<1>6. /\ Len(stream) + 1 \in Index' /\ Len(stream) + 1 > c
      /\ stream'[Len(stream) + 1] = Report(Found(Scanning)[n + 1])
  <2>1. Report(Found(Scanning)[n + 1]) \in Message
    BY <1>3, ScanInHand
  <2>2. Index' = Index \cup {Len(stream) + 1} /\ stream'[Len(stream) + 1] = Report(Found(Scanning)[n + 1])
    BY <2>1, Publishing, OnBus DEF ScanPublish
  <2>3. Len(stream) + 1 > c
    BY <1>1, OnBus
  <2> QED BY <2>2, <2>3
<1>7. \A k \in 1 .. n : \E j \in Index : j > c /\ stream[j] = Report(Found(Scanning)[k])
  BY <1>3 DEF ScanInv, Reported, Scanning
<1>8. ASSUME NEW k \in 1 .. n + 1
      PROVE  \E j \in Index' : j > c /\ stream'[j] = Report(Found(Scanning)[k])
  <2>1. CASE k = n + 1
    BY <1>6, <2>1
  <2>2. CASE k # n + 1
    <3>1. k \in 1 .. n
      BY <1>3, <2>2
    <3> QED BY <1>1, <1>7, <3>1 DEF Grown
  <2> QED BY <2>1, <2>2
<1>9. \A k \in 1 .. scan'.done : Reported(current["discovery"], k)'
  BY <1>3, <1>4, <1>5, <1>8 DEF Reported, Scanning
<1>10. scan'.done <= Len(Found(Scanning)')
  BY <1>3, <1>4, <1>5
<1> QED BY <1>2, <1>9, <1>10 DEF ScanInv

\* The scanner's other steps.
LEMMA ScanInvOwn ==
  ASSUME TypeInv, ScanInv,
         (\E i \in Index : ScanBegin(i)) \/ ScanFails \/ ScanOutlasts \/ ScanDone \/ ScannerStart
  PROVE  ScanInv'
<1>0. 0 \notin Index
  BY OnBus
<1>1. CASE \E i \in Index : ScanBegin(i)
  <2>1. PICK i \in Index : ScanBegin(i)
    BY <1>1
  <2>2. ArpScanComplete' /\ scan' = [pc |-> "publish", done |-> 0]
    BY <1>0, <2>1, ScanBeginMoves, ArpKept DEF ScanInv, ScanBegin
  <2>3. TypeInv' /\ scan'.pc = "publish"
    BY <2>1, <2>2, ScanBeginMoves DEF Moves
  <2>4. Len(Found(Scanning)') \in Nat
    BY <2>3, ScanInHand
  <2> QED BY <2>2, <2>4 DEF ScanInv
<1>2. CASE ScanFails
  <2>1. ArpScanComplete'
    BY <1>0, <1>2, ScanFailsMoves, ArpKept DEF ScanInv, Scanning
  <2> QED BY <1>2, <2>1 DEF ScanInv, ScanFails, NoScan
<1>3. CASE ScanOutlasts
  <2>1. ArpScanComplete' /\ Grown(Message)
    BY <1>0, <1>3, ScanOutlastsMoves, ArpKept DEF ScanInv, Moves
  <2>2. current["discovery"] \in Index /\ UNCHANGED <<stream, current, scan>> /\ scan.pc = "publish"
    BY <1>3, ScanInHand DEF ScanOutlasts, Expire
  <2> QED BY <2>1, <2>2 DEF ScanInv, Reported, Scanning, Index, Found
<1>4. CASE ScanDone
  <2>1. scan.pc = "publish" /\ scan.done = Len(Found(Scanning)) /\ scan' = NoScan
    BY <1>4 DEF ScanDone
  <2>2. ASSUME Scanning.type = "arp"
        PROVE  \A k \in DOMAIN Scanning.hosts : Reported(current["discovery"], k)
    <3>1. Found(Scanning) = Scanning.hosts /\ Scanning.hosts \in Hosts
      BY <2>1, <2>2, ScanInHand DEF Found
    <3>2. DOMAIN Scanning.hosts = 1 .. scan.done
      BY <2>1, <3>1 DEF Hosts
    <3> QED BY <2>1, <3>2 DEF ScanInv
  <2>3. ArpScanComplete'
    BY <1>4, <2>2, ScanDoneMoves, ArpKept DEF ScanInv, Scanning
  <2> QED BY <2>1, <2>3 DEF ScanInv, NoScan
<1>5. CASE ScannerStart
  <2>1. ArpScanComplete'
    BY <1>0, <1>5, ScannerStartMoves, ArpKept DEF ScanInv
  <2> QED BY <1>5, <2>1 DEF ScanInv, ScannerStart, NoScan
<1> QED BY <1>1, <1>2, <1>3, <1>4, <1>5

\* A step that leaves the scanner alone.
LEMMA ScanInvOthers ==
  ASSUME TypeInv, ScanInv, Rests("discovery"), UNCHANGED scan,
         Moves(0) \/ Moves(current["inventory"]) \/ Moves(current["policy"])
  PROVE  ScanInv'
<1>1. 0 \notin Index
  BY OnBus
<1>2. /\ current["inventory"] \in Index => stream[current["inventory"]].to # "discovery"
      /\ current["policy"] \in Index => stream[current["policy"]].to # "discovery"
  BY <1>1, OnBus, MessageShape
<1> QED BY <1>1, <1>2, ScanInvRests

\* Every step keeps what is known of the scans.
LEMMA ScanInvStep ==
  ASSUME TypeInv, ScanInv, [Next]_vars
  PROVE  ScanInv'
<1>0. "discovery" \in Consumer
  BY MessageShape
<1>1. CASE Edit
  <2>1. CASE PolicyCommit
    BY <1>0, <2>1, CommitWrites, CommitMoves, ScanInvOthers DEF OnlyGateway, scanVars
  <2>2. CASE \E r \in wanted : Asked(r)
    <3>1. PICK r \in wanted : Asked(r)
      BY <2>2
    <3>2. UNCHANGED scan
      BY <3>1 DEF Asked, Hear, RequestScan, Ingest, UpdateDevice, DeleteDevice, Open, DeletePolicy, OnlyGateway, scanVars
    <3>3. Moves(0) /\ Rests("discovery")
      BY <1>0, <3>1, HearMoves, RequestScanMoves, IngestMoves, UpdateDeviceMoves, DeleteDeviceMoves, OpenMoves,
         DeletePolicyMoves DEF Asked
    <3> QED BY <3>2, <3>3, ScanInvOthers
  <2> QED BY <1>1, <2>1, <2>2, EditCases
<1>2. CASE Start
  <2>1. CASE ScannerStart
    BY <2>1, ScanInvOwn
  <2>2. CASE InventoryStart \/ EngineStart
    BY <2>2, InventoryStartMoves, EngineStartMoves, ScanInvOthers DEF InventoryStart, EngineStart, scanVars
  <2> QED BY <1>2, <2>1, <2>2 DEF Start
<1>3. CASE Faulty
  <2>1. CASE ScanFails \/ ScanOutlasts
    BY <2>1, ScanInvOwn
  <2>2. CASE AnnounceFails
    BY <2>2, MergeRefusedMoves, ScanInvOthers DEF AnnounceFails, OnlyMerge, scanVars
  <2> QED BY <1>3, <2>1, <2>2 DEF Faulty
<1>4. CASE ScanStep
  BY <1>4, ScanInvOwn, ScanInvPublish DEF ScanStep
<1>5. CASE MergeStep
  <2>1. UNCHANGED scan
    BY <1>5 DEF MergeStep, MergeBegin, MergeSkip, Merge, MergeRaises, Announce, OnlyMerge, scanVars
  <2>2. Rests("discovery") /\ (Moves(0) \/ Moves(current["inventory"]))
    BY <1>0, <1>5, MergeBeginMoves, MergeSkipMoves, MergeMoves, MergeRefusedMoves, AnnounceMoves DEF MergeStep
  <2> QED BY <2>1, <2>2, ScanInvOthers
<1>6. CASE EngineStep
  <2>1. UNCHANGED scan
    BY <1>6 DEF EngineStep, EvaluateBegin, ReadPolicies, EvaluateDone, Record, RecordRaises, OnlyEngine, scanVars
  <2>2. Rests("discovery") /\ (Moves(0) \/ Moves(current["policy"]))
    BY <1>0, <1>6, EvaluateBeginMoves, ReadPoliciesMoves, EvaluateDoneMoves, RecordMoves, RecordRaisesMoves DEF EngineStep
  <2> QED BY <2>1, <2>2, ScanInvOthers
<1>7. CASE \E m \in Mac : Forget(m)
  BY <1>0, <1>7, ForgetMoves, ScanInvOthers DEF Forget
<1>8. CASE UNCHANGED vars
  BY <1>0, <1>8, StutterMoves, ScanInvOthers DEF vars, scanVars
<1> QED BY <1>1, <1>2, <1>3, <1>4, <1>5, <1>6, <1>7, <1>8 DEF Next

\* There is no scan initially.
LEMMA ScanInvInit ==
  ASSUME Init
  PROVE  ScanInv
BY DEF Init, BusInit, ScanInv, ArpScanComplete, NoScan, Index

\* An ARP scan that was answered for good has reported every host that
\* answered, whatever failed or was started again meanwhile (active_scanner.py:36).
THEOREM ArpComplete == Spec => []ArpScanComplete
<1>1. Init => TypeInv /\ ScanInv
  BY TypeInit, ScanInvInit
<1>2. TypeInv /\ ScanInv /\ [Next]_vars => (TypeInv /\ ScanInv)'
  BY TypeStep, ScanInvStep
<1>3. TypeInv /\ ScanInv => ArpScanComplete
  BY DEF ScanInv
<1> QED BY <1>1, <1>2, <1>3, PTL DEF Spec

-----------------------------------------------------------------------------
(* Devices.                                                                  *)

\* A device nobody wrote to stays announced, if its report is not settled now.
LEMMA ByReportKept ==
  ASSUME TypeInv, NEW m \in Mac, Changed(m), ByReport(m), row'[m] = row[m], NEW x, Moves(x), x # row[m].by,
         merging'.pc = "announce" /\ current'["inventory"] = row[m].by => merging'.id = row[m].id
  PROVE  ByReport(m)'
<1>1. Grown(Message) /\ Settles(x) /\ row[m].by \in Index
  BY KnownRow DEF Moves, Changed
<1>2. stream'[row[m].by] = stream[row[m].by]
  BY <1>1 DEF Grown
<1>3. ASSUME NEW b, b = row[m].by PROVE ~Settled(b)' \/ Announced(m)'
  <2>1. CASE ~Settled(b)
    BY <1>1, <1>3, <2>1 DEF Settles, Grown
  <2>2. CASE Announced(m)
    BY <1>1, <2>2 DEF Announced, Grown
  <2> QED BY <1>3, <2>1, <2>2 DEF ByReport
<1>4. ~Settled(row[m].by)' \/ Announced(m)'
  <2>1. PICK b : b = row[m].by
    OBVIOUS
  <2>2. b = row'[m].by
    BY <2>1
  <2>3. ~Settled(b)' \/ Announced(m)'
    BY <1>3, <2>1
  <2> QED BY <2>2, <2>3 DEF Settled, Waits
<1> QED BY <1>1, <1>2, <1>4 DEF ByReport

\* A step that writes to no device and announces none.
LEMMA DeviceInvRests ==
  ASSUME TypeInv, DeviceInv, UNCHANGED row, NEW x, Moves(x),
         x \in Index => stream[x].to # "inventory" \/ stream[x].mac = Unknown,
         \/ merging'.pc # "announce"
         \/ UNCHANGED merging /\ Rests("inventory")
  PROVE  DeviceInv'
<1>1. Distinct'
  BY DEF DeviceInv, Distinct
<1>2. ASSUME NEW m \in Mac, Changed(m)
      PROVE  ByReport(m)'
  <2>1. ByReport(m) /\ row[m].by \in Index
    BY <1>2, KnownRow DEF DeviceInv, Changed
  <2>2. x # row[m].by
    BY <2>1, MacAssumption DEF ByReport
  <2> QED BY <1>2, <2>1, <2>2, ByReportKept DEF ByReport, Rests
<1> QED BY <1>1, <1>2 DEF DeviceInv, Changed

\* A device is written, in the name of the report in hand or in nobody's.
LEMMA DeviceInvWrote ==
  ASSUME TypeInv, DeviceInv, Moves(0), UNCHANGED <<policy, open, edits, current>>,
         NEW m, NEW id, NEW facts, NEW by, Wrote(m, id, facts, by),
         \/ by = 0 /\ UNCHANGED merging
         \/ /\ by = current["inventory"] /\ by # 0 /\ m = Merging.mac
            /\ merging' = [pc |-> "announce", id |-> id]
  PROVE  DeviceInv'
<1>0. Grown(Message) /\ Settles(0) /\ 0 \notin Index
  BY OnBus DEF Moves
<1>1. /\ m \in Mac /\ row'[m] = [id |-> id, facts |-> facts, by |-> by] /\ row'[m] # NoRow
      /\ \A n \in Mac \ {m} : row'[n] = row[n]
  BY <1>0, WroteType
<1>2. Distinct'
  <2>1. ASSUME NEW n \in Mac, n # m, row'[n] # NoRow PROVE row'[n].id # id
    <3>1. row[n] # NoRow /\ row[n].id \in 1 .. ids /\ row'[n].id = row[n].id
      BY <1>1, <2>1, KnownRow
    <3>2. CASE row[m] = NoRow
      <4>1. id = ids + 1 /\ ids \in Nat
        BY <3>2 DEF Wrote, TypeInv, RowT
      <4> QED BY <3>1, <4>1
    <3>3. CASE row[m] # NoRow
      <4>1. id = row[m].id
        BY <3>3 DEF Wrote
      <4> QED BY <1>1, <2>1, <3>1, <3>3, <4>1 DEF DeviceInv, Distinct
    <3> QED BY <3>2, <3>3
  <2>2. ASSUME NEW n \in Mac, NEW o \in Mac, row'[n] # NoRow, row'[o] # NoRow, n # o
        PROVE  row'[n].id # row'[o].id
    <3>1. CASE n = m
      BY <1>1, <2>1, <2>2, <3>1
    <3>2. CASE o = m
      BY <1>1, <2>1, <2>2, <3>2
    <3>3. CASE n # m /\ o # m
      BY <1>1, <2>2, <3>3 DEF DeviceInv, Distinct
    <3> QED BY <3>1, <3>2, <3>3
  <2> QED BY <2>2 DEF Distinct
<1>3. ASSUME NEW n \in Mac, n # m, Changed(n)'
      PROVE  ByReport(n)'
  <2>1. Changed(n) /\ ByReport(n) /\ row'[n] = row[n] /\ row[n].by \in Index
    BY <1>1, <1>3, KnownRow DEF DeviceInv, Changed
  <2>2. by = current["inventory"] /\ m = Merging.mac /\ by # 0 => row[n].by # current'["inventory"]
    BY <1>3, <2>1 DEF ByReport, Merging
  <2>3. merging'.pc = "announce" /\ current'["inventory"] = row[n].by => merging'.id = row[n].id
    BY <2>1, <2>2 DEF ByReport
  <2> QED BY <1>0, <2>1, <2>3, ByReportKept
<1>4. ASSUME Changed(m)'
      PROVE  ByReport(m)'
  <2>1. /\ by = current["inventory"] /\ by # 0 /\ m = Merging.mac
        /\ merging' = [pc |-> "announce", id |-> id] /\ row'[m].by = by /\ row'[m].id = id
    BY <1>1, <1>4 DEF Changed
  <2>2. by \in Index /\ stream[by].to = "inventory" /\ stream[by].mac = m
    BY <2>1, OnBus, MessageShape DEF Merging
  <2>3. stream'[by] = stream[by] /\ current'["inventory"] = by
    BY <1>0, <2>1, <2>2 DEF Grown
  <2>4. \A b : b = by => ~Settled(b)'
    BY <2>2, <2>3 DEF Settled
  <2>5. ~Settled(row[m].by)'
    BY <2>1, <2>4 DEF Settled, Waits
  <2> QED BY <2>1, <2>2, <2>3, <2>5 DEF ByReport
<1> QED BY <1>2, <1>3, <1>4 DEF DeviceInv

\* A device is deleted.
LEMMA DeviceInvDelete ==
  ASSUME TypeInv, DeviceInv, NEW r \in wanted, DeleteDevice(r)
  PROVE  DeviceInv'
<1>1. /\ Moves(0) /\ row' = [row EXCEPT ![r.mac] = NoRow] /\ UNCHANGED <<current, merging>> /\ 0 \notin Index
  BY DeleteDeviceMoves, OnBus DEF DeleteDevice, OnlyGateway, busVars
<1>2. \A m \in Mac : row'[m] # NoRow => row'[m] = row[m]
  BY <1>1 DEF TypeInv, RowT
<1>3. Distinct'
  BY <1>2 DEF DeviceInv, Distinct
<1>4. ASSUME NEW m \in Mac, Changed(m)'
      PROVE  ByReport(m)'
  <2>1. Changed(m) /\ row'[m] = row[m] /\ ByReport(m) /\ row[m].by \in Index
    BY <1>2, <1>4, KnownRow DEF Changed, DeviceInv
  <2> QED BY <1>1, <2>1, ByReportKept DEF ByReport
<1> QED BY <1>3, <1>4 DEF DeviceInv

\* The report in hand is announced: its device is up for evaluation.
LEMMA DeviceInvAnnounce ==
  ASSUME TypeInv, DeviceInv, Announce
  PROVE  DeviceInv'
<1> DEFINE c == current["inventory"]
<1>1. /\ Moves(c) /\ Grown(Message) /\ Merging.mac \in Mac /\ UNCHANGED row /\ merging.pc = "announce" /\ merging' = NoMerge
      /\ Index' = Index \cup {Len(stream) + 1} /\ stream'[Len(stream) + 1] = Asking
  BY AnnounceMoves DEF Announce, Moves
<1>2. Distinct'
  BY <1>1 DEF DeviceInv, Distinct
<1>3. ASSUME NEW m \in Mac, Changed(m)
      PROVE  ByReport(m)'
  <2>1. ByReport(m) /\ row[m].by \in Index
    BY <1>3, KnownRow DEF DeviceInv, Changed
  <2>2. CASE row[m].by # c
    BY <1>1, <1>3, <2>1, <2>2, ByReportKept DEF NoMerge
  <2>3. CASE row[m].by = c
    <3>1. Merging.mac = m /\ merging.id = row[m].id
      BY <1>1, <2>1, <2>3 DEF ByReport, Merging
    <3>2. Len(stream) + 1 > row[m].by
      BY <2>1, OnBus
    <3>3. Announced(m)'
      BY <1>1, <3>1, <3>2 DEF Announced, Asking
    <3>4. stream'[row[m].by] = stream[row[m].by]
      BY <1>1, <2>1 DEF Grown
    <3> QED BY <1>1, <2>1, <3>3, <3>4 DEF ByReport, NoMerge
  <2> QED BY <2>2, <2>3
<1> QED BY <1>1, <1>2, <1>3 DEF DeviceInv, Changed

\* Every step keeps what is known of the devices.
LEMMA DeviceInvStep ==
  ASSUME TypeInv, DeviceInv, [Next]_vars
  PROVE  DeviceInv'
<1>0. /\ "inventory" \in Consumer /\ 0 \notin Index
      /\ current["discovery"] \in Index => stream[current["discovery"]].to # "inventory"
      /\ current["policy"] \in Index => stream[current["policy"]].to # "inventory"
  BY OnBus, MessageShape
<1>1. CASE Edit
  <2>0. ASSUME PolicyCommit
        PROVE  DeviceInv'
    BY <1>0, <2>0, CommitWrites, CommitMoves, DeviceInvRests DEF OnlyGateway
  <2>1. SUFFICES ASSUME NEW r \in wanted, Asked(r)
                 PROVE  DeviceInv'
    BY <1>1, <2>0, EditCases
  <2>2. CASE Hear(r) \/ RequestScan(r) \/ Open(r) \/ DeletePolicy(r)
    <3>1. UNCHANGED <<row, merging>>
      BY <2>2 DEF Hear, RequestScan, Open, DeletePolicy, OnlyGateway, rowVars
    <3>2. Moves(0) /\ Rests("inventory")
      BY <1>0, <2>2, HearMoves, RequestScanMoves, OpenMoves, DeletePolicyMoves
    <3> QED BY <1>0, <3>1, <3>2, DeviceInvRests
  <2>3. CASE Ingest(r)
    <3>1. PICK id, facts : Wrote(r.mac, id, facts, 0)
      BY <2>3, IngestWrites
    <3> QED BY <2>3, <3>1, IngestMoves, DeviceInvWrote DEF Ingest, OnlyGateway, busVars
  <2>4. CASE UpdateDevice(r)
    <3>1. CASE UNCHANGED <<row, ids>>
      BY <1>0, <2>4, <3>1, UpdateDeviceMoves, DeviceInvRests DEF UpdateDevice, OnlyGateway
    <3>2. CASE \E id, facts : Wrote(r.mac, id, facts, 0)
      <4>1. PICK id, facts : Wrote(r.mac, id, facts, 0)
        BY <3>2
      <4> QED BY <2>4, <4>1, UpdateDeviceMoves, DeviceInvWrote DEF UpdateDevice, OnlyGateway, busVars
    <3> QED BY <2>4, <3>1, <3>2, UpdateWrites
  <2>5. CASE DeleteDevice(r)
    BY <2>5, DeviceInvDelete
  <2> QED BY <2>1, <2>2, <2>3, <2>4, <2>5 DEF Asked
<1>2. CASE Start
  <2>1. CASE ScannerStart \/ EngineStart
    BY <1>0, <2>1, ScannerStartMoves, EngineStartMoves, DeviceInvRests DEF ScannerStart, EngineStart, rowVars
  <2>2. CASE InventoryStart
    BY <1>0, <2>2, InventoryStartMoves, DeviceInvRests DEF InventoryStart, rowVars, NoMerge
  <2> QED BY <1>2, <2>1, <2>2 DEF Start
<1>3. CASE Faulty
  <2>1. CASE ScanFails \/ ScanOutlasts
    BY <1>0, <2>1, ScanFailsMoves, ScanOutlastsMoves, DeviceInvRests DEF ScanFails, ScanOutlasts, OnlyScan, rowVars
  <2>2. CASE AnnounceFails
    BY <1>0, <2>2, MergeRefusedMoves, DeviceInvRests DEF AnnounceFails, NoMerge
  <2> QED BY <1>3, <2>1, <2>2 DEF Faulty
<1>4. CASE ScanStep
  <2>1. UNCHANGED <<row, merging>>
    BY <1>4 DEF ScanStep, ScanBegin, ScanPublish, ScanDone, OnlyScan, rowVars
  <2>2. Rests("inventory") /\ (Moves(0) \/ Moves(current["discovery"]))
    BY <1>0, <1>4, ScanBeginMoves, ScanPublishMoves, ScanDoneMoves DEF ScanStep
  <2> QED BY <1>0, <2>1, <2>2, DeviceInvRests
<1>5. CASE MergeStep
  <2>1. CASE \E i \in Index : MergeBegin(i)
    BY <1>0, <2>1, MergeBeginMoves, DeviceInvRests DEF MergeBegin
  <2>2. CASE MergeSkip
    BY <2>2, MergeSkipMoves, DeviceInvRests DEF MergeSkip, NoMerge, Merging
  <2>3. CASE Merge
    <3>1. PICK id, facts : /\ Wrote(Merging.mac, id, facts, current["inventory"])
                           /\ merging' = [pc |-> "announce", id |-> id]
      BY <2>3, MergeWrites
    <3>2. Moves(0) /\ UNCHANGED <<policy, open, edits, current>> /\ current["inventory"] # 0
      BY <2>3, MergeMoves DEF Merge, OnlyMerge, busVars, TypeInv, MergeT
    <3> QED BY <3>1, <3>2, DeviceInvWrote
  <2>4. CASE MergeRaises
    BY <1>0, <2>4, MergeRefusedMoves, DeviceInvRests DEF MergeRaises, NoMerge
  <2>5. CASE Announce
    BY <2>5, DeviceInvAnnounce
  <2> QED BY <1>5, <2>1, <2>2, <2>3, <2>4, <2>5 DEF MergeStep
<1>6. CASE EngineStep
  <2>1. UNCHANGED <<row, merging>>
    BY <1>6 DEF EngineStep, EvaluateBegin, ReadPolicies, EvaluateDone, Record, RecordRaises, OnlyEngine, rowVars
  <2>2. Rests("inventory") /\ (Moves(0) \/ Moves(current["policy"]))
    BY <1>0, <1>6, EvaluateBeginMoves, ReadPoliciesMoves, EvaluateDoneMoves, RecordMoves, RecordRaisesMoves DEF EngineStep
  <2> QED BY <1>0, <2>1, <2>2, DeviceInvRests
<1>7. CASE \E m \in Mac : Forget(m)
  BY <1>0, <1>7, ForgetMoves, DeviceInvRests DEF Forget, rowVars
<1>8. CASE UNCHANGED vars
  BY <1>0, <1>8, StutterMoves, DeviceInvRests DEF vars, rowVars
<1> QED BY <1>1, <1>2, <1>3, <1>4, <1>5, <1>6, <1>7, <1>8 DEF Next

\* There is no device initially.
LEMMA DeviceInvInit ==
  ASSUME Init
  PROVE  DeviceInv
BY DEF Init, DeviceInv, Distinct, Changed

\* A device a report changed last is up for evaluation, or the report will be
\* given again: a failed publish after the commit loses no evaluation, and
\* neither does a start (device_inventory/main.py:108).
THEOREM ChangesAnnounced == Spec => []ChangeAnnounced
<1>1. Init => TypeInv /\ DeviceInv
  BY TypeInit, DeviceInvInit
<1>2. TypeInv /\ DeviceInv /\ [Next]_vars => (TypeInv /\ DeviceInv)'
  BY TypeStep, DeviceInvStep
<1>3. TypeInv /\ DeviceInv => ChangeAnnounced
  BY DEF DeviceInv, ByReport, Changed, Announced, ChangeAnnounced
<1> QED BY <1>1, <1>2, <1>3, PTL DEF Spec

\* What a step can do to the rows of the devices.
LEMMA RowSteps ==
  ASSUME TypeInv, [Next]_vars
  PROVE  \/ UNCHANGED row
         \/ \E m, id, facts, by : Wrote(m, id, facts, by)
         \/ \E m : row' = [row EXCEPT ![m] = NoRow]
<1>1. CASE Edit
  <2>1. CASE PolicyCommit
    BY <2>1, CommitWrites
  <2>2. CASE \E r \in wanted : Hear(r) \/ RequestScan(r) \/ Open(r) \/ DeletePolicy(r)
    BY <2>2 DEF Hear, RequestScan, Open, DeletePolicy, rowVars
  <2>3. CASE \E r \in wanted : Ingest(r) \/ UpdateDevice(r)
    BY <2>3, IngestWrites, UpdateWrites
  <2>4. CASE \E r \in wanted : DeleteDevice(r)
    BY <2>4, DeleteDeviceMoves
  <2> QED BY <1>1, <2>1, <2>2, <2>3, <2>4, EditCases DEF Asked
<1>2. CASE Merge
  BY <1>2, MergeWrites
<1>3. CASE Start \/ Faulty \/ ScanStep \/ EngineStep \/ \E m \in Mac : Forget(m)
  BY <1>3 DEF Start, ScannerStart, InventoryStart, EngineStart, Faulty, ScanFails, ScanOutlasts, AnnounceFails,
              ScanStep, ScanBegin, ScanPublish, ScanDone, OnlyScan,
              EngineStep, EvaluateBegin, ReadPolicies, EvaluateDone, Record, RecordRaises, OnlyEngine, Forget, rowVars
<1>4. CASE MergeStep /\ ~Merge
  BY <1>4 DEF MergeStep, MergeBegin, MergeSkip, MergeRaises, Announce
<1>5. CASE UNCHANGED vars
  BY <1>5 DEF vars, rowVars
<1> QED BY <1>1, <1>2, <1>3, <1>4, <1>5 DEF Next

\* Nothing a device is known by is forgotten while its row lives, whoever
\* reports, ingests or edits it in whatever order (device_inventory/main.py:47).
THEOREM KnownStays == Spec => KnownKept
<1>1. ASSUME TypeInv, [Next]_vars, NEW m \in Mac, row[m] # NoRow, row'[m] # NoRow, row'[m].id = row[m].id,
             NEW f \in Field, row[m].facts[f] # Unknown
      PROVE  row'[m].facts[f] # Unknown
  <2>1. CASE UNCHANGED row
    BY <1>1, <2>1
  <2>2. CASE \E n, id, facts, by : Wrote(n, id, facts, by)
    <3>1. PICK n, id, facts, by : Wrote(n, id, facts, by)
      BY <2>2
    <3>2. row' = [row EXCEPT ![n] = [id |-> id, facts |-> facts, by |-> by]]
      BY <3>1 DEF Wrote
    <3>3. CASE n = m
      <4>1. row'[m].facts = facts
        BY <1>1, <3>2, <3>3 DEF TypeInv, RowT
      <4> QED BY <1>1, <3>1, <3>3, <4>1 DEF Wrote
    <3>4. CASE n # m
      BY <1>1, <3>2, <3>4 DEF TypeInv, RowT
    <3> QED BY <3>3, <3>4
  <2>3. CASE \E n : row' = [row EXCEPT ![n] = NoRow]
    BY <1>1, <2>3 DEF TypeInv, RowT
  <2> QED BY <1>1, <2>1, <2>2, <2>3, RowSteps
<1>2. TypeInv /\ [Next]_vars =>
        [\A m \in Mac : row[m] # NoRow /\ row'[m] # NoRow /\ row'[m].id = row[m].id
           => \A f \in Field : row[m].facts[f] # Unknown => row'[m].facts[f] # Unknown]_vars
  BY <1>1
<1> QED BY <1>2, TypeInit, TypeStep, PTL DEF Spec, KnownKept

-----------------------------------------------------------------------------
(* Evaluations.                                                              *)

\* A step that concerns neither policies nor evaluations, or that stops one.
LEMMA EngineInvRests ==
  ASSUME TypeInv, EngineInv, UNCHANGED <<row, policy, result>>, UNCHANGED engine \/ engine' = NoEngine
  PROVE  EngineInv'
<1>1. CASE UNCHANGED engine
  BY <1>1 DEF EngineInv, Busy, Whose, InHand, OnRecord, Untouched, Matches
<1>2. CASE engine' = NoEngine
  BY <1>2 DEF EngineInv, Busy, Whose, InHand, OnRecord, Untouched, NoEngine
<1> QED BY <1>1, <1>2

\* A device is written: a new identity is not one the engine has.
LEMMA EngineInvWrote ==
  ASSUME TypeInv, EngineInv, Grown(Message), UNCHANGED <<policy, open, edits, result, engine>>,
         NEW m, NEW id, NEW facts, NEW by, Wrote(m, id, facts, by)
  PROVE  EngineInv'
<1>1. /\ m \in Mac /\ row'[m] = [id |-> id, facts |-> facts, by |-> by]
      /\ \A n \in Mac \ {m} : row'[n] = row[n]
  BY WroteType
<1>2. ASSUME Busy, id = engine.id
      PROVE  m = engine.mac
  <2>1. engine.id \in 1 .. ids /\ ids \in Nat
    BY <1>2 DEF TypeInv, EngineT, RowT, Busy
  <2>2. row[m] # NoRow /\ row[m].id = engine.id
    BY <1>2, <2>1 DEF Wrote
  <2> QED BY <1>1, <1>2, <2>2 DEF EngineInv, Whose
<1>3. Whose'
  BY <1>1, <1>2 DEF EngineInv, Whose, Busy
<1> QED BY <1>3 DEF EngineInv, InHand, OnRecord, Untouched, Matches

\* A device is deleted, and what was on record for it.
LEMMA EngineInvDelete ==
  ASSUME TypeInv, EngineInv, NEW r \in wanted, DeleteDevice(r)
  PROVE  EngineInv'
<1>1. /\ row' = [row EXCEPT ![r.mac] = NoRow] /\ UNCHANGED <<policy, engine>>
      /\ DOMAIN result' \subseteq DOMAIN result /\ \A k \in DOMAIN result' : result'[k] = result[k]
  BY DeleteDeviceMoves DEF DeleteDevice, OnlyGateway
<1>2. \A m \in Mac : row'[m] # NoRow => row'[m] = row[m]
  BY <1>1 DEF TypeInv, RowT
<1>3. Whose'
  BY <1>1, <1>2 DEF EngineInv, Whose, Busy
<1> QED BY <1>1, <1>3 DEF EngineInv, InHand, OnRecord, Untouched, Matches

\* A policy is written: it is no longer untouched.
LEMMA EngineInvWritten ==
  ASSUME TypeInv, EngineInv, NEW p \in Policy, NEW body \in Body, NEW at \in 1 .. edits, Written(p, body, at),
         UNCHANGED <<row, ids, stream, result, engine>>
  PROVE  EngineInv'
<1>1. /\ edits \in Nat /\ policy'[p] = [body |-> body, at |-> at, since |-> edits + 1] /\ policy'[p] # NoRow
      /\ \A q \in Policy \ {p} : policy'[q] = policy[q]
  BY WrittenType
<1>2. engine.at \in 0 .. edits /\ \A k \in DOMAIN result : k[2] \in Policy /\ result[k].at \in 0 .. edits
  BY DEF TypeInv, EngineT, ResultT
<1>3. ~Untouched(p)'
  BY <1>1, <1>2 DEF Untouched
<1>4. \A q \in Policy \ {p} : Untouched(q)' <=> Untouched(q)
  BY <1>1 DEF Untouched
<1>5. Whose'
  BY DEF EngineInv, Whose, Busy
<1>6. \A e \in engine.todo : e.policy \in Policy
  BY EngineFields
<1>7. \A r \in engine.rows : r.policy \in Policy
  BY EngineFields
<1>8. ASSUME engine.pc = "record"
      PROVE  /\ \A q \in Policy : Untouched(q)' /\ policy'[q].body.enabled =>
                  (\E e \in engine.todo : e.policy = q) \/ (\E r \in engine.rows : r.policy = q)
             /\ \A e \in engine.todo : Untouched(e.policy)' => e.body = policy'[e.policy].body /\ e.body.enabled
             /\ \A r \in engine.rows :
                  /\ policy'[r.policy] # NoRow
                  /\ Untouched(r.policy)' => /\ policy'[r.policy].body.enabled
                                             /\ r.matched = Matches(policy'[r.policy].body, engine.facts)
  <2>1. \A q \in Policy : Untouched(q)' => q # p /\ Untouched(q) /\ policy'[q] = policy[q]
    BY <1>1, <1>3, <1>4
  <2>2. \A q \in Policy : policy[q] # NoRow => policy'[q] # NoRow
    BY <1>1
  <2> QED BY <1>6, <1>7, <1>8, <2>1, <2>2 DEF EngineInv, InHand
<1>9. InHand'
  BY <1>8 DEF InHand, Untouched, Matches
<1>10. OnRecord'
  <2>1. ASSUME NEW k \in DOMAIN result
        PROVE  /\ policy'[k[2]] # NoRow
               /\ result[k].at >= policy'[k[2]].since => policy'[k[2]].body.enabled
               /\ engine.pc # "idle" => result[k].at <= engine.at
    <3>1. CASE k[2] = p
      BY <1>1, <1>2, <3>1 DEF EngineInv, OnRecord
    <3>2. CASE k[2] # p
      BY <1>1, <1>2, <3>2 DEF EngineInv, OnRecord
    <3> QED BY <3>1, <3>2
  <2> QED BY <2>1 DEF OnRecord
<1> QED BY <1>5, <1>9, <1>10 DEF EngineInv

\* A policy is deleted that no row in hand is about, and what was on record for it.
LEMMA EngineInvDrop ==
  ASSUME TypeInv, EngineInv, NEW r \in wanted, DeletePolicy(r)
  PROVE  EngineInv'
<1>1. /\ r.policy \in Policy /\ policy' = [policy EXCEPT ![r.policy] = NoRow] /\ UNCHANGED <<row, engine>>
      /\ DOMAIN result' \subseteq DOMAIN result
      /\ \A k \in DOMAIN result' : result'[k] = result[k] /\ k[2] # r.policy
      /\ \A o \in engine.rows : o.policy # r.policy
  BY DeletePolicyMoves DEF DeletePolicy, OnlyGateway, LockedPolicy
<1>2. policy'[r.policy] = NoRow /\ \A q \in Policy : q # r.policy => policy'[q] = policy[q]
  BY <1>1 DEF TypeInv, RowT
<1>3. Whose'
  BY <1>1 DEF EngineInv, Whose, Busy
<1>4. \A e \in engine.todo : e.policy \in Policy
  BY EngineFields
<1>5. \A o \in engine.rows : o.policy \in Policy
  BY EngineFields
<1>6. \A q \in Policy : Untouched(q)' => q # r.policy /\ Untouched(q) /\ policy'[q] = policy[q]
  BY <1>1, <1>2 DEF Untouched
<1>7. ASSUME engine.pc = "record"
      PROVE  /\ \A q \in Policy : Untouched(q)' /\ policy'[q].body.enabled =>
                  (\E e \in engine.todo : e.policy = q) \/ (\E o \in engine.rows : o.policy = q)
             /\ \A e \in engine.todo : Untouched(e.policy)' => e.body = policy'[e.policy].body /\ e.body.enabled
             /\ \A o \in engine.rows :
                  /\ policy'[o.policy] # NoRow
                  /\ Untouched(o.policy)' => /\ policy'[o.policy].body.enabled
                                             /\ o.matched = Matches(policy'[o.policy].body, engine.facts)
  BY <1>1, <1>2, <1>4, <1>5, <1>6, <1>7 DEF EngineInv, InHand
<1>8. InHand'
  BY <1>1, <1>7 DEF InHand, Untouched, Matches
<1>9. OnRecord'
  <2>1. \A k \in DOMAIN result' : k \in DOMAIN result /\ k[2] \in Policy /\ policy'[k[2]] = policy[k[2]]
    BY <1>1, <1>2 DEF TypeInv, ResultT
  <2> QED BY <1>1, <2>1 DEF EngineInv, OnRecord
<1> QED BY <1>3, <1>8, <1>9 DEF EngineInv

\* An evaluation begins: nothing on record is later, and the identity is the
\* device's that was found.
LEMMA EngineInvBegin ==
  ASSUME TypeInv, DeviceInv, EngineInv, NEW i \in Index, EvaluateBegin(i)
  PROVE  EngineInv'
<1>1. UNCHANGED <<row, policy, result>> /\ engine'.pc \in {"read", "done"} /\ engine'.at = edits
  BY DEF EvaluateBegin, OnlyEngine, rowVars
<1>2. Whose'
  <2>1. CASE row[stream[i].mac] # NoRow /\ row[stream[i].mac].id = stream[i].id
    <3>1. stream[i].mac \in Mac
      BY Taking, OnBus, MessageShape DEF EvaluateBegin, OnlyEngine
    <3>2. engine'.mac = stream[i].mac /\ engine'.id = stream[i].id
      BY DEF EvaluateBegin
    <3> QED BY <1>1, <2>1, <3>1, <3>2 DEF DeviceInv, Distinct, Whose
  <2>2. CASE ~(row[stream[i].mac] # NoRow /\ row[stream[i].mac].id = stream[i].id)
    BY <2>2 DEF EvaluateBegin, Whose, Busy
  <2> QED BY <2>1, <2>2
<1>3. \A k \in DOMAIN result : result[k].at <= edits
  BY DEF TypeInv, ResultT, RowT
<1> QED BY <1>1, <1>2, <1>3 DEF EngineInv, InHand, OnRecord

\* The policies are read: all that are enabled, as they are.
LEMMA EngineInvRead ==
  ASSUME TypeInv, EngineInv, ReadPolicies
  PROVE  EngineInv'
<1>1. /\ engine'.pc = "record" /\ engine'.mac = engine.mac /\ engine'.id = engine.id /\ engine'.at = engine.at
      /\ engine'.facts = engine.facts
      /\ engine'.todo = {[policy |-> p, body |-> policy[p].body] : p \in Enabled} /\ engine'.rows = {}
      /\ engine.pc = "read" /\ UNCHANGED <<row, policy, result>>
  BY Reading DEF ReadPolicies, OnlyEngine, rowVars
<1>2. ASSUME NEW p \in Policy, policy[p] # NoRow, policy[p].body.enabled
      PROVE  \E e \in engine'.todo : e.policy = p
  <2>1. [policy |-> p, body |-> policy[p].body] \in engine'.todo
    BY <1>1, <1>2 DEF Enabled
  <2> QED BY <2>1
<1>3. \A e \in engine'.todo : e.body = policy[e.policy].body /\ e.body.enabled
  BY <1>1 DEF Enabled
<1>4. InHand'
  BY <1>1, <1>2, <1>3 DEF InHand, Untouched
<1>5. Whose' /\ OnRecord'
  BY <1>1 DEF EngineInv, Whose, Busy, OnRecord
<1> QED BY <1>4, <1>5 DEF EngineInv

\* A policy is evaluated: the row says what it finds.
LEMMA EngineInvRecord ==
  ASSUME TypeInv, EngineInv, NEW e \in engine.todo, Record(e)
  PROVE  EngineInv'
<1> DEFINE done == [policy |-> e.policy, matched |-> Matches(e.body, engine.facts)]
<1>1. /\ engine'.pc = "record" /\ engine'.mac = engine.mac /\ engine'.id = engine.id /\ engine'.at = engine.at
      /\ engine'.facts = engine.facts
      /\ engine'.todo = engine.todo \ {e} /\ engine'.rows = engine.rows \cup {done}
      /\ engine.pc = "record" /\ UNCHANGED <<row, policy, result>>
  BY Recording DEF Record, OnlyEngine, rowVars
<1>2. policy[e.policy] # NoRow
  BY DEF Record, Dangling
<1>3. ASSUME NEW p \in Policy, Untouched(p), policy[p].body.enabled
      PROVE  (\E o \in engine'.todo : o.policy = p) \/ (\E r \in engine'.rows : r.policy = p)
  <2>1. CASE \E r \in engine.rows : r.policy = p
    BY <1>1, <2>1
  <2>2. CASE \E o \in engine.todo : o.policy = p
    <3>1. PICK o \in engine.todo : o.policy = p
      BY <2>2
    <3>2. CASE o = e
      <4>1. done \in engine'.rows /\ done.policy = p
        BY <1>1, <3>1, <3>2
      <4> QED BY <4>1
    <3>3. CASE o # e
      BY <1>1, <3>1, <3>3
    <3> QED BY <3>2, <3>3
  <2> QED BY <1>1, <1>3, <2>1, <2>2 DEF EngineInv, InHand
<1>4. \A o \in engine'.todo : Untouched(o.policy) => o.body = policy[o.policy].body /\ o.body.enabled
  BY <1>1 DEF EngineInv, InHand
<1>5. ASSUME NEW r \in engine'.rows
      PROVE  /\ policy[r.policy] # NoRow
             /\ Untouched(r.policy) => /\ policy[r.policy].body.enabled
                                       /\ r.matched = Matches(policy[r.policy].body, engine.facts)
  <2>1. CASE r \in engine.rows
    BY <1>1, <2>1 DEF EngineInv, InHand
  <2>2. CASE r = done
    <3>1. r.policy = e.policy /\ r.matched = Matches(e.body, engine.facts)
      BY <2>2
    <3>2. Untouched(e.policy) => e.body = policy[e.policy].body /\ e.body.enabled
      BY <1>1 DEF EngineInv, InHand
    <3> QED BY <1>2, <3>1, <3>2
  <2> QED BY <1>1, <2>1, <2>2
<1>6. \A p : Untouched(p)' <=> Untouched(p)
  BY <1>1 DEF Untouched
<1>7. InHand'
  BY <1>1, <1>3, <1>4, <1>5, <1>6 DEF InHand, Matches
<1>8. Whose' /\ OnRecord'
  BY <1>1 DEF EngineInv, Whose, Busy, OnRecord
<1> QED BY <1>7, <1>8 DEF EngineInv

\* What the rows in hand say once all policies are done.
LEMMA AllRecorded ==
  ASSUME TypeInv, EngineInv, EvaluateDone
  PROVE  /\ \A r \in engine.rows : /\ engine.pc = "record" /\ r.policy \in Policy /\ policy[r.policy] # NoRow
                                   /\ Untouched(r.policy) =>
                                        /\ policy[r.policy].body.enabled
                                        /\ r.matched = Matches(policy[r.policy].body, engine.facts)
         /\ engine.pc = "record" => \A p \in Policy : Untouched(p) /\ policy[p].body.enabled =>
                                      \E r \in engine.rows : r.policy = p
         /\ \A r \in engine.rows : LET k == <<engine.id, r.policy>> IN
              /\ k \in DOMAIN result' /\ result'[k].at = engine.at
              /\ Untouched(r.policy) => result'[k].matched = Matches(policy[r.policy].body, engine.facts)
<1>1. /\ engine.todo = {}
      /\ \A r \in engine.rows : engine.pc = "record" /\ r.policy \in Policy
  BY DEF EvaluateDone, TypeInv, EngineT
<1>2. /\ \A r \in engine.rows : /\ policy[r.policy] # NoRow
                                /\ Untouched(r.policy) =>
                                     /\ policy[r.policy].body.enabled
                                     /\ r.matched = Matches(policy[r.policy].body, engine.facts)
      /\ engine.pc = "record" => \A p \in Policy : Untouched(p) /\ policy[p].body.enabled =>
                                   \E r \in engine.rows : r.policy = p
  BY <1>1 DEF EngineInv, InHand
<1>3. ASSUME NEW r \in engine.rows
      PROVE  LET k == <<engine.id, r.policy>> IN
             /\ k \in DOMAIN result' /\ result'[k].at = engine.at
             /\ Untouched(r.policy) => result'[k].matched = Matches(policy[r.policy].body, engine.facts)
  <2>1. PICK o \in engine.rows :
          o.policy = r.policy /\ result'[<<engine.id, r.policy>>] = [matched |-> o.matched, at |-> engine.at]
    BY Committing
  <2>2. <<engine.id, r.policy>> \in DOMAIN result'
    BY Committing
  <2> QED BY <1>2, <2>1, <2>2
<1> QED BY <1>1, <1>2, <1>3

\* The commit of an evaluation: its rows were locked or begun after the last change.
LEMMA EngineInvDone ==
  ASSUME TypeInv, EngineInv, EvaluateDone
  PROVE  EngineInv'
<1>1. engine' = NoEngine /\ UNCHANGED <<row, policy>>
  BY DEF EvaluateDone, OnlyEngine, rowVars
<1>2. ASSUME NEW k \in DOMAIN result'
      PROVE  policy[k[2]] # NoRow /\ (result'[k].at >= policy[k[2]].since => policy[k[2]].body.enabled)
  <2>1. CASE k \in {<<engine.id, r.policy>> : r \in engine.rows}
    <3>1. PICK r \in engine.rows : k = <<engine.id, r.policy>>
      BY <2>1
    <3>2. result'[k].at = engine.at /\ policy[r.policy] # NoRow /\ r.policy \in Policy
          /\ (Untouched(r.policy) => policy[r.policy].body.enabled)
      BY <3>1, AllRecorded
    <3>3. policy[r.policy].since \in Int /\ engine.at \in Int
      BY <3>2 DEF TypeInv, RowT, EngineT
    <3> QED BY <3>1, <3>2, <3>3 DEF Untouched
  <2>2. CASE k \notin {<<engine.id, r.policy>> : r \in engine.rows}
    <3>1. k \in DOMAIN result /\ result'[k] = result[k]
      BY <2>2, Committing
    <3> QED BY <3>1 DEF EngineInv, OnRecord
  <2> QED BY <2>1, <2>2
<1> QED BY <1>1, <1>2 DEF EngineInv, Whose, InHand, OnRecord, Busy, NoEngine

\* A message that asks for an evaluation of a device goes on doing so until it
\* is answered.
LEMMA DueKept ==
  ASSUME TypeInv, NEW m \in Mac, row'[m] = row[m], NEW x, Moves(x),
         NEW j \in Index, stream[j] = [to |-> "policy", mac |-> m, id |-> row[m].id], ~Settled(j), j # x,
         current'["policy"] = j => Fresh(m)'
  PROVE  Due(m)'
<1>1. Grown(Message) /\ Settles(x)
  BY DEF Moves
<1>2. j \in Index' /\ stream'[j] = stream[j] /\ ~Settled(j)'
  BY <1>1 DEF Grown, Settles
<1> QED BY <1>2 DEF Due

\* A device nobody wrote to stays as current as it was, while the engine is
\* left alone or stopped.
LEMMA CurrentKept ==
  ASSUME TypeInv, DeviceInv, NEW m \in Mac, Changed(m), Current(m), row'[m] = row[m], NEW x, Moves(x), x # row[m].by,
         x \in Index => stream[x].to # "policy",
         \/ UNCHANGED engine /\ current'["policy"] = current["policy"]
         \/ engine' = NoEngine /\ current'["policy"] = 0,
         \A p \in Policy : True(m, p) => True(m, p)'
  PROVE  Current(m)'
<1>1. Grown(Message) /\ Settles(x) /\ row[m].by \in Index /\ 0 \notin Index
  BY KnownRow, OnBus DEF Moves, Changed
<1>2. CASE ~Settled(row[m].by)
  <2>1. \A b : b = row[m].by => ~Settled(b)'
    BY <1>1, <1>2 DEF Settles, Grown
  <2>2. ~Settled(row[m].by)'
    BY <2>1 DEF Settled, Waits
  <2> QED BY <2>2 DEF Current
<1>3. CASE Due(m)
  <2>1. PICK j \in Index : /\ stream[j] = [to |-> "policy", mac |-> m, id |-> row[m].id]
                           /\ ~Settled(j) /\ (current["policy"] = j => Fresh(m))
    BY <1>3 DEF Due
  <2>2. current'["policy"] = j => Fresh(m)'
    BY <1>1, <2>1 DEF Fresh, Busy
  <2>3. j # x
    BY <2>1
  <2> QED BY <2>1, <2>2, <2>3, DueKept DEF Current
<1>4. CASE Seen(m) /\ \A p \in Policy : True(m, p)
  BY <1>4 DEF Current, Seen, Busy, NoEngine
<1> QED BY <1>2, <1>3, <1>4 DEF Current

\* A step that concerns no device, no policy and nothing on record.
LEMMA CurrentInvRests ==
  ASSUME TypeInv, DeviceInv, CurrentInv, UNCHANGED <<row, policy, result>>, NEW x, Moves(x),
         x \in Index => /\ stream[x].to # "policy"
                        /\ stream[x].to # "inventory" \/ stream[x].mac = Unknown,
         \/ UNCHANGED engine /\ current'["policy"] = current["policy"]
         \/ engine' = NoEngine /\ current'["policy"] = 0
  PROVE  CurrentInv'
<1> SUFFICES ASSUME NEW m \in Mac, Changed(m)
             PROVE  Current(m)'
  BY DEF CurrentInv, Changed
<1>1. Current(m) /\ ByReport(m) /\ row[m].by \in Index
  BY KnownRow DEF CurrentInv, DeviceInv, Changed
<1>2. x # row[m].by
  BY <1>1, MacAssumption DEF ByReport
<1>3. \A p \in Policy : True(m, p) => True(m, p)'
  BY DEF True, Matches
<1> QED BY <1>1, <1>2, <1>3, CurrentKept

\* A device is written in the name of the report in hand, which is not settled,
\* or in nobody's.
LEMMA CurrentInvWrote ==
  ASSUME TypeInv, DeviceInv, CurrentInv, Moves(0), UNCHANGED <<policy, open, edits, current, result, engine>>,
         NEW m, NEW id, NEW facts, NEW by, Wrote(m, id, facts, by), by = 0 \/ by = current["inventory"]
  PROVE  CurrentInv'
<1>0. Grown(Message) /\ Settles(0) /\ 0 \notin Index
  BY OnBus DEF Moves
<1>1. /\ m \in Mac /\ row'[m] = [id |-> id, facts |-> facts, by |-> by] /\ row'[m] # NoRow
      /\ \A n \in Mac \ {m} : row'[n] = row[n]
  BY <1>0, WroteType
<1>2. ASSUME NEW n \in Mac, n # m, Changed(n)'
      PROVE  Current(n)'
  <2>1. row'[n] = row[n] /\ Changed(n) /\ Current(n) /\ row[n].by \in Index
    BY <1>1, <1>2, KnownRow DEF Changed, CurrentInv
  <2>2. \A p \in Policy : True(n, p) => True(n, p)'
    BY <2>1 DEF True, Matches
  <2> QED BY <1>0, <2>1, <2>2, CurrentKept
<1>3. ASSUME Changed(m)'
      PROVE  Current(m)'
  <2>1. by = current["inventory"] /\ by # 0 /\ row'[m].by = by
    BY <1>1, <1>3 DEF Changed
  <2>2. by \in Index /\ stream[by].to = "inventory"
    BY <2>1, OnBus, MessageShape
  <2>3. stream'[by] = stream[by] /\ current'["inventory"] = by
    BY <1>0, <2>1, <2>2 DEF Grown
  <2>4. \A b : b = by => ~Settled(b)'
    BY <2>2, <2>3 DEF Settled
  <2>5. ~Settled(row[m].by)'
    BY <2>1, <2>4 DEF Settled, Waits
  <2> QED BY <2>5 DEF Current
<1> QED BY <1>2, <1>3 DEF CurrentInv

\* A device is deleted.
LEMMA CurrentInvDelete ==
  ASSUME TypeInv, DeviceInv, CurrentInv, NEW r \in wanted, DeleteDevice(r)
  PROVE  CurrentInv'
<1>1. /\ Moves(0) /\ row' = [row EXCEPT ![r.mac] = NoRow] /\ UNCHANGED <<current, engine, policy>> /\ 0 \notin Index
      /\ DOMAIN result' \subseteq DOMAIN result /\ \A k \in DOMAIN result' : result'[k] = result[k]
  BY DeleteDeviceMoves, OnBus DEF DeleteDevice, OnlyGateway, busVars
<1> SUFFICES ASSUME NEW m \in Mac, Changed(m)'
             PROVE  Current(m)'
  BY DEF CurrentInv
<1>2. row'[m] = row[m] /\ Changed(m) /\ Current(m)
  BY <1>1 DEF Changed, CurrentInv, TypeInv, RowT
<1>3. row[m].by \in Index
  BY <1>2, KnownRow DEF Changed
<1>4. \A p \in Policy : True(m, p) => True(m, p)'
  BY <1>1, <1>2 DEF True, Matches
<1> QED BY <1>1, <1>2, <1>3, <1>4, CurrentKept

\* A policy is written: nothing on record is that late.
LEMMA CurrentInvWritten ==
  ASSUME TypeInv, DeviceInv, CurrentInv, Moves(0), NEW p \in Policy, NEW body \in Body, NEW at \in 1 .. edits, Written(p, body, at),
         UNCHANGED <<row, ids, stream, current, result, engine>>
  PROVE  CurrentInv'
<1>1. /\ edits \in Nat /\ policy'[p] = [body |-> body, at |-> at, since |-> edits + 1] /\ 0 \notin Index
      /\ \A q \in Policy \ {p} : policy'[q] = policy[q]
  BY WrittenType, OnBus
<1>2. \A k \in DOMAIN result : result[k].at \in 0 .. edits
  BY DEF TypeInv, ResultT
<1> SUFFICES ASSUME NEW m \in Mac, Changed(m)
             PROVE  Current(m)'
  BY DEF CurrentInv, Changed
<1>3. Current(m) /\ row[m].by \in Index
  BY KnownRow DEF Changed, CurrentInv
<1>4. ASSUME NEW q \in Policy, True(m, q) PROVE True(m, q)'
  <2>1. CASE q = p
    BY <1>1, <1>2, <2>1 DEF True
  <2>2. CASE q # p
    BY <1>1, <1>4, <2>2 DEF True, Matches
  <2> QED BY <2>1, <2>2
<1> QED BY <1>1, <1>3, <1>4, CurrentKept

\* A policy is deleted, and what was on record for it.
LEMMA CurrentInvDrop ==
  ASSUME TypeInv, DeviceInv, CurrentInv, NEW r \in wanted, DeletePolicy(r)
  PROVE  CurrentInv'
<1>1. /\ Moves(0) /\ r.policy \in Policy /\ policy' = [policy EXCEPT ![r.policy] = NoRow]
      /\ UNCHANGED <<row, current, engine>> /\ 0 \notin Index
      /\ DOMAIN result' \subseteq DOMAIN result
      /\ \A k \in DOMAIN result' : result'[k] = result[k] /\ k[2] # r.policy
  BY DeletePolicyMoves, OnBus DEF DeletePolicy, OnlyGateway, busVars
<1> SUFFICES ASSUME NEW m \in Mac, Changed(m)
             PROVE  Current(m)'
  BY <1>1 DEF CurrentInv, Changed
<1>2. Current(m) /\ row[m].by \in Index
  BY KnownRow DEF Changed, CurrentInv
<1>3. ASSUME NEW q \in Policy, True(m, q) PROVE True(m, q)'
  <2>1. CASE q = r.policy
    <3>1. <<row[m].id, q>>[2] = q
      OBVIOUS
    <3> QED BY <1>1, <2>1, <3>1 DEF True
  <2>2. CASE q # r.policy
    <3>1. policy'[q] = policy[q]
      BY <1>1, <2>2 DEF TypeInv, RowT
    <3> QED BY <1>1, <1>3, <3>1 DEF True, Matches
  <2> QED BY <2>1, <2>2
<1> QED BY <1>1, <1>2, <1>3, CurrentKept

\* The report in hand is settled, and its device due.
LEMMA CurrentInvAnnounce ==
  ASSUME TypeInv, DeviceInv, CurrentInv, Announce
  PROVE  CurrentInv'
<1> DEFINE c == current["inventory"]
<1>1. /\ Moves(c) /\ Grown(Message) /\ Settles(c) /\ UNCHANGED <<row, policy, engine, result>> /\ merging.pc = "announce"
      /\ Index' = Index \cup {Len(stream) + 1} /\ stream'[Len(stream) + 1] = Asking
      /\ current'["policy"] = current["policy"]
  BY AnnounceMoves, MessageShape DEF Announce, Moves, OnlyMerge, Rests
<1>2. /\ current["policy"] # Len(stream) + 1 /\ Len(stream) + 1 \notin Index
      /\ c \in Index => stream[c].to = "inventory"
  BY OnBus, MessageShape
<1>3. ASSUME NEW m \in Mac, Changed(m)
      PROVE  Current(m)'
  <2>1. Current(m) /\ ByReport(m) /\ row[m].by \in Index
    BY <1>3, KnownRow DEF CurrentInv, DeviceInv, Changed
  <2>2. CASE row[m].by # c
    <3>1. \A p \in Policy : True(m, p) => True(m, p)'
      BY <1>1 DEF True, Matches
    <3> QED BY <1>1, <1>2, <1>3, <2>1, <2>2, <3>1, CurrentKept
  <2>3. CASE row[m].by = c
    <3>1. Merging.mac = m /\ merging.id = row[m].id
      BY <1>1, <2>1, <2>3 DEF ByReport, Merging
    <3>2. \A j : j = Len(stream) + 1 => j \in Index' /\ ~Settled(j)' /\ current'["policy"] # j
      BY <1>1, <1>2, <2>1, <2>3 DEF Settles
    <3>3. \A j : j = Len(stream) + 1 => stream'[j] = [to |-> "policy", mac |-> m, id |-> row'[m].id]
      BY <1>1, <3>1 DEF Asking
    <3>4. Due(m)'
      BY <3>2, <3>3 DEF Due
    <3> QED BY <3>4 DEF Current
  <2> QED BY <2>2, <2>3
<1> QED BY <1>1, <1>3 DEF CurrentInv, Changed

\* An evaluation begins, with the device as it is.
LEMMA CurrentInvBegin ==
  ASSUME TypeInv, DeviceInv, CurrentInv, NEW i \in Index, EvaluateBegin(i)
  PROVE  CurrentInv'
<1>1. /\ Moves(0) /\ Grown(Message) /\ Settles(0) /\ current'["policy"] = i /\ UNCHANGED <<row, policy, result>> /\ 0 \notin Index
  BY EvaluateBeginMoves, OnBus DEF EvaluateBegin, Moves, OnlyEngine, rowVars
<1>2. /\ engine'.mac = stream[i].mac /\ engine'.id = stream[i].id
      /\ row[stream[i].mac] # NoRow /\ row[stream[i].mac].id = stream[i].id =>
           engine'.pc = "read" /\ engine'.facts = row[stream[i].mac].facts
  BY DEF EvaluateBegin
<1> SUFFICES ASSUME NEW m \in Mac, Changed(m)
             PROVE  Current(m)'
  BY <1>1 DEF CurrentInv, Changed
<1>3. Current(m) /\ row[m].by \in Index
  BY KnownRow DEF Changed, CurrentInv
<1>4. CASE ~Settled(row[m].by)
  <2>1. \A b : b = row[m].by => ~Settled(b)'
    BY <1>1, <1>3, <1>4 DEF Settles, Grown
  <2>2. ~Settled(row[m].by)'
    BY <1>1, <2>1 DEF Settled, Waits
  <2> QED BY <2>2 DEF Current
<1>5. CASE Due(m)
  <2>1. PICK j \in Index : /\ stream[j] = [to |-> "policy", mac |-> m, id |-> row[m].id]
                           /\ ~Settled(j) /\ (current["policy"] = j => Fresh(m))
    BY <1>5 DEF Due
  <2>2. j = i => Fresh(m)'
    BY <1>1, <1>2, <2>1 DEF Fresh, Busy, Changed
  <2> QED BY <1>1, <2>1, <2>2, DueKept DEF Current
<1>6. CASE Seen(m) /\ \A p \in Policy : True(m, p)
  <2>1. Seen(m)'
    BY <1>1, <1>2 DEF Seen, Changed
  <2>2. \A p \in Policy : True(m, p)'
    BY <1>1, <1>6 DEF True, Matches
  <2> QED BY <2>1, <2>2 DEF Current
<1> QED BY <1>3, <1>4, <1>5, <1>6 DEF Current

\* An evaluation goes on with the device it has.
LEMMA CurrentInvGoesOn ==
  ASSUME TypeInv, DeviceInv, CurrentInv, ReadPolicies \/ \E e \in engine.todo : Record(e)
  PROVE  CurrentInv'
<1>1. /\ Moves(0) /\ Grown(Message) /\ Settles(0) /\ UNCHANGED <<current, row, policy, result>> /\ 0 \notin Index
      /\ Busy /\ Busy' /\ engine'.mac = engine.mac /\ engine'.id = engine.id /\ engine'.facts = engine.facts
  <2>1. CASE ReadPolicies
    BY <2>1, ReadPoliciesMoves, Reading, OnBus DEF ReadPolicies, Moves, OnlyEngine, rowVars, Busy
  <2>2. CASE \E e \in engine.todo : Record(e)
    <3>1. PICK e \in engine.todo : Record(e)
      BY <2>2
    <3>2. /\ engine.pc = "record" /\ engine'.pc = "record" /\ engine'.mac = engine.mac /\ engine'.id = engine.id
          /\ engine'.facts = engine.facts
      BY <3>1, Recording
    <3>3. Moves(0) /\ UNCHANGED <<current, row, policy, result>>
      BY <3>1, RecordMoves DEF Record, OnlyEngine, rowVars
    <3> QED BY <3>2, <3>3, OnBus DEF Moves, Busy
  <2> QED BY <2>1, <2>2
<1> SUFFICES ASSUME NEW m \in Mac, Changed(m)
             PROVE  Current(m)'
  BY <1>1 DEF CurrentInv, Changed
<1>3. Current(m) /\ row[m].by \in Index
  BY KnownRow DEF Changed, CurrentInv
<1>4. CASE ~Settled(row[m].by)
  <2>1. \A b : b = row[m].by => ~Settled(b)'
    BY <1>1, <1>3, <1>4 DEF Settles, Grown
  <2>2. ~Settled(row[m].by)'
    BY <1>1, <2>1 DEF Settled, Waits
  <2> QED BY <2>2 DEF Current
<1>5. CASE Due(m)
  <2>1. PICK j \in Index : /\ stream[j] = [to |-> "policy", mac |-> m, id |-> row[m].id]
                           /\ ~Settled(j) /\ (current["policy"] = j => Fresh(m))
    BY <1>5 DEF Due
  <2>2. current'["policy"] = j => Fresh(m)'
    BY <1>1, <2>1 DEF Fresh
  <2> QED BY <1>1, <2>1, <2>2, DueKept DEF Current
<1>6. CASE Seen(m) /\ \A p \in Policy : True(m, p)
  <2>1. Seen(m)'
    BY <1>1, <1>6 DEF Seen
  <2>2. \A p \in Policy : True(m, p)'
    BY <1>1, <1>6 DEF True, Matches
  <2> QED BY <2>1, <2>2 DEF Current
<1> QED BY <1>3, <1>4, <1>5, <1>6 DEF Current

\* What an evaluation of a device as it is leaves on record for it is so,
\* whatever was there before.
LEMMA DoneIsTrue ==
  ASSUME TypeInv, EngineInv, EvaluateDone, NEW m \in Mac, row[m] # NoRow, NEW p \in Policy,
         \/ Fresh(m)
         \/ Seen(m) /\ True(m, p)
  PROVE  True(m, p)'
<1> DEFINE k == <<row[m].id, p>>
<1>1. UNCHANGED <<row, policy>> /\ k[2] = p
  BY DEF EvaluateDone, OnlyEngine, rowVars
<1>2. SUFFICES ASSUME k \in DOMAIN result', result'[k].at >= policy[p].since
               PROVE  result'[k].matched = Matches(policy[p].body, row[m].facts)
  BY <1>1 DEF True, Matches
<1>3. CASE \E r \in engine.rows : k = <<engine.id, r.policy>>
  <2>1. PICK r \in engine.rows : k = <<engine.id, r.policy>>
    BY <1>3
  <2>2. r.policy = p /\ engine.id = row[m].id
    BY <2>1
  <2>3. /\ engine.pc = "record" /\ result'[k].at = engine.at /\ policy[p] # NoRow
        /\ Untouched(p) => result'[k].matched = Matches(policy[p].body, engine.facts)
    BY <2>1, <2>2, AllRecorded
  <2>4. policy[p].since \in Int /\ engine.at \in Int
    BY <2>3 DEF TypeInv, RowT, EngineT
  <2>5. Untouched(p)
    BY <1>2, <2>3, <2>4 DEF Untouched
  <2>6. engine.mac = m
    BY <2>2, <2>3 DEF EngineInv, Whose, Busy
  <2>7. engine.facts = row[m].facts
    BY <2>2, <2>3, <2>6 DEF Fresh, Seen, Busy
  <2> QED BY <2>3, <2>5, <2>7
<1>4. CASE ~\E r \in engine.rows : k = <<engine.id, r.policy>>
  <2>1. k \in DOMAIN result /\ result'[k] = result[k]
    BY <1>2, <1>4, Committing
  <2>2. CASE Fresh(m)
    <3>1. /\ engine.id = row[m].id /\ engine.pc = "record"
      BY <2>2 DEF Fresh, Busy, EvaluateDone
    <3>2. policy[p] # NoRow /\ policy[p].body.enabled /\ result[k].at <= engine.at
      BY <1>1, <1>2, <2>1, <3>1 DEF EngineInv, OnRecord
    <3>3. policy[p].since \in Int /\ engine.at \in Int /\ result[k].at \in Int
      BY <2>1, <3>2 DEF TypeInv, RowT, EngineT, ResultT
    <3>4. Untouched(p)
      BY <1>2, <2>1, <3>2, <3>3 DEF Untouched
    <3>5. \E r \in engine.rows : r.policy = p
      BY <3>1, <3>2, <3>4, AllRecorded
    <3> QED BY <1>4, <3>1, <3>5
  <2>3. CASE True(m, p)
    BY <1>2, <2>1, <2>3 DEF True
  <2> QED BY <2>2, <2>3
<1> QED BY <1>3, <1>4

\* An evaluation ends.
LEMMA CurrentInvDone ==
  ASSUME TypeInv, DeviceInv, EngineInv, CurrentInv, EvaluateDone
  PROVE  CurrentInv'
<1> DEFINE c == current["policy"]
<1>1. /\ Moves(c) /\ Grown(Message) /\ Settles(c) /\ current'["policy"] = 0 /\ engine' = NoEngine
      /\ UNCHANGED <<row, policy>> /\ 0 \notin Index /\ stream[c].to = "policy"
  <2>1. c # 0
    BY DEF EvaluateDone, TypeInv, EngineT
  <2> QED BY <2>1, EvaluateDoneMoves, OnBus, MessageShape DEF EvaluateDone, Moves, OnlyEngine, rowVars
<1> SUFFICES ASSUME NEW m \in Mac, Changed(m)
             PROVE  Current(m)'
  BY <1>1 DEF CurrentInv, Changed
<1>2. Current(m) /\ row[m].by \in Index /\ row[m].by # c /\ row[m] # NoRow
  BY <1>1, KnownRow DEF Changed, CurrentInv, DeviceInv, ByReport
<1>3. Seen(m)'
  BY <1>1 DEF Seen, Busy, NoEngine
<1>4. CASE ~Settled(row[m].by)
  <2>1. \A b : b = row[m].by => ~Settled(b)'
    BY <1>1, <1>2, <1>4 DEF Settles, Grown
  <2>2. ~Settled(row[m].by)'
    BY <1>1, <2>1 DEF Settled, Waits
  <2> QED BY <2>2 DEF Current
<1>5. CASE Due(m)
  <2>1. PICK j \in Index : /\ stream[j] = [to |-> "policy", mac |-> m, id |-> row[m].id]
                           /\ ~Settled(j) /\ (current["policy"] = j => Fresh(m))
    BY <1>5 DEF Due
  <2>2. CASE j # c
    BY <1>1, <2>1, <2>2, DueKept DEF Current
  <2>3. CASE j = c
    BY <1>2, <1>3, <2>1, <2>3, DoneIsTrue DEF Current
  <2> QED BY <2>2, <2>3
<1>6. CASE Seen(m) /\ \A p \in Policy : True(m, p)
  BY <1>2, <1>3, <1>6, DoneIsTrue DEF Current
<1> QED BY <1>2, <1>4, <1>5, <1>6 DEF Current

\* A step of a service other than the engine that writes to no device.
LEMMA QuietStep ==
  ASSUME TypeInv, DeviceInv, EngineInv, CurrentInv, UNCHANGED <<row, policy, result, engine>>, Rests("policy"),
         \/ Moves(0)
         \/ Moves(current["discovery"])
         \/ Moves(current["inventory"]) /\ Merging.mac = Unknown
  PROVE  (EngineInv /\ CurrentInv)'
<1>1. /\ current'["policy"] = current["policy"] /\ 0 \notin Index
      /\ current["discovery"] \in Index => stream[current["discovery"]].to = "discovery"
      /\ current["inventory"] \in Index => stream[current["inventory"]].to = "inventory"
  BY OnBus, MessageShape DEF Rests
<1>2. EngineInv'
  BY EngineInvRests
<1>3. CurrentInv'
  BY <1>1, CurrentInvRests DEF Merging
<1> QED BY <1>2, <1>3

\* A request keeps the evaluations in order.
LEMMA CurrentEdit ==
  ASSUME TypeInv, DeviceInv, EngineInv, CurrentInv, Edit
  PROVE  (EngineInv /\ CurrentInv)'
<1>0. "policy" \in Consumer
  BY MessageShape
<1>1. ASSUME PolicyCommit
      PROVE  (EngineInv /\ CurrentInv)'
  <2>1. Moves(0) /\ Rests("policy") /\ UNCHANGED <<row, ids, stream, current, result, engine>>
    BY <1>0, <1>1, CommitMoves, CommitWrites DEF OnlyGateway, busVars
  <2>2. CASE UNCHANGED policy
    BY <2>1, <2>2, QuietStep
  <2>3. CASE \E p \in Policy, body \in Body, at \in 1 .. edits : Written(p, body, at)
    <3>1. PICK p \in Policy, body \in Body, at \in 1 .. edits : Written(p, body, at)
      BY <2>3
    <3> QED BY <2>1, <3>1, EngineInvWritten, CurrentInvWritten
  <2> QED BY <1>1, <2>2, <2>3, CommitWrites
<1>9. SUFFICES ASSUME NEW r \in wanted, Asked(r)
               PROVE  (EngineInv /\ CurrentInv)'
  BY <1>1, EditCases
<1>2. CASE Hear(r) \/ RequestScan(r)
  BY <1>0, <1>2, HearMoves, RequestScanMoves, QuietStep DEF Hear, RequestScan, rowVars
<1>3. CASE Ingest(r)
  <2>1. PICK id, facts : Wrote(r.mac, id, facts, 0)
    BY <1>3, IngestWrites
  <2>2. Moves(0) /\ UNCHANGED <<policy, open, edits, current, result, engine>>
    BY <1>3, IngestMoves DEF Ingest, OnlyGateway, busVars
  <2> QED BY <2>1, <2>2, EngineInvWrote, CurrentInvWrote DEF Moves
<1>4. CASE UpdateDevice(r)
  <2>1. Moves(0) /\ Rests("policy") /\ UNCHANGED <<policy, open, edits, current, result, engine>>
    BY <1>0, <1>4, UpdateDeviceMoves DEF UpdateDevice, OnlyGateway, busVars
  <2>2. CASE UNCHANGED <<row, ids>>
    BY <2>1, <2>2, QuietStep
  <2>3. CASE \E id, facts : Wrote(r.mac, id, facts, 0)
    <3>1. PICK id, facts : Wrote(r.mac, id, facts, 0)
      BY <2>3
    <3> QED BY <2>1, <3>1, EngineInvWrote, CurrentInvWrote DEF Moves
  <2> QED BY <1>4, <2>2, <2>3, UpdateWrites
<1>5. CASE DeleteDevice(r)
  BY <1>5, EngineInvDelete, CurrentInvDelete
<1>6. CASE Open(r)
  BY <1>0, <1>6, OpenMoves, QuietStep DEF Open, OnlyGateway
<1>7. CASE DeletePolicy(r)
  BY <1>7, EngineInvDrop, CurrentInvDrop
<1> QED BY <1>9, <1>2, <1>3, <1>4, <1>5, <1>6, <1>7 DEF Asked

\* Every step does.
LEMMA CurrentStep ==
  ASSUME TypeInv, DeviceInv, EngineInv, CurrentInv, [Next]_vars
  PROVE  (EngineInv /\ CurrentInv)'
<1>0. "policy" \in Consumer /\ 0 \notin Index
  BY MessageShape, OnBus
<1>1. CASE Edit
  BY <1>1, CurrentEdit
<1>2. CASE Start
  <2>1. CASE ScannerStart \/ InventoryStart
    BY <2>1, ScannerStartMoves, InventoryStartMoves, QuietStep DEF ScannerStart, InventoryStart, rowVars
  <2>2. CASE EngineStart
    <3>1. Moves(0) /\ current'["policy"] = 0 /\ engine' = NoEngine /\ UNCHANGED <<row, policy, result>>
      BY <2>2, EngineStartMoves DEF EngineStart, rowVars
    <3> QED BY <1>0, <3>1, EngineInvRests, CurrentInvRests
  <2> QED BY <1>2, <2>1, <2>2 DEF Start
<1>3. CASE Faulty
  <2>1. CASE ScanFails \/ ScanOutlasts
    BY <2>1, ScanFailsMoves, ScanOutlastsMoves, QuietStep DEF ScanFails, ScanOutlasts, OnlyScan, rowVars
  <2>2. CASE AnnounceFails
    BY <2>2, MergeRefusedMoves, QuietStep DEF AnnounceFails, OnlyMerge
  <2> QED BY <1>3, <2>1, <2>2 DEF Faulty
<1>4. CASE ScanStep
  <2>1. UNCHANGED <<row, policy, result, engine>>
    BY <1>4 DEF ScanStep, ScanBegin, ScanPublish, ScanDone, OnlyScan, rowVars
  <2>2. Rests("policy") /\ (Moves(0) \/ Moves(current["discovery"]))
    BY <1>0, <1>4, ScanBeginMoves, ScanPublishMoves, ScanDoneMoves DEF ScanStep
  <2> QED BY <2>1, <2>2, QuietStep
<1>5. CASE MergeStep
  <2>1. CASE \E i \in Index : MergeBegin(i)
    BY <2>1, MergeBeginMoves, QuietStep DEF MergeBegin, OnlyMerge
  <2>2. CASE MergeSkip
    BY <2>2, MergeSkipMoves, QuietStep DEF MergeSkip, OnlyMerge
  <2>3. CASE Merge
    <3>1. PICK id, facts : Wrote(Merging.mac, id, facts, current["inventory"])
      BY <2>3, MergeWrites
    <3>2. Moves(0) /\ UNCHANGED <<policy, open, edits, current, result, engine>>
      BY <2>3, MergeMoves DEF Merge, OnlyMerge, busVars
    <3> QED BY <3>1, <3>2, EngineInvWrote, CurrentInvWrote DEF Moves
  <2>4. CASE MergeRaises
    BY <2>4, MergeRefusedMoves, QuietStep DEF MergeRaises, OnlyMerge
  <2>5. CASE Announce
    <3>1. EngineInv'
      BY <2>5, EngineInvRests DEF Announce, OnlyMerge
    <3> QED BY <2>5, <3>1, CurrentInvAnnounce
  <2> QED BY <1>5, <2>1, <2>2, <2>3, <2>4, <2>5 DEF MergeStep
<1>6. CASE EngineStep
  <2>1. CASE \E i \in Index : EvaluateBegin(i)
    BY <2>1, EngineInvBegin, CurrentInvBegin
  <2>2. CASE ReadPolicies
    BY <2>2, EngineInvRead, CurrentInvGoesOn
  <2>3. CASE EvaluateDone
    BY <2>3, EngineInvDone, CurrentInvDone
  <2>4. CASE \E e \in engine.todo : Record(e)
    BY <2>4, EngineInvRecord, CurrentInvGoesOn
  <2>5. CASE \E e \in engine.todo : RecordRaises(e)
    <3>1. Moves(0) /\ current'["policy"] = 0 /\ engine' = NoEngine /\ UNCHANGED <<row, policy, result>>
      BY <2>5, RecordRaisesMoves DEF RecordRaises, OnlyEngine, rowVars
    <3> QED BY <1>0, <3>1, EngineInvRests, CurrentInvRests
  <2> QED BY <1>6, <2>1, <2>2, <2>3, <2>4, <2>5 DEF EngineStep
<1>7. CASE \E m \in Mac : Forget(m)
  BY <1>0, <1>7, ForgetMoves, QuietStep DEF Forget, rowVars
<1>8. CASE UNCHANGED vars
  BY <1>0, <1>8, StutterMoves, QuietStep DEF vars, rowVars
<1> QED BY <1>1, <1>2, <1>3, <1>4, <1>5, <1>6, <1>7, <1>8 DEF Next

\* In the beginning there is no device, and nothing on record.
LEMMA CurrentInit ==
  ASSUME Init
  PROVE  EngineInv /\ CurrentInv
BY DEF Init, EngineInv, Busy, Whose, InHand, OnRecord, CurrentInv, Changed, NoEngine

\* Once nothing waits, an evaluation begun after the last change of its policy
\* was committed says what that policy finds in the device a report changed
\* last, whatever overlapped, was refused or was given again
\* (policy_engine/main.py:19, policies/repository.py:150).
THEOREM EvaluationsCurrent == Spec => []EvaluationCurrent
<1>1. Init => IInv
  BY TypeInit, ScanInvInit, DeviceInvInit, CurrentInit DEF IInv
<1>2. IInv /\ [Next]_vars => IInv'
  BY TypeStep, ScanInvStep, DeviceInvStep, CurrentStep DEF IInv
<1>3. IInv => EvaluationCurrent
  <2> SUFFICES ASSUME IInv, \A i \in Index : Settled(i), NEW m \in Mac, NEW p \in Policy, Changed(m),
                      <<row[m].id, p>> \in DOMAIN result
               PROVE  \/ result[<<row[m].id, p>>].matched = Matches(policy[p].body, row[m].facts)
                      \/ result[<<row[m].id, p>>].at < policy[p].since
    BY DEF EvaluationCurrent, Changed
  <2>1. row[m].by \in Index /\ Current(m)
    BY KnownRow DEF IInv, CurrentInv, Changed
  <2>2. True(m, p)
    BY <2>1 DEF Current, Due
  <2>3. policy[p] # NoRow
    <3>1. <<row[m].id, p>>[2] = p
      OBVIOUS
    <3> QED BY <3>1 DEF IInv, EngineInv, OnRecord
  <2>4. policy[p].since \in Int /\ result[<<row[m].id, p>>].at \in Int
    BY <2>3 DEF IInv, TypeInv, RowT, ResultT
  <2> QED BY <2>2, <2>4 DEF True
<1> QED BY <1>1, <1>2, <1>3, PTL DEF Spec
=============================================================================
