--------------------------- MODULE KafkaBusProofs ---------------------------
(***************************************************************************)
(* The bus over Kafka for every number of topics, partitions and handlers, *)
(* every length of the partitions and any number of restarts and of        *)
(* rebalances of the group: what an offset that was committed stands for,  *)
(* and that nothing a reader is past is handled again.                     *)
(***************************************************************************)
EXTENDS KafkaBus, SequenceTheorems, TLAPS

(* What the goroutine of topic t has in hand is an event of a partition of *)
(* t; those before it were tried, and if one of its handlers failed, that  *)
(* is recorded.                                                            *)
HandOK(t) ==
    /\ loops[t] # {}
    /\ inHand[t] \in InHand
    /\ TopicOf[inHand[t].partition] = t
    /\ Offset(t) \in 1..Len(log[inHand[t].partition])
    /\ log[inHand[t].partition][Offset(t)] = "event"
    /\ \A i \in 1..(Offset(t) - 1) : Tried(inHand[t].partition, i)
    /\ ~inHand[t].ok => Slot(t) \in failed

HandsOK == \A t \in Topics : Busy(t) => HandOK(t)

(* Whatever a reader has passed was tried, but for what is still in hand.  *)
InTheHandOf(p, i) ==
    \E t \in Topics : Busy(t) /\ inHand[t].partition = p /\ Offset(t) = i

PassedIsTried ==
    \A p \in Partitions : \A i \in 1..position[p] : Tried(p, i) \/ InTheHandOf(p, i)

(* A reader has passed all that is settled, and only events can fail.      *)
PositionsOK ==
    /\ \A p \in Partitions : Len(log[p]) <= MaxLen
    /\ \A s \in settled : s[2] <= position[s[1]]

FailedAreEvents ==
    \A p \in Partitions, i \in Nat \ {0} :
        <<p, i>> \in failed => i <= Len(log[p]) /\ log[p][i] = "event"

(* Goroutines exist between Start and the end of Close.                    *)
LifeOK ==
    /\ life = "booting" => loops = Nobody /\ inHand = Idle
    /\ life = "closed" => loops = Nobody /\ inHand = Idle

IInv ==
    /\ KafkaTypeOK
    /\ HandsOK
    /\ PassedIsTried
    /\ PositionsOK
    /\ FailedAreEvents
    /\ LifeOK
    /\ CommitsFollowHandling

(* The bounds are numbers, and no message in hand is none.                 *)
LEMMA Bounds == MaxLen \in Nat /\ MaxCrashes \in Nat /\ MaxRebalances \in Nat
  BY KafkaAssumption

LEMMA NoneIsNoMessage == None \notin InHand
  BY KafkaAssumption DEF InHand

(* The type of the state in the terms of its parts.                        *)
LEMMA Ranges ==
    ASSUME IInv
    PROVE  /\ \A p \in Partitions :
                /\ log[p] \in Seq(Message) /\ Len(log[p]) \in Nat
                /\ committed[p] \in Nat /\ position[p] \in Nat
                /\ committed[p] <= Len(log[p]) /\ position[p] <= Len(log[p])
                /\ Len(log[p]) <= MaxLen
           /\ \A t \in Topics : Busy(t) => inHand[t] \in InHand /\ inHand[t].partition \in Partitions
  <1>1. \A p \in Partitions :
           /\ log[p] \in Seq(Message)
           /\ committed[p] \in Nat /\ position[p] \in Nat
           /\ committed[p] <= Len(log[p]) /\ position[p] <= Len(log[p])
           /\ Len(log[p]) <= MaxLen
    BY DEF IInv, KafkaTypeOK, PositionsOK
  <1>2. \A p \in Partitions : Len(log[p]) \in Nat
    BY <1>1, LenProperties
  <1>3. \A t \in Topics : Busy(t) => inHand[t] \in InHand /\ inHand[t].partition \in Partitions
    BY DEF IInv, HandsOK, HandOK, InHand
  <1>4. QED
    BY <1>1, <1>2, <1>3

LEMMA Hands ==
    ASSUME IInv, NEW t \in Topics, Busy(t)
    PROVE  /\ inHand[t] \in InHand /\ inHand[t].partition \in Partitions
           /\ TopicOf[inHand[t].partition] = t
           /\ Offset(t) \in Nat \ {0} /\ Offset(t) <= Len(log[inHand[t].partition])
           /\ log[inHand[t].partition][Offset(t)] = "event"
           /\ Slot(t) = <<inHand[t].partition, Offset(t)>> /\ Slot(t) \in Slots
  <1>1. /\ inHand[t] \in InHand /\ TopicOf[inHand[t].partition] = t
        /\ Offset(t) \in 1..Len(log[inHand[t].partition])
        /\ log[inHand[t].partition][Offset(t)] = "event"
    BY DEF IInv, HandsOK, HandOK
  <1>2. inHand[t].partition \in Partitions
    BY <1>1 DEF InHand
  <1>3. /\ Len(log[inHand[t].partition]) \in Nat
        /\ Len(log[inHand[t].partition]) <= MaxLen
    BY <1>2, Ranges
  <1>4. Offset(t) \in Nat \ {0} /\ Offset(t) <= Len(log[inHand[t].partition]) /\ Offset(t) \in 1..MaxLen
    BY <1>1, <1>3, Bounds
  <1>5. Slot(t) = <<inHand[t].partition, Offset(t)>>
    BY DEF Slot
  <1>6. QED
    BY <1>1, <1>2, <1>4, <1>5 DEF Slots

LEMMA InitIInv == KafkaInit => IInv
  <1> SUFFICES ASSUME KafkaInit PROVE IInv
    OBVIOUS
  <1>1. \A p \in Partitions : Len(log[p]) = 0 /\ committed[p] = 0 /\ position[p] = 0
    <2>1. Len(<<>>) = 0
      BY EmptySeq
    <2>2. QED
      BY <2>1 DEF KafkaInit
  <1>2. \A t \in Topics : ~Busy(t)
    BY DEF Busy, Idle, KafkaInit
  <1>3. KafkaTypeOK
    <2>1. log \in [Partitions -> Seq(Message)]
      BY EmptySeq DEF KafkaInit
    <2>2. committed \in [Partitions -> Nat] /\ position \in [Partitions -> Nat]
      BY DEF KafkaInit
    <2>3. /\ subs \in [Topics -> SUBSET Handlers] /\ loops \in [Topics -> SUBSET Handlers]
          /\ inHand \in [Topics -> InHand \cup {None}]
      BY DEF KafkaInit, Idle, Nobody
    <2>4. \A p \in Partitions : committed[p] <= Len(log[p]) /\ position[p] <= Len(log[p])
      BY <1>1
    <2>5. life \in {"booting", "running", "closing", "closed"} /\ order \in {"start first", "subscribe first"}
      BY KafkaAssumption DEF KafkaInit
    <2>6. complete \subseteq Slots /\ failed \subseteq Slots /\ settled \subseteq Slots
      BY DEF KafkaInit
    <2>7. crashes \in 0..MaxCrashes /\ rebalances \in 0..MaxRebalances
      BY Bounds DEF KafkaInit
    <2>8. \A t \in Topics : inHand[t] = None
      BY DEF KafkaInit, Idle
    <2>9. QED
      BY <2>1, <2>2, <2>3, <2>4, <2>5, <2>6, <2>7, <2>8 DEF KafkaTypeOK
  <1>4. HandsOK /\ LifeOK /\ FailedAreEvents
    BY <1>2 DEF HandsOK, HandOK, LifeOK, FailedAreEvents, KafkaInit
  <1>5. PassedIsTried /\ CommitsFollowHandling
    BY <1>1 DEF PassedIsTried, CommitsFollowHandling
  <1>6. PositionsOK
    BY <1>1, Bounds DEF PositionsOK, KafkaInit
  <1>7. QED
    BY <1>3, <1>4, <1>5, <1>6 DEF IInv

(* A step that only lets partitions grow.                                  *)
LEMMA LogGrows ==
    ASSUME IInv, log' \in [Partitions -> Seq(Message)],
           \A p \in Partitions :
               /\ Len(log'[p]) >= Len(log[p]) /\ Len(log'[p]) <= MaxLen
               /\ \A i \in 1..Len(log[p]) : log'[p][i] = log[p][i],
           UNCHANGED <<committed, life, order, consumer, history, counts>>
    PROVE  IInv'
  <1> USE DEF consumer, reading, history, counts
  <1>1. \A p \in Partitions, i \in Nat \ {0} : i <= Len(log[p]) => i <= Len(log'[p]) /\ log'[p][i] = log[p][i]
    BY Ranges
  <1>2. \A t \in Topics : Busy(t)' = Busy(t) /\ Offset(t)' = Offset(t) /\ Slot(t)' = Slot(t)
    BY DEF Busy, Offset, Slot
  <1>3. KafkaTypeOK'
    <2>1. \A p \in Partitions : /\ Len(log'[p]) \in Nat
                               /\ committed[p] <= Len(log'[p]) /\ position[p] <= Len(log'[p])
      <3> SUFFICES ASSUME NEW p \in Partitions
                   PROVE  /\ Len(log'[p]) \in Nat
                          /\ committed[p] <= Len(log'[p]) /\ position[p] <= Len(log'[p])
        OBVIOUS
      <3>1. Len(log'[p]) \in Nat
        BY LenProperties
      <3>2. QED
        BY <3>1, Ranges
    <2>2. ASSUME NEW t \in Topics, inHand[t] # None
          PROVE  inHand[t].offset \in 1..Len(log'[inHand[t].partition])
      <3>1. /\ inHand[t].partition \in Partitions
            /\ Offset(t) \in Nat \ {0} /\ Offset(t) <= Len(log[inHand[t].partition])
        BY <2>2, Hands DEF Busy
      <3>2. Len(log'[inHand[t].partition]) \in Nat /\ Len(log[inHand[t].partition]) \in Nat
        BY <2>1, <3>1, Ranges
      <3>3. QED
        BY <3>1, <3>2 DEF Offset
    <2>3. QED
      BY <2>1, <2>2 DEF IInv, KafkaTypeOK
  <1>4. HandsOK'
    <2> SUFFICES ASSUME NEW t \in Topics, Busy(t)
                 PROVE  /\ Offset(t) \in 1..Len(log'[inHand[t].partition])
                        /\ log'[inHand[t].partition][Offset(t)] = "event"
                        /\ \A i \in 1..(Offset(t) - 1) : Tried(inHand[t].partition, i)'
      BY <1>2 DEF IInv, HandsOK, HandOK
    <2>1. inHand[t].partition \in Partitions /\ Offset(t) \in Nat \ {0}
      BY Hands
    <2>2. Offset(t) \in 1..Len(log'[inHand[t].partition])
      BY <1>3 DEF KafkaTypeOK, Busy, Offset
    <2>3. log'[inHand[t].partition][Offset(t)] = "event"
      BY <1>1, <2>1, Hands
    <2>4. ASSUME NEW i \in 1..(Offset(t) - 1)
          PROVE  Tried(inHand[t].partition, i)'
      <3>1. i \in Nat \ {0}
        BY <2>1
      <3>2. Tried(inHand[t].partition, i)
        BY DEF IInv, HandsOK, HandOK
      <3>3. QED
        BY <1>1, <2>1, <3>1, <3>2 DEF Tried, Unreadable
    <2>5. QED
      BY <2>2, <2>3, <2>4
  <1>5. \A p \in Partitions, i \in Nat \ {0} : Tried(p, i) => Tried(p, i)'
    BY <1>1 DEF Tried, Unreadable
  <1>6. PassedIsTried'
    <2> SUFFICES ASSUME NEW p \in Partitions, NEW i \in 1..position[p]
                 PROVE  Tried(p, i)' \/ InTheHandOf(p, i)'
      BY DEF PassedIsTried
    <2>1. i \in Nat \ {0}
      BY Ranges
    <2>2. InTheHandOf(p, i) => InTheHandOf(p, i)'
      BY <1>2 DEF InTheHandOf
    <2>3. QED
      BY <1>5, <2>1, <2>2 DEF IInv, PassedIsTried
  <1>7. PositionsOK' /\ LifeOK'
    BY DEF IInv, PositionsOK, LifeOK
  <1>8. FailedAreEvents'
    BY <1>1 DEF IInv, FailedAreEvents
  <1>9. CommitsFollowHandling'
    <2> SUFFICES ASSUME NEW p \in Partitions, NEW i \in 1..committed[p]
                 PROVE  Tried(p, i)' /\ (i = committed[p] => <<p, i>> \notin failed \ complete)
      BY DEF CommitsFollowHandling
    <2>1. i \in Nat \ {0}
      BY Ranges
    <2>2. QED
      BY <1>5, <2>1 DEF IInv, CommitsFollowHandling
  <1>10. QED
    BY <1>3, <1>4, <1>6, <1>7, <1>8, <1>9 DEF IInv

LEMMA PublishStep ==
    ASSUME IInv, NEW p \in Partitions, NEW copies \in 1..2, Publish(p, copies)
    PROVE  IInv'
  <1> DEFINE new == [i \in 1..copies |-> "event"]
  <1>1. log[p] \in Seq(Message) /\ new \in Seq(Message) /\ Len(new) = copies
    BY Ranges DEF Message
  <1>2. /\ log[p] \o new \in Seq(Message)
        /\ Len(log[p] \o new) = Len(log[p]) + copies
        /\ \A i \in 1..Len(log[p]) : (log[p] \o new)[i] = log[p][i]
    BY <1>1, Ranges, ConcatProperties
  <1>3. log' = [log EXCEPT ![p] = log[p] \o new]
    BY DEF Publish
  <1>4. log \in [Partitions -> Seq(Message)]
    BY DEF IInv, KafkaTypeOK
  <1>5. log' \in [Partitions -> Seq(Message)]
    BY <1>2, <1>3, <1>4
  <1>6. \A q \in Partitions :
           /\ Len(log'[q]) >= Len(log[q]) /\ Len(log'[q]) <= MaxLen
           /\ \A i \in 1..Len(log[q]) : log'[q][i] = log[q][i]
    <2>1. Len(log[p]) + copies <= MaxLen
      BY DEF Publish
    <2>2. \A q \in Partitions : log'[q] = IF q = p THEN log[p] \o new ELSE log[q]
      BY <1>3, <1>4
    <2>3. ASSUME NEW q \in Partitions, q # p
          PROVE  log'[q] = log[q] /\ Len(log[q]) \in Nat /\ Len(log[q]) <= MaxLen
      BY <2>2, <2>3, Ranges
    <2>4. Len(log[p]) \in Nat
      BY Ranges
    <2>5. /\ Len(log'[p]) = Len(log[p]) + copies
          /\ \A i \in 1..Len(log[p]) : log'[p][i] = log[p][i]
      BY <1>2, <2>2
    <2>6. Len(log'[p]) >= Len(log[p]) /\ Len(log'[p]) <= MaxLen
      BY <2>1, <2>4, <2>5
    <2>7. QED
      BY <2>3, <2>5, <2>6
  <1>7. QED
    BY <1>5, <1>6, LogGrows DEF Publish

LEMMA PublishMalformedStep ==
    ASSUME IInv, NEW p \in Partitions, PublishMalformed(p)
    PROVE  IInv'
  <1>1. log \in [Partitions -> Seq(Message)] /\ log[p] \in Seq(Message) /\ "malformed" \in Message
    BY DEF IInv, KafkaTypeOK, Message
  <1>2. /\ Append(log[p], "malformed") \in Seq(Message)
        /\ Len(Append(log[p], "malformed")) = Len(log[p]) + 1
        /\ \A i \in 1..Len(log[p]) : Append(log[p], "malformed")[i] = log[p][i]
    BY <1>1
  <1>3. log' = [log EXCEPT ![p] = Append(log[p], "malformed")]
    BY DEF PublishMalformed
  <1>4. log' \in [Partitions -> Seq(Message)]
    BY <1>1, <1>2, <1>3
  <1>5. \A q \in Partitions :
           /\ Len(log'[q]) >= Len(log[q]) /\ Len(log'[q]) <= MaxLen
           /\ \A i \in 1..Len(log[q]) : log'[q][i] = log[q][i]
    <2>1. Len(log[p]) < MaxLen /\ MaxLen \in Nat
      BY Bounds DEF PublishMalformed
    <2>2. \A q \in Partitions : log'[q] = IF q = p THEN Append(log[p], "malformed") ELSE log[q]
      BY <1>1, <1>3
    <2>3. ASSUME NEW q \in Partitions, q # p
          PROVE  log'[q] = log[q] /\ Len(log[q]) \in Nat /\ Len(log[q]) <= MaxLen
      BY <2>2, <2>3, Ranges
    <2>4. Len(log[p]) \in Nat
      BY Ranges
    <2>5. /\ Len(log'[p]) = Len(log[p]) + 1
          /\ \A i \in 1..Len(log[p]) : log'[p][i] = log[p][i]
      BY <1>2, <2>2
    <2>6. Len(log'[p]) >= Len(log[p]) /\ Len(log'[p]) <= MaxLen
      BY <2>1, <2>4, <2>5
    <2>7. QED
      BY <2>3, <2>5, <2>6
  <1>6. QED
    BY <1>4, <1>5, LogGrows DEF PublishMalformed

(* A step that changes nothing the invariant reads but the state of the    *)
(* process and the lists of handlers.                                      *)
LEMMA SameHands ==
    ASSUME IInv, KafkaTypeOK', LifeOK',
           UNCHANGED <<broker, reading, inHand, history>>,
           \A t \in Topics : Busy(t) => loops'[t] # {}
    PROVE  IInv'
  <1> USE DEF broker, reading, history
  <1>1. \A t \in Topics : Busy(t)' = Busy(t) /\ Offset(t)' = Offset(t) /\ Slot(t)' = Slot(t)
    BY DEF Busy, Offset, Slot
  <1>2. HandsOK'
    BY <1>1 DEF IInv, HandsOK, HandOK, Tried, Unreadable
  <1>3. PassedIsTried'
    <2>1. \A p \in Partitions, i \in Nat : InTheHandOf(p, i)' = InTheHandOf(p, i)
      BY <1>1 DEF InTheHandOf
    <2>2. \A p \in Partitions : position[p] \in Nat
      BY Ranges
    <2>3. \A p \in Partitions : \A i \in 1..position[p] : i \in Nat
      BY <2>2
    <2>4. QED
      BY <2>1, <2>3 DEF IInv, PassedIsTried, Tried, Unreadable
  <1>4. PositionsOK' /\ FailedAreEvents'
    BY DEF IInv, PositionsOK, FailedAreEvents
  <1>5. CommitsFollowHandling'
    BY DEF IInv, CommitsFollowHandling, Tried, Unreadable
  <1>6. QED
    BY <1>2, <1>3, <1>4, <1>5 DEF IInv

LEMMA SubscribeStep ==
    ASSUME IInv, NEW t \in Topics, NEW h \in Handlers, Subscribe(t, h)
    PROVE  IInv'
  <1> USE DEF Subscribe, broker, reading, history, counts
  <1>1. KafkaTypeOK'
    BY DEF IInv, KafkaTypeOK
  <1>2. LifeOK'
    BY DEF IInv, LifeOK
  <1>3. QED
    BY <1>1, <1>2, SameHands DEF IInv, HandsOK, HandOK

LEMMA LoopEndsStep ==
    ASSUME IInv, NEW t \in Topics, LoopEnds(t)
    PROVE  IInv'
  <1> USE DEF LoopEnds, broker, reading, history, counts
  <1>1. KafkaTypeOK'
    BY DEF IInv, KafkaTypeOK
  <1>2. LifeOK'
    BY DEF IInv, LifeOK
  <1>3. \A u \in Topics : Busy(u) => loops'[u] # {}
    BY DEF IInv, HandsOK, HandOK, KafkaTypeOK, Waiting
  <1>4. QED
    BY <1>1, <1>2, <1>3, SameHands

LEMMA StopStep ==
    ASSUME IInv, Cancel \/ CloseBus
    PROVE  IInv'
  <1> USE DEF Cancel, CloseBus, broker, consumer, reading, history, counts
  <1>1. KafkaTypeOK'
    BY DEF IInv, KafkaTypeOK
  <1>2. loops = Nobody => inHand = Idle
    <2> SUFFICES ASSUME loops = Nobody PROVE inHand = Idle
      OBVIOUS
    <2>1. \A t \in Topics : inHand[t] = None
      BY DEF IInv, HandsOK, HandOK, Busy, Nobody
    <2>2. inHand \in [Topics -> InHand \cup {None}]
      BY DEF IInv, KafkaTypeOK
    <2>3. QED
      BY <2>1, <2>2 DEF Idle
  <1>3. LifeOK'
    BY <1>2 DEF IInv, LifeOK
  <1>4. QED
    BY <1>1, <1>3, SameHands DEF IInv, HandsOK, HandOK

(* What the group has committed was tried, so a reader may begin there.    *)
LEMMA CommittedIsTried ==
    ASSUME IInv, NEW p \in Partitions, NEW i \in 1..committed[p]
    PROVE  Tried(p, i)
  BY DEF IInv, CommitsFollowHandling

(* The readers begin behind the committed offsets, nothing is in hand.     *)
LEMMA FromCommitted ==
    ASSUME IInv, UNCHANGED <<broker, history>>,
           position' = committed, inHand' = Idle, settled' \subseteq Passed,
           KafkaTypeOK', LifeOK'
    PROVE  IInv'
  <1> USE DEF broker, history
  <1>1. \A t \in Topics : ~Busy(t)'
    BY DEF Busy, Idle
  <1>2. HandsOK'
    BY <1>1 DEF HandsOK, HandOK
  <1>3. PassedIsTried' /\ CommitsFollowHandling'
    BY CommittedIsTried DEF IInv, PassedIsTried, CommitsFollowHandling, Tried, Unreadable
  <1>4. FailedAreEvents'
    BY DEF IInv, FailedAreEvents
  <1>5. PositionsOK'
    BY DEF IInv, PositionsOK, Passed
  <1>6. QED
    BY <1>2, <1>3, <1>4, <1>5 DEF IInv

LEMMA StartBusStep ==
    ASSUME IInv, StartBus
    PROVE  IInv'
  <1> USE DEF StartBus, broker, history, counts
  <1>1. KafkaTypeOK'
    BY DEF IInv, KafkaTypeOK, Passed
  <1>2. inHand' = Idle /\ LifeOK'
    BY DEF IInv, LifeOK
  <1>3. QED
    BY <1>1, <1>2, FromCommitted

LEMMA RestartStep ==
    ASSUME IInv, Restart
    PROVE  IInv'
  <1> USE DEF Restart, broker, history
  <1>1. crashes' \in 0..MaxCrashes
    <2>1. crashes \in 0..MaxCrashes
      BY DEF IInv, KafkaTypeOK
    <2>2. crashes' = crashes + 1 /\ crashes < MaxCrashes
      OBVIOUS
    <2>3. QED
      BY <2>1, <2>2, Bounds
  <1>2. KafkaTypeOK'
    <2>1. subs' \in [Topics -> SUBSET Handlers] /\ loops' \in [Topics -> SUBSET Handlers]
      BY DEF Nobody
    <2>2. inHand' \in [Topics -> InHand \cup {None}]
      BY DEF Idle
    <2>3. \A t \in Topics : inHand'[t] = None
      BY DEF Idle
    <2>4. QED
      BY <1>1, <2>1, <2>2, <2>3 DEF IInv, KafkaTypeOK
  <1>3. LifeOK'
    BY DEF LifeOK
  <1>4. QED
    BY <1>2, <1>3, FromCommitted

(* A step of the goroutine of t leaves what the others have in hand alone. *)
LEMMA OthersKeepTheirs ==
    ASSUME NEW t \in Topics, \A u \in Topics \ {t} : inHand'[u] = inHand[u]
    PROVE  \A u \in Topics \ {t} : Busy(u)' = Busy(u) /\ Offset(u)' = Offset(u) /\ Slot(u)' = Slot(u)
  BY DEF Busy, Offset, Slot

(* With its goroutine idle, all that the reader of a partition is past was *)
(* tried: no other goroutine has messages of that partition.               *)
LEMMA PassedByIdle ==
    ASSUME IInv, NEW t \in Topics, ~Busy(t), NEW p \in Partitions, TopicOf[p] = t,
           NEW i \in 1..position[p]
    PROVE  Tried(p, i)
  <1>1. ~InTheHandOf(p, i)
    BY DEF InTheHandOf, IInv, HandsOK, HandOK
  <1>2. QED
    BY <1>1 DEF IInv, PassedIsTried

LEMMA SettledIsPassed ==
    ASSUME IInv, NEW s \in settled
    PROVE  s[1] \in Partitions /\ s[2] \in Nat /\ position[s[1]] \in Nat /\ s[2] <= position[s[1]]
  <1>1. s \in Partitions \X (1..MaxLen)
    BY DEF IInv, KafkaTypeOK, Slots
  <1>2. s[1] \in Partitions /\ s[2] \in Nat
    BY <1>1, Bounds
  <1>3. s[2] <= position[s[1]]
    BY DEF IInv, PositionsOK
  <1>4. QED
    BY <1>2, <1>3, Ranges

LEMMA FetchStep ==
    ASSUME IInv, NEW t \in Topics, NEW p \in Partitions, Fetch(t, p)
    PROVE  IInv'
  <1> DEFINE n   == position[p] + 1
             got == [partition |-> p, offset |-> n, left |-> loops[t], ok |-> TRUE]
  <1>1. /\ Waiting(t) /\ ~Busy(t) /\ loops[t] # {} /\ TopicOf[p] = t
        /\ position[p] < Len(log[p]) /\ log[p][n] = "event"
        /\ position' = [position EXCEPT ![p] = n]
        /\ settled' = settled \cup {<<p, n>>}
        /\ inHand' = [inHand EXCEPT ![t] = got]
        /\ UNCHANGED <<log, committed, life, order, subs, loops, complete, failed, crashes, rebalances>>
    BY DEF Fetch, GiveOut, Waiting, broker, history, counts
  <1>2. /\ log \in [Partitions -> Seq(Message)] /\ position \in [Partitions -> Nat]
        /\ inHand \in [Topics -> InHand \cup {None}] /\ loops[t] \in SUBSET Handlers
    BY DEF IInv, KafkaTypeOK
  <1>3. /\ position[p] \in Nat /\ Len(log[p]) \in Nat
        /\ n \in Nat \ {0} /\ n \in 1..Len(log[p]) /\ <<p, n>> \in Slots
    <2>1. position[p] \in Nat /\ Len(log[p]) \in Nat /\ Len(log[p]) <= MaxLen
      BY Ranges
    <2>2. n \in Nat \ {0} /\ n \in 1..Len(log[p]) /\ n \in 1..MaxLen
      BY <1>1, <2>1, Bounds
    <2>3. QED
      BY <2>1, <2>2 DEF Slots
  <1>4. got \in InHand /\ got # None /\ got.partition = p /\ got.offset = n /\ got.ok
    <2>1. got \in InHand
      BY <1>2, <1>3 DEF InHand
    <2>2. QED
      BY <2>1, NoneIsNoMessage
  <1>5. /\ inHand'[t] = got /\ \A u \in Topics \ {t} : inHand'[u] = inHand[u]
        /\ position'[p] = n /\ \A q \in Partitions \ {p} : position'[q] = position[q]
    BY <1>1, <1>2
  <1>6. Busy(t)' /\ Offset(t)' = n /\ Slot(t)' = <<p, n>>
    BY <1>4, <1>5 DEF Busy, Offset, Slot
  <1>7. \A u \in Topics \ {t} : Busy(u)' = Busy(u) /\ Offset(u)' = Offset(u) /\ Slot(u)' = Slot(u)
    BY <1>5, OthersKeepTheirs
  <1>8. \A q \in Partitions, i \in Nat : Tried(q, i)' = Tried(q, i)
    BY <1>1 DEF Tried, Unreadable
  <1>9. KafkaTypeOK'
    <2>1. position' \in [Partitions -> Nat] /\ inHand' \in [Topics -> InHand \cup {None}]
      BY <1>1, <1>2, <1>3, <1>4
    <2>2. \A q \in Partitions : committed[q] <= Len(log[q]) /\ position'[q] <= Len(log[q])
      BY <1>3, <1>5, Ranges
    <2>3. settled' \subseteq Slots
      BY <1>1, <1>3 DEF IInv, KafkaTypeOK
    <2>4. ASSUME NEW u \in Topics, inHand'[u] # None
          PROVE  inHand'[u].offset \in 1..Len(log[inHand'[u].partition])
      <3>1. CASE u = t
        BY <1>3, <1>4, <1>5, <3>1
      <3>2. CASE u # t
        BY <1>5, <2>4, <3>2 DEF IInv, KafkaTypeOK
      <3>3. QED
        BY <3>1, <3>2
    <2>5. QED
      BY <1>1, <2>1, <2>2, <2>3, <2>4 DEF IInv, KafkaTypeOK
  <1>10. HandsOK'
    <2> SUFFICES ASSUME NEW u \in Topics, Busy(u)'
                 PROVE  HandOK(u)'
      BY DEF HandsOK
    <2>1. CASE u = t
      <3>1. ASSUME NEW i \in 1..(n - 1)
            PROVE  Tried(p, i)'
        <4>1. i \in 1..position[p] /\ i \in Nat
          BY <1>3
        <4>2. QED
          BY <1>1, <1>8, <4>1, PassedByIdle
      <3>2. QED
        <4>1. (\A i \in 1..(Offset(t) - 1) : Tried(inHand[t].partition, i))'
          BY <1>4, <1>5, <1>6, <3>1 DEF Tried, Unreadable
        <4>2. QED
          BY <1>1, <1>3, <1>4, <1>5, <1>6, <2>1, <4>1 DEF HandOK
    <2>2. CASE u # t
      <3>1. Busy(u) /\ Offset(u)' = Offset(u) /\ Slot(u)' = Slot(u) /\ inHand'[u] = inHand[u]
        BY <1>5, <1>7, <2>2
      <3>2. HandOK(u)
        BY <3>1 DEF IInv, HandsOK
      <3>3. (\A i \in 1..(Offset(u) - 1) : Tried(inHand[u].partition, i))'
        BY <1>1, <3>1, <3>2 DEF HandOK, Tried, Unreadable
      <3>4. QED
        BY <1>1, <3>1, <3>2, <3>3 DEF HandOK
    <2>3. QED
      BY <2>1, <2>2
  <1>11. PassedIsTried'
    <2> SUFFICES ASSUME NEW q \in Partitions, NEW i \in 1..position'[q]
                 PROVE  Tried(q, i)' \/ InTheHandOf(q, i)'
      BY DEF PassedIsTried
    <2>1. CASE q = p /\ i = n
      BY <1>4, <1>5, <1>6, <2>1 DEF InTheHandOf
    <2>2. CASE ~(q = p /\ i = n)
      <3>1. position[q] \in Nat /\ i \in Nat /\ i \in 1..position[q]
        BY <1>3, <1>5, <2>2, Ranges
      <3>2. Tried(q, i) \/ InTheHandOf(q, i)
        BY <3>1 DEF IInv, PassedIsTried
      <3>3. InTheHandOf(q, i) => InTheHandOf(q, i)'
        BY <1>1, <1>5, <1>7 DEF InTheHandOf
      <3>4. QED
        BY <1>8, <3>1, <3>2, <3>3
    <2>3. QED
      BY <2>1, <2>2
  <1>12. PositionsOK'
    <2> SUFFICES ASSUME NEW s \in settled'
                 PROVE  s[2] <= position'[s[1]]
      BY <1>1 DEF IInv, PositionsOK
    <2>1. CASE s = <<p, n>>
      BY <1>3, <1>5, <2>1
    <2>2. CASE s \in settled
      <3>1. s[1] \in Partitions /\ s[2] \in Nat /\ s[2] <= position[s[1]] /\ position[s[1]] \in Nat
        BY <2>2, SettledIsPassed
      <3>2. QED
        BY <1>3, <1>5, <3>1
    <2>3. QED
      BY <1>1, <2>1, <2>2
  <1>13. FailedAreEvents' /\ LifeOK' /\ CommitsFollowHandling'
    BY <1>1 DEF IInv, FailedAreEvents, LifeOK, Waiting, CommitsFollowHandling, Tried, Unreadable
  <1>14. QED
    BY <1>9, <1>10, <1>11, <1>12, <1>13 DEF IInv

(* The offset of one message is committed, or that fails.                  *)
LEMMA CommitPosition ==
    ASSUME IInv, NEW p \in Partitions, NEW n \in Nat, MayCommit(p, n)
    PROVE  /\ committed' \in [Partitions -> Nat]
           /\ \A q \in Partitions \ {p} : committed'[q] = committed[q]
           /\ committed'[p] \in {committed[p], n}
  BY DEF MayCommit, IInv, KafkaTypeOK

(* What the group's offset means is kept by a commit of a message that was *)
(* tried, as were those before it, and that no handler refused for good.   *)
LEMMA CommitKeeps ==
    ASSUME IInv, NEW p \in Partitions, NEW n \in Nat,
           committed' = committed \/ MayCommit(p, n),
           committed' # committed =>
               /\ n <= Len(log[p])
               /\ \A i \in 1..n : Tried(p, i)'
               /\ <<p, n>> \notin failed' \ complete',
           complete \subseteq complete', failed' = failed, log' = log
    PROVE  /\ committed' \in [Partitions -> Nat]
           /\ \A q \in Partitions : committed'[q] <= Len(log[q])
           /\ CommitsFollowHandling'
  <1>1. CASE committed' = committed
    <2>1. committed' \in [Partitions -> Nat] /\ \A q \in Partitions : committed'[q] <= Len(log[q])
      BY <1>1 DEF IInv, KafkaTypeOK
    <2>2. CommitsFollowHandling'
      BY <1>1 DEF IInv, CommitsFollowHandling, Tried, Unreadable
    <2>3. QED
      BY <2>1, <2>2
  <1>2. CASE committed' # committed
    <2>1. /\ committed' \in [Partitions -> Nat]
          /\ \A q \in Partitions \ {p} : committed'[q] = committed[q]
          /\ committed'[p] \in {committed[p], n}
      BY <1>2, CommitPosition
    <2>2. \A q \in Partitions : committed'[q] <= Len(log[q])
      BY <1>2, <2>1, Ranges
    <2>3. CommitsFollowHandling'
      <3> SUFFICES ASSUME NEW q \in Partitions, NEW i \in 1..committed'[q]
                   PROVE  Tried(q, i)' /\ (i = committed'[q] => <<q, i>> \notin failed' \ complete')
        BY DEF CommitsFollowHandling
      <3>1. CASE committed'[q] = committed[q]
        BY <3>1 DEF IInv, CommitsFollowHandling, Tried, Unreadable
      <3>2. CASE q = p /\ committed'[q] = n
        BY <1>2, <3>2
      <3>3. QED
        BY <2>1, <3>1, <3>2
    <2>4. QED
      BY <2>1, <2>2, <2>3
  <1>3. QED
    BY <1>1, <1>2

LEMMA FetchMalformedStep ==
    ASSUME IInv, NEW t \in Topics, NEW p \in Partitions, FetchMalformed(t, p)
    PROVE  IInv'
  <1> DEFINE n == position[p] + 1
  <1>1. /\ Waiting(t) /\ ~Busy(t) /\ loops[t] # {} /\ TopicOf[p] = t
        /\ position[p] < Len(log[p]) /\ log[p][n] = "malformed"
        /\ position' = [position EXCEPT ![p] = n]
        /\ settled' = settled \cup {<<p, n>>}
        /\ MayCommit(p, n)
        /\ UNCHANGED <<log, life, order, subs, loops, inHand, complete, failed, crashes, rebalances>>
    BY DEF FetchMalformed, Waiting, history, counts, IInv, KafkaTypeOK
  <1>2. /\ position[p] \in Nat /\ Len(log[p]) \in Nat /\ position \in [Partitions -> Nat]
        /\ n \in Nat \ {0} /\ n <= Len(log[p]) /\ <<p, n>> \in Slots
    <2>1. position[p] \in Nat /\ Len(log[p]) \in Nat /\ Len(log[p]) <= MaxLen
      BY Ranges
    <2>2. n \in Nat \ {0} /\ n <= Len(log[p]) /\ n \in 1..MaxLen
      BY <1>1, <2>1, Bounds
    <2>3. QED
      BY <2>1, <2>2 DEF Slots, IInv, KafkaTypeOK
  <1>3. /\ position'[p] = n /\ \A q \in Partitions \ {p} : position'[q] = position[q]
        /\ position' \in [Partitions -> Nat]
    BY <1>1, <1>2
  <1>4. \A u \in Topics : Busy(u)' = Busy(u) /\ Offset(u)' = Offset(u) /\ Slot(u)' = Slot(u)
    BY <1>1 DEF Busy, Offset, Slot
  <1>5. \A q \in Partitions, i \in Nat : Tried(q, i)' = Tried(q, i)
    BY <1>1 DEF Tried, Unreadable
  <1>6. (\A i \in 1..n : Tried(p, i)) /\ <<p, n>> \notin failed
    <2>1. Tried(p, n)
      BY <1>1, <1>2 DEF Tried, Unreadable
    <2>2. \A i \in 1..n : i = n \/ i \in 1..position[p]
      BY <1>2
    <2>3. \A i \in 1..position[p] : Tried(p, i)
      BY <1>1, PassedByIdle
    <2>4. <<p, n>> \notin failed
      BY <1>1, <1>2 DEF IInv, FailedAreEvents
    <2>5. QED
      BY <2>1, <2>2, <2>3, <2>4
  <1>7. /\ committed' \in [Partitions -> Nat]
        /\ \A q \in Partitions : committed'[q] <= Len(log[q])
        /\ CommitsFollowHandling'
    <2>1. \A i \in 1..n : Tried(p, i)'
      BY <1>2, <1>5, <1>6
    <2>2. <<p, n>> \notin failed' \ complete'
      BY <1>1, <1>6
    <2>3. QED
      BY <1>1, <1>2, <2>1, <2>2, CommitKeeps
  <1>8. KafkaTypeOK'
    <2>1. \A q \in Partitions : committed'[q] <= Len(log[q]) /\ position'[q] <= Len(log[q])
      BY <1>2, <1>3, <1>7, Ranges
    <2>2. settled' \subseteq Slots
      BY <1>1, <1>2 DEF IInv, KafkaTypeOK
    <2>3. QED
      BY <1>1, <1>3, <1>7, <2>1, <2>2 DEF IInv, KafkaTypeOK
  <1>9. HandsOK'
    BY <1>1, <1>4 DEF IInv, HandsOK, HandOK, Tried, Unreadable
  <1>10. PassedIsTried'
    <2> SUFFICES ASSUME NEW q \in Partitions, NEW i \in 1..position'[q]
                 PROVE  Tried(q, i)' \/ InTheHandOf(q, i)'
      BY DEF PassedIsTried
    <2>1. CASE q = p
      <3>1. i \in 1..n /\ i \in Nat
        BY <1>2, <1>3, <2>1
      <3>2. QED
        BY <1>5, <1>6, <2>1, <3>1
    <2>2. CASE q # p
      <3>1. i \in 1..position[q] /\ i \in Nat
        BY <1>3, <2>2, Ranges
      <3>2. InTheHandOf(q, i) => InTheHandOf(q, i)'
        BY <1>1, <1>4 DEF InTheHandOf
      <3>3. QED
        BY <1>5, <3>1, <3>2 DEF IInv, PassedIsTried
    <2>3. QED
      BY <2>1, <2>2
  <1>11. PositionsOK'
    <2> SUFFICES ASSUME NEW s \in settled'
                 PROVE  s[2] <= position'[s[1]]
      BY <1>1 DEF IInv, PositionsOK
    <2>1. CASE s = <<p, n>>
      BY <1>2, <1>3, <2>1
    <2>2. CASE s \in settled
      <3>1. s[1] \in Partitions /\ s[2] \in Nat /\ s[2] <= position[s[1]] /\ position[s[1]] \in Nat
        BY <2>2, SettledIsPassed
      <3>2. QED
        BY <1>2, <1>3, <3>1
    <2>3. QED
      BY <1>1, <2>1, <2>2
  <1>12. FailedAreEvents' /\ LifeOK'
    BY <1>1 DEF IInv, FailedAreEvents, LifeOK, Waiting
  <1>13. QED
    BY <1>7, <1>8, <1>9, <1>10, <1>11, <1>12 DEF IInv

LEMMA RunHandlerStep ==
    ASSUME IInv, NEW t \in Topics, NEW h \in Handlers, NEW ok \in BOOLEAN, RunHandler(t, h, ok)
    PROVE  IInv'
  <1> DEFINE p   == inHand[t].partition
             now == [inHand[t] EXCEPT !.left = @ \ {h}, !.ok = @ /\ ok]
  <1>1. /\ Busy(t)
        /\ inHand' = [inHand EXCEPT ![t] = now]
        /\ failed' = IF ok THEN failed ELSE failed \cup {Slot(t)}
        /\ UNCHANGED <<log, committed, life, order, subs, loops, position, settled, complete, crashes, rebalances>>
    BY DEF RunHandler, broker, reading, counts
  <1>2. inHand \in [Topics -> InHand \cup {None}] /\ inHand[t] \in InHand
    BY <1>1, Ranges DEF IInv, KafkaTypeOK
  <1>3. /\ now \in InHand /\ now.partition = p /\ now.offset = inHand[t].offset
        /\ (now.ok <=> inHand[t].ok /\ ok) /\ now # None
    <2>1. /\ now \in InHand /\ now.partition = p /\ now.offset = inHand[t].offset
          /\ (now.ok <=> inHand[t].ok /\ ok)
      BY <1>2 DEF InHand
    <2>2. QED
      BY <2>1, NoneIsNoMessage
  <1>4. inHand'[t] = now /\ \A u \in Topics \ {t} : inHand'[u] = inHand[u]
    BY <1>1, <1>2
  <1>5. \A u \in Topics :
           /\ Busy(u)' = Busy(u)
           /\ Offset(u)' = Offset(u) /\ Slot(u)' = Slot(u)
           /\ inHand'[u].partition = inHand[u].partition
    <2>1. Busy(t)' /\ Offset(t)' = Offset(t) /\ Slot(t)' = Slot(t) /\ inHand'[t].partition = p
      BY <1>1, <1>3, <1>4 DEF Busy, Offset, Slot
    <2>2. ASSUME NEW u \in Topics, u # t
          PROVE  /\ Busy(u)' = Busy(u)
                 /\ Offset(u)' = Offset(u) /\ Slot(u)' = Slot(u)
                 /\ inHand'[u].partition = inHand[u].partition
      BY <1>1, <1>4, <2>2 DEF Busy, Offset, Slot
    <2>3. Busy(t)' = Busy(t)
      BY <1>1, <2>1
    <2>4. QED
      BY <2>1, <2>2, <2>3
  <1>6. /\ p \in Partitions /\ Offset(t) \in Nat \ {0} /\ Offset(t) <= Len(log[p])
        /\ Slot(t) = <<p, Offset(t)>> /\ Slot(t) \in Slots /\ log[p][Offset(t)] = "event"
    BY <1>1, Hands
  <1>7. failed' \subseteq failed \cup {Slot(t)} /\ failed \subseteq failed'
    BY <1>1
  <1>8. KafkaTypeOK'
    <2>1. failed' \subseteq Slots
      BY <1>6, <1>7 DEF IInv, KafkaTypeOK
    <2>2. inHand' \in [Topics -> InHand \cup {None}]
      BY <1>1, <1>2, <1>3
    <2>3. \A u \in Topics : inHand'[u] # None => inHand'[u].offset \in 1..Len(log[inHand'[u].partition])
      BY <1>5 DEF IInv, KafkaTypeOK, Busy, Offset
    <2>4. QED
      BY <1>1, <2>1, <2>2, <2>3 DEF IInv, KafkaTypeOK
  <1>9. \A q \in Partitions, i \in Nat : Tried(q, i) => Tried(q, i)'
    BY <1>1, <1>7 DEF Tried, Unreadable
  <1>10. HandsOK'
    <2> SUFFICES ASSUME NEW u \in Topics, Busy(u)
                 PROVE  /\ inHand'[u] \in InHand /\ (~inHand'[u].ok => Slot(u) \in failed')
                        /\ (\A i \in 1..(Offset(u) - 1) : Tried(inHand[u].partition, i))'
      BY <1>1, <1>5 DEF IInv, HandsOK, HandOK
    <2>1. inHand'[u] \in InHand /\ (~inHand'[u].ok => Slot(u) \in failed')
      <3>1. CASE u = t
        BY <1>1, <1>3, <1>4, <1>7, <3>1 DEF IInv, HandsOK, HandOK
      <3>2. CASE u # t
        BY <1>4, <1>7, <3>2 DEF IInv, HandsOK, HandOK
      <3>3. QED
        BY <3>1, <3>2
    <2>2. \A i \in 1..(Offset(u) - 1) : Tried(inHand[u].partition, i)
      BY DEF IInv, HandsOK, HandOK
    <2>3. QED
      BY <1>1, <1>5, <1>7, <2>1, <2>2 DEF Tried, Unreadable
  <1>11. PassedIsTried'
    <2> SUFFICES ASSUME NEW q \in Partitions, NEW i \in 1..position[q]
                 PROVE  Tried(q, i)' \/ InTheHandOf(q, i)'
      BY <1>1 DEF PassedIsTried
    <2>1. i \in Nat
      BY Ranges
    <2>2. InTheHandOf(q, i) => InTheHandOf(q, i)'
      BY <1>5 DEF InTheHandOf
    <2>3. QED
      BY <1>9, <2>1, <2>2 DEF IInv, PassedIsTried
  <1>12. PositionsOK'
    BY <1>1 DEF IInv, PositionsOK
  <1>13. LifeOK'
    BY <1>1, <1>2, NoneIsNoMessage DEF IInv, LifeOK, Idle
  <1>14. FailedAreEvents'
    BY <1>1, <1>6, <1>7 DEF IInv, FailedAreEvents
  <1>15. CommitsFollowHandling'
    <2> SUFFICES ASSUME NEW q \in Partitions, NEW i \in 1..committed[q]
                 PROVE  Tried(q, i)' /\ (i = committed[q] => <<q, i>> \notin failed' \ complete)
      BY <1>1 DEF CommitsFollowHandling
    <2>1. i \in Nat
      BY Ranges
    <2>2. Tried(q, i) /\ (i = committed[q] => <<q, i>> \notin failed \ complete)
      BY DEF IInv, CommitsFollowHandling
    <2>3. CASE <<q, i>> # Slot(t)
      BY <1>7, <1>9, <2>1, <2>2, <2>3
    <2>4. CASE <<q, i>> = Slot(t)
      <3>1. ~Unreadable(q, i)
        BY <1>6, <2>4 DEF Unreadable
      <3>2. QED
        BY <1>9, <2>1, <2>2, <3>1 DEF Tried
    <2>5. QED
      BY <2>3, <2>4
  <1>16. QED
    BY <1>8, <1>10, <1>11, <1>12, <1>13, <1>14, <1>15 DEF IInv

(* The goroutine of t puts away a message that is tried, and commits it    *)
(* only when all its handlers were done with it.                           *)
LEMMA PutAway ==
    ASSUME IInv, NEW t \in Topics, Busy(t),
           inHand' = [inHand EXCEPT ![t] = None],
           complete \subseteq complete', complete' \subseteq complete \cup {Slot(t)},
           Slot(t) \in complete' \cup failed,
           committed' = committed \/ (MayCommit(inHand[t].partition, Offset(t)) /\ Slot(t) \in complete'),
           UNCHANGED <<log, life, order, subs, loops, position, settled, failed, crashes, rebalances>>
    PROVE  IInv'
  <1>p. PICK p \in Partitions, n \in Nat \ {0} : p = inHand[t].partition /\ n = Offset(t)
    BY Hands
  <1>1. /\ n <= Len(log[p])
        /\ Slot(t) = <<p, n>> /\ Slot(t) \in Slots
    BY <1>p, Hands
  <1>2. inHand'[t] = None /\ ~Busy(t)' /\ \A u \in Topics \ {t} : inHand'[u] = inHand[u]
    BY DEF IInv, KafkaTypeOK, Busy
  <1>3. \A u \in Topics \ {t} : Busy(u)' = Busy(u) /\ Offset(u)' = Offset(u) /\ Slot(u)' = Slot(u)
    BY <1>2, OthersKeepTheirs
  <1>4. \A q \in Partitions, i \in Nat : Tried(q, i) => Tried(q, i)'
    BY DEF Tried, Unreadable
  <1>5. \A i \in 1..n : Tried(p, i)'
    <2>1. Tried(p, n)'
      BY <1>1 DEF Tried
    <2>2. \A i \in 1..(n - 1) : Tried(p, i)
      BY <1>p DEF IInv, HandsOK, HandOK
    <2>3. \A i \in 1..n : i \in Nat /\ (i = n \/ i \in 1..(n - 1))
      BY <1>1
    <2>4. QED
      BY <1>4, <2>1, <2>2, <2>3
  <1>6. /\ committed' \in [Partitions -> Nat]
        /\ \A q \in Partitions : committed'[q] <= Len(log[q])
        /\ CommitsFollowHandling'
    <2>1. committed' # committed => <<p, n>> \notin failed' \ complete'
      BY <1>1
    <2>2. QED
      BY <1>p, <1>1, <1>5, <2>1, CommitKeeps
  <1>7. KafkaTypeOK'
    <2>1. complete' \subseteq Slots
      BY <1>1 DEF IInv, KafkaTypeOK
    <2>2. inHand' \in [Topics -> InHand \cup {None}]
      BY DEF IInv, KafkaTypeOK
    <2>3. \A u \in Topics : inHand'[u] # None => inHand'[u].offset \in 1..Len(log[inHand'[u].partition])
      BY <1>2 DEF IInv, KafkaTypeOK
    <2>4. QED
      BY <1>6, <2>1, <2>2, <2>3 DEF IInv, KafkaTypeOK
  <1>8. HandsOK'
    <2> SUFFICES ASSUME NEW u \in Topics \ {t}, Busy(u)
                 PROVE  HandOK(u)'
      BY <1>2, <1>3 DEF HandsOK
    <2>1. HandOK(u)
      BY DEF IInv, HandsOK
    <2>2. (\A i \in 1..(Offset(u) - 1) : Tried(inHand[u].partition, i))'
      BY <1>2, <1>3, <2>1 DEF HandOK, Tried, Unreadable
    <2>3. QED
      BY <1>2, <1>3, <2>1, <2>2 DEF HandOK
  <1>9. PassedIsTried'
    <2> SUFFICES ASSUME NEW q \in Partitions, NEW i \in 1..position[q], ~Tried(q, i)'
                 PROVE  InTheHandOf(q, i)'
      BY DEF PassedIsTried
    <2>1. i \in Nat /\ ~Tried(q, i)
      BY <1>4, Ranges
    <2>2. PICK u \in Topics : Busy(u) /\ inHand[u].partition = q /\ Offset(u) = i
      BY <2>1 DEF IInv, PassedIsTried, InTheHandOf
    <2>3. u # t
      <3>1. n \in 1..n
        OBVIOUS
      <3>2. QED
        BY <1>p, <1>5, <2>2, <3>1
    <2>4. QED
      BY <1>2, <1>3, <2>2, <2>3 DEF InTheHandOf
  <1>10. PositionsOK' /\ FailedAreEvents'
    BY DEF IInv, PositionsOK, FailedAreEvents
  <1>11. LifeOK'
    BY NoneIsNoMessage DEF IInv, LifeOK, Idle, Busy
  <1>12. QED
    BY <1>6, <1>7, <1>8, <1>9, <1>10, <1>11 DEF IInv

LEMMA GiveUpStep ==
    ASSUME IInv, NEW t \in Topics, GiveUp(t)
    PROVE  IInv'
  <1>1. Busy(t) /\ ~inHand[t].ok
    BY DEF GiveUp, Finished
  <1>2. Slot(t) \in failed
    BY <1>1 DEF IInv, HandsOK, HandOK
  <1>3. QED
    BY <1>1, <1>2, PutAway DEF GiveUp, broker, reading, history, counts

LEMMA CommitStep ==
    ASSUME IInv, NEW t \in Topics, Commit(t)
    PROVE  IInv'
  BY PutAway DEF Commit, Finished, reading, counts

(* A reader that begins anew stands behind what is committed, which was    *)
(* tried, and the message in hand stays as it is.                          *)
LEMMA RebalanceStep ==
    ASSUME IInv, NEW t \in Topics, Rebalance(t)
    PROVE  IInv'
  <1>1. /\ life \in {"running", "closing"} /\ loops[t] # {}
        /\ rebalances < MaxRebalances /\ rebalances' = rebalances + 1
        /\ position' = [p \in Partitions |-> IF TopicOf[p] = t THEN committed[p] ELSE position[p]]
        /\ settled' = {s \in settled : TopicOf[s[1]] # t} \cup {s \in Passed : TopicOf[s[1]] = t}
        /\ UNCHANGED <<log, committed, life, order, subs, loops, inHand, complete, failed, crashes>>
    BY DEF Rebalance, broker, history
  <1>2. \A u \in Topics : Busy(u)' = Busy(u) /\ Offset(u)' = Offset(u) /\ Slot(u)' = Slot(u)
    BY <1>1 DEF Busy, Offset, Slot
  <1>3. KafkaTypeOK'
    <2>1. rebalances' \in 0..MaxRebalances
      <3>1. rebalances \in 0..MaxRebalances
        BY DEF IInv, KafkaTypeOK
      <3>2. QED
        BY <1>1, <3>1, Bounds
    <2>2. position' \in [Partitions -> Nat] /\ \A p \in Partitions : position'[p] <= Len(log[p])
      BY <1>1, Ranges
    <2>3. settled' \subseteq Slots
      BY <1>1 DEF IInv, KafkaTypeOK, Passed
    <2>4. QED
      BY <1>1, <2>1, <2>2, <2>3 DEF IInv, KafkaTypeOK
  <1>4. HandsOK' /\ FailedAreEvents' /\ LifeOK' /\ CommitsFollowHandling'
    BY <1>1, <1>2 DEF IInv, HandsOK, HandOK, FailedAreEvents, LifeOK, CommitsFollowHandling, Tried, Unreadable
  <1>5. PassedIsTried'
    <2> SUFFICES ASSUME NEW p \in Partitions, NEW i \in 1..position'[p]
                 PROVE  Tried(p, i)' \/ InTheHandOf(p, i)'
      BY DEF PassedIsTried
    <2>1. CASE TopicOf[p] = t
      <3>1. Tried(p, i)
        BY <1>1, <2>1, CommittedIsTried
      <3>2. QED
        BY <1>1, <3>1 DEF Tried, Unreadable
    <2>2. CASE TopicOf[p] # t
      <3>1. Tried(p, i) \/ InTheHandOf(p, i)
        BY <1>1, <2>2 DEF IInv, PassedIsTried
      <3>2. Tried(p, i) => Tried(p, i)'
        BY <1>1 DEF Tried, Unreadable
      <3>3. InTheHandOf(p, i) => InTheHandOf(p, i)'
        BY <1>1, <1>2 DEF InTheHandOf
      <3>4. QED
        BY <3>1, <3>2, <3>3
    <2>3. QED
      BY <2>1, <2>2
  <1>6. PositionsOK'
    <2> SUFFICES ASSUME NEW s \in settled'
                 PROVE  s[2] <= position'[s[1]]
      BY <1>1 DEF IInv, PositionsOK
    <2>1. s[1] \in Partitions
      BY <1>1 DEF IInv, KafkaTypeOK, Passed, Slots
    <2>2. QED
      BY <1>1, <2>1 DEF IInv, PositionsOK, Passed
  <1>7. QED
    BY <1>3, <1>4, <1>5, <1>6 DEF IInv

LEMMA NextIInv == IInv /\ [KafkaNext]_kafkaVars => IInv'
  <1> SUFFICES ASSUME IInv, [KafkaNext]_kafkaVars PROVE IInv'
    OBVIOUS
  <1>1. CASE UNCHANGED kafkaVars
    <2>1. UNCHANGED <<broker, life, reading, inHand, history, loops, subs, order, counts>>
      BY <1>1 DEF kafkaVars, consumer
    <2>2. KafkaTypeOK' /\ LifeOK'
      BY <2>1 DEF IInv, KafkaTypeOK, LifeOK, broker, reading, history, counts
    <2>3. QED
      BY <2>1, <2>2, SameHands DEF IInv, HandsOK, HandOK
  <1>2. ASSUME NEW t \in Topics, Step(t) \/ Rebalance(t)
        PROVE  IInv'
    BY <1>2, FetchStep, FetchMalformedStep, RunHandlerStep, GiveUpStep, CommitStep, LoopEndsStep,
       RebalanceStep DEF Step
  <1>3. QED
    BY <1>1, <1>2, SubscribeStep, StartBusStep, PublishStep, PublishMalformedStep, StopStep, RestartStep
       DEF KafkaNext

LEMMA SpecIInv == KafkaSpec => []IInv
  BY InitIInv, NextIInv, PTL DEF KafkaSpec

(* Type correctness: offsets are never behind the end of their partition,  *)
(* and what was handled is a message the broker had.                       *)
THEOREM KafkaTypes == KafkaSpec => []KafkaTypeOK
  BY SpecIInv, PTL DEF IInv

(* Everything the group has committed was through all its handlers, was    *)
(* refused by one of them, or could not be read, whatever the interleaving *)
(* of the goroutines, whenever the group is rebalanced and wherever the    *)
(* process stops (consumer.go:80-119).                                     *)
THEOREM OnlyHandledIsCommitted == KafkaSpec => []CommitsFollowHandling
  BY SpecIInv, PTL DEF IInv

(* What a reader gives to the handlers lies beyond the offset it began at  *)
(* and beyond all it has given out since, after any number of restarts and *)
(* of rebalances under a message in hand (consumer.go:54-60 and :80).      *)
THEOREM SettledIsBehind == KafkaSpec => SettledIsNotHandledAgain
  <1> DEFINE Fresh == \A t \in Topics : ~Busy(t) /\ Busy(t)' => Slot(t)' \notin settled
  <1>1. IInv /\ [KafkaNext]_kafkaVars => [Fresh]_kafkaVars
    <2> SUFFICES ASSUME IInv, KafkaNext, NEW t \in Topics, ~Busy(t), Busy(t)'
                 PROVE  Slot(t)' \notin settled
      OBVIOUS
    <2>1. ASSUME UNCHANGED inHand
          PROVE  FALSE
      BY <2>1 DEF Busy
    <2>2. ~StartBus /\ ~Cancel /\ ~CloseBus
      BY <2>1 DEF StartBus, Cancel, CloseBus, consumer
    <2>3. ~Restart
      BY DEF Restart, Idle, Busy
    <2>4. /\ \A u \in Topics, h \in Handlers : ~Subscribe(u, h)
          /\ \A p \in Partitions, copies \in 1..2 : ~Publish(p, copies)
          /\ \A p \in Partitions : ~PublishMalformed(p)
          /\ \A u \in Topics : ~Rebalance(u)
      BY <2>1 DEF Subscribe, Publish, PublishMalformed, Rebalance, consumer
    <2>5. PICK u \in Topics : Step(u)
      BY <2>2, <2>3, <2>4 DEF KafkaNext
    <2>6. inHand \in [Topics -> InHand \cup {None}]
      BY DEF IInv, KafkaTypeOK
    <2>7. ASSUME NEW p \in Partitions, Fetch(u, p)
          PROVE  Slot(t)' \notin settled
      <3>1. position[p] \in Nat
        BY Ranges
      <3>2. u = t /\ Slot(t)' = <<p, position[p] + 1>>
        BY <2>6, <2>7 DEF Fetch, GiveOut, Busy, Slot, Offset
      <3>3. QED
        BY <3>1, <3>2 DEF IInv, PositionsOK
    <2>8. ASSUME NEW p \in Partitions, FetchMalformed(u, p)
          PROVE  FALSE
      BY <2>1, <2>8 DEF FetchMalformed
    <2>9. ASSUME NEW h \in Handlers, NEW ok \in BOOLEAN, RunHandler(u, h, ok)
          PROVE  FALSE
      BY <2>6, <2>9 DEF RunHandler, Busy
    <2>10. ~GiveUp(u) /\ ~Commit(u)
      BY <2>6 DEF GiveUp, Commit, Finished, Busy
    <2>11. ~LoopEnds(u)
      BY <2>1 DEF LoopEnds
    <2>12. QED
      BY <2>5, <2>7, <2>8, <2>9, <2>10, <2>11 DEF Step
  <1>2. QED
    BY <1>1, SpecIInv, PTL DEF KafkaSpec, SettledIsNotHandledAgain

(* After Close nothing is handled or committed until the process starts    *)
(* again: Close has waited for every goroutine (consumer.go:124-128).      *)
THEOREM QuietOnceClosed == KafkaSpec => ClosedIsQuiet
  <1>1. IInv /\ [KafkaNext]_kafkaVars => [life = "closed" => UNCHANGED <<committed, history>>]_kafkaVars
    <2> SUFFICES ASSUME IInv, KafkaNext, life = "closed"
                 PROVE  UNCHANGED <<committed, history>>
      OBVIOUS
    <2>1. \A t \in Topics : ~Busy(t) /\ ~Waiting(t)
      BY DEF IInv, LifeOK, Idle, Busy, Waiting
    <2>2. \A t \in Topics : ~Step(t) /\ ~Rebalance(t)
      BY <2>1 DEF Step, Fetch, FetchMalformed, RunHandler, GiveUp, Commit, Finished, LoopEnds, Rebalance
    <2>3. QED
      BY <2>2 DEF KafkaNext, Subscribe, StartBus, Publish, PublishMalformed, Cancel, CloseBus, Restart,
                  broker, consumer, history
  <1>2. QED
    BY <1>1, SpecIInv, PTL DEF KafkaSpec, ClosedIsQuiet
=============================================================================
