------------------------------ MODULE KafkaBus ------------------------------
(***************************************************************************)
(* The event bus over Kafka: one consumer group, one reader and goroutine  *)
(* per topic that had a handler when the bus was started, offsets that are *)
(* committed message by message, a group that may rebalance at any time,   *)
(* and a process that may stop or crash at any point: a reader begins anew *)
(* behind the group's offsets.  The group has this one process in it.      *)
(***************************************************************************)
EXTENDS Naturals, Sequences, FiniteSets

CONSTANTS
    Topics,       \* topics of the broker
    Partitions,   \* partitions of all of them
    TopicOf,      \* the topic of each partition
    Handlers,     \* functions given to Subscribe
    Orders,       \* how the program boots: "start first", "subscribe first"
    None,         \* no message in hand
    MaxLen,       \* bound on the length of a partition
    MaxCrashes,   \* bound on the restarts of the process
    MaxRebalances \* bound on the rebalances of the group

ASSUME KafkaAssumption ==
    /\ TopicOf \in [Partitions -> Topics]
    /\ Orders \subseteq {"start first", "subscribe first"}
    /\ None \notin [partition : Partitions, offset : Nat, left : SUBSET Handlers, ok : BOOLEAN]
    /\ MaxLen \in Nat /\ MaxCrashes \in Nat /\ MaxRebalances \in Nat

VARIABLES
    log,        \* the broker: the messages of each partition,
    committed,  \* and the group's offset in it
    life,       \* how far the process is
    order,      \* how it boots
    subs,       \* Consumer.handlers
    loops,      \* the handlers each topic's goroutine was started with
    position,   \* the readers' next offsets, less one
    inHand,     \* the message each goroutine is busy with
    complete,   \* history: messages that went through all handlers of a loop,
    failed,     \* and messages a handler returned an error for
    settled,    \* history: what the group's offset had passed when a reader last
                \* began, and what that reader has given out since
    crashes, rebalances

broker == <<log, committed>>
reading == <<position, settled>>
consumer == <<subs, loops, reading, inHand>>
history == <<complete, failed>>
counts == <<crashes, rebalances>>
kafkaVars == <<broker, life, order, consumer, history, counts>>

Message == {"event", "malformed"}
Slots == Partitions \X (1..MaxLen)
InHand == [partition : Partitions, offset : Nat, left : SUBSET Handlers, ok : BOOLEAN]

KafkaTypeOK ==
    /\ log \in [Partitions -> Seq(Message)]
    /\ committed \in [Partitions -> Nat]
    /\ life \in {"booting", "running", "closing", "closed"}
    /\ order \in {"start first", "subscribe first"}
    /\ subs \in [Topics -> SUBSET Handlers]
    /\ loops \in [Topics -> SUBSET Handlers]
    /\ position \in [Partitions -> Nat]
    /\ inHand \in [Topics -> InHand \cup {None}]
    /\ complete \subseteq Slots /\ failed \subseteq Slots /\ settled \subseteq Slots
    /\ crashes \in 0..MaxCrashes /\ rebalances \in 0..MaxRebalances
    /\ \A p \in Partitions : committed[p] <= Len(log[p]) /\ position[p] <= Len(log[p])
    /\ \A t \in Topics : inHand[t] # None =>
          inHand[t].offset \in 1..Len(log[inHand[t].partition])

Idle == [t \in Topics |-> None]
Nobody == [t \in Topics |-> {}]

KafkaInit ==
    /\ log = [p \in Partitions |-> <<>>]
    /\ committed = [p \in Partitions |-> 0]
    /\ life = "booting"
    /\ order \in Orders
    /\ subs = Nobody /\ loops = Nobody
    /\ position = committed
    /\ inHand = Idle
    /\ complete = {} /\ failed = {} /\ settled = {}
    /\ crashes = 0 /\ rebalances = 0

-----------------------------------------------------------------------------
(* Starting up.                                                            *)

\* Bus.Subscribe: the handler joins the list; a goroutine that is already
\* running keeps the copy it was given.
Subscribe(t, h) ==
    /\ life = IF order = "start first" THEN "running" ELSE "booting"
    /\ h \notin subs[t]
    /\ subs' = [subs EXCEPT ![t] = @ \cup {h}]
    /\ UNCHANGED <<broker, life, order, loops, reading, inHand, history, counts>>

\* The slots the group's offsets are past.
Passed == {s \in Slots : s[2] <= committed[s[1]]}

\* Mutant of StartBus: the readers have no group, and begin with the first message.
StartBusWithoutGroup ==
    /\ life = "booting"
    /\ life' = "running"
    /\ loops' = subs
    /\ position' = [p \in Partitions |-> 0]
    /\ settled' = Passed
    /\ UNCHANGED <<broker, order, subs, inHand, history, counts>>

\* Consumer.Start: one reader and goroutine for every topic with a handler;
\* the group's readers begin behind the committed offsets.
StartBus ==
    /\ life = "booting"
    /\ life' = "running"
    /\ loops' = subs
    /\ position' = committed
    /\ settled' = Passed
    /\ UNCHANGED <<broker, order, subs, inHand, history, counts>>

-----------------------------------------------------------------------------
(* Publishing.                                                             *)

\* Producer.Publish: a synchronous write to a partition of the balancer's
\* choice.  The writer tries again when the acknowledgement is lost, so the
\* broker may have the message twice.
Publish(p, copies) ==
    /\ life \in {"running", "closing"}
    /\ Len(log[p]) + copies <= MaxLen
    /\ log' = [log EXCEPT ![p] = @ \o [i \in 1..copies |-> "event"]]
    /\ UNCHANGED <<committed, life, order, consumer, history, counts>>

\* Something that is no envelope arrives from another producer of the topic.
PublishMalformed(p) ==
    /\ Len(log[p]) < MaxLen
    /\ log' = [log EXCEPT ![p] = Append(@, "malformed")]
    /\ UNCHANGED <<committed, life, order, consumer, history, counts>>

-----------------------------------------------------------------------------
(* The goroutine of a topic: consumeLoop.                                  *)

Busy(t) == inHand[t] # None
Waiting(t) == life \in {"running", "closing"} /\ loops[t] # {} /\ ~Busy(t)
Offset(t) == inHand[t].offset
Slot(t) == <<inHand[t].partition, Offset(t)>>

\* The message at offset n of p is given out, for the loop's handlers.
GiveOut(t, p, n) ==
    /\ inHand' = [inHand EXCEPT ![t] = [partition |-> p, offset |-> n, left |-> loops[t], ok |-> TRUE]]
    /\ position' = [position EXCEPT ![p] = n]
    /\ settled' = settled \cup {<<p, n>>}

\* Mutant of MayCommit: the offset of the next message but one is committed.
MayCommitNext(p, n) == committed' \in {committed, [committed EXCEPT ![p] = n + 1]}

\* CommitMessages may fail, and its error is only logged.
MayCommit(p, n) == committed' \in {committed, [committed EXCEPT ![p] = n]}

\* FetchMessage returns the next message of a partition, an envelope; it may
\* do so even when the context is cancelled.  Any other error of it leaves the
\* loop where it was.
Fetch(t, p) ==
    /\ Waiting(t)
    /\ TopicOf[p] = t
    /\ position[p] < Len(log[p])
    /\ log[p][position[p] + 1] = "event"
    /\ GiveOut(t, p, position[p] + 1)
    /\ UNCHANGED <<broker, life, order, subs, loops, history, counts>>

\* FetchMessage fails because the context is cancelled: the goroutine is done.
LoopEnds(t) ==
    /\ life = "closing" /\ Waiting(t)
    /\ loops' = [loops EXCEPT ![t] = {}]
    /\ UNCHANGED <<broker, life, order, subs, reading, inHand, history, counts>>

\* What cannot be unmarshalled is committed and skipped.
FetchMalformed(t, p) ==
    /\ Waiting(t)
    /\ TopicOf[p] = t
    /\ position[p] < Len(log[p])
    /\ log[p][position[p] + 1] = "malformed"
    /\ position' = [position EXCEPT ![p] = @ + 1]
    /\ settled' = settled \cup {<<p, position[p] + 1>>}
    /\ MayCommit(p, position[p] + 1)
    /\ UNCHANGED <<log, life, order, subs, loops, inHand, history, counts>>

\* The next handler of the copy; an error is remembered, the others still run.
RunHandler(t, h, ok) ==
    /\ Busy(t) /\ h \in inHand[t].left
    /\ inHand' = [inHand EXCEPT ![t].left = @ \ {h}, ![t].ok = @ /\ ok]
    /\ failed' = IF ok THEN failed ELSE failed \cup {Slot(t)}
    /\ UNCHANGED <<broker, life, order, subs, loops, reading, complete, counts>>

Finished(t, ok) == Busy(t) /\ inHand[t].left = {} /\ inHand[t].ok = ok

\* Mutant of GiveUp: the loop ends with its first handler error.
GiveUpAndStop(t) ==
    /\ Finished(t, FALSE)
    /\ inHand' = [inHand EXCEPT ![t] = None]
    /\ loops' = [loops EXCEPT ![t] = {}]
    /\ UNCHANGED <<broker, life, order, subs, reading, history, counts>>

\* A handler failed: no commit, and on to the next message.
GiveUp(t) ==
    /\ Finished(t, FALSE)
    /\ inHand' = [inHand EXCEPT ![t] = None]
    /\ UNCHANGED <<broker, life, order, subs, loops, reading, history, counts>>

\* Mutant of Commit: the result of the handlers is not looked at.
CommitAnyway(t) ==
    /\ Busy(t) /\ inHand[t].left = {}
    /\ MayCommit(inHand[t].partition, Offset(t))
    /\ complete' = IF inHand[t].ok THEN complete \cup {Slot(t)} ELSE complete
    /\ inHand' = [inHand EXCEPT ![t] = None]
    /\ UNCHANGED <<log, life, order, subs, loops, reading, failed, counts>>

\* All handlers succeeded: the offset is committed, past whatever failed before.
Commit(t) ==
    /\ Finished(t, TRUE)
    /\ MayCommit(inHand[t].partition, Offset(t))
    /\ complete' = complete \cup {Slot(t)}
    /\ inHand' = [inHand EXCEPT ![t] = None]
    /\ UNCHANGED <<log, life, order, subs, loops, reading, failed, counts>>

\* The group is rebalanced, since a reader of it has joined or left or was not
\* heard of in time: the reader of t begins anew behind the group's offsets, and
\* its goroutine goes on with the message it has in hand.
Rebalance(t) ==
    /\ life \in {"running", "closing"} /\ loops[t] # {}
    /\ rebalances < MaxRebalances
    /\ rebalances' = rebalances + 1
    /\ position' = [p \in Partitions |-> IF TopicOf[p] = t THEN committed[p] ELSE position[p]]
    /\ settled' = {s \in settled : TopicOf[s[1]] # t} \cup {s \in Passed : TopicOf[s[1]] = t}
    /\ UNCHANGED <<broker, life, order, subs, loops, inHand, history, crashes>>

-----------------------------------------------------------------------------
(* Stopping.                                                               *)

\* Bus.Close: the consumer's context is cancelled, if it has one.
Cancel ==
    /\ life = "running"
    /\ life' = "closing"
    /\ UNCHANGED <<broker, order, consumer, history, counts>>

\* Mutant of CloseBus: Close does not wait for the goroutines.
CloseBusAtOnce ==
    /\ life = "closing"
    /\ life' = "closed"
    /\ UNCHANGED <<broker, order, consumer, history, counts>>

\* Close waits for the goroutines, then closes the readers and the writer.
CloseBus ==
    /\ life = "closing"
    /\ loops = Nobody
    /\ life' = "closed"
    /\ UNCHANGED <<broker, order, consumer, history, counts>>

\* The process ends, with or without Close, and is started again: only what
\* the broker has is left.
Restart ==
    /\ crashes < MaxCrashes
    /\ crashes' = crashes + 1
    /\ life' = "booting"
    /\ subs' = Nobody /\ loops' = Nobody
    /\ position' = committed
    /\ inHand' = Idle
    /\ settled' = {}
    /\ UNCHANGED <<broker, order, history, rebalances>>

-----------------------------------------------------------------------------

Step(t) ==
    \/ \E p \in Partitions : Fetch(t, p) \/ FetchMalformed(t, p)
    \/ \E h \in Handlers, ok \in BOOLEAN : RunHandler(t, h, ok)
    \/ GiveUp(t)
    \/ Commit(t)
    \/ LoopEnds(t)

KafkaNext ==
    \/ \E t \in Topics, h \in Handlers : Subscribe(t, h)
    \/ StartBus
    \/ \E p \in Partitions, copies \in 1..2 : Publish(p, copies)
    \/ \E p \in Partitions : PublishMalformed(p)
    \/ \E t \in Topics : Step(t) \/ Rebalance(t)
    \/ Cancel
    \/ CloseBus
    \/ Restart

\* The runtime schedules the goroutines, and handlers return.
KafkaSpec == KafkaInit /\ [][KafkaNext]_kafkaVars
                /\ \A t \in Topics : WF_kafkaVars(Step(t))
                /\ WF_kafkaVars(CloseBus)

-----------------------------------------------------------------------------
(* Properties.                                                             *)

Unreadable(p, i) == i <= Len(log[p]) /\ log[p][i] = "malformed"
Tried(p, i) == <<p, i>> \in complete \cup failed \/ Unreadable(p, i)

\* What the group's offset means (consumer.go:111): the message it stands on
\* went through all handlers of its loop or was unreadable, and of those before
\* it only messages that a handler refused have been skipped.
CommitsFollowHandling ==
    \A p \in Partitions : \A i \in 1..committed[p] :
        /\ Tried(p, i)
        /\ i = committed[p] => <<p, i>> \notin failed \ complete

\* Messages are handled again only from the group's offset on, and once each time a
\* reader begins: what the offset had passed when it began, after a rebalance that
\* took it back from under a message in hand or after a crash, and what it has given
\* out since is not handed to a handler again (consumer.go:54-60 and :80).
SettledIsNotHandledAgain ==
    [][\A t \in Topics : ~Busy(t) /\ Busy(t)' => Slot(t)' \notin settled]_kafkaVars

\* Close lets go of the readers and the writer only when no handler is running
\* and nothing will be committed any more (consumer.go:124-128).
ClosedIsQuiet ==
    [][life = "closed" => UNCHANGED <<committed, history>>]_kafkaVars

\* Every message of a topic that is being read is tried, whatever the fate of
\* the messages before it, unless the process stops (consumer.go:80-119).
EveryMessageIsTried ==
    \A s \in Slots :
        (life = "running" /\ s[2] <= Len(log[s[1]]) /\ loops[TopicOf[s[1]]] # {})
            ~> (life # "running" \/ Tried(s[1], s[2]))

\* main.go:203 says that consumption starts after subscriptions are registered:
\* once the server runs, what is published on a topic with a handler is tried.
SubscribersAreServed ==
    \A s \in Slots :
        (life = "running" /\ s[2] <= Len(log[s[1]]) /\ subs[TopicOf[s[1]]] # {})
            ~> (life # "running" \/ Tried(s[1], s[2]))
=============================================================================
