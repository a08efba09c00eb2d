----------------------------- MODULE MCKafkaBus -----------------------------
(* A topic with two handlers, of one partition whose messages are followed   *)
(* to the end or of two, and how the bus is started.                         *)
EXTENDS KafkaBus, TLC

CONSTANTS t1, p1, p2, h1, h2

MCTopics == {t1}
MCPartitions == {p1, p2}
MCTopicOf == (p1 :> t1) @@ (p2 :> t1)
MCOnePartition == {p1}
MCOneTopicOf == p1 :> t1
MCHandlers == {h1, h2}
MCBoth == {"start first", "subscribe first"}
MCMain == {"start first"}
=============================================================================
